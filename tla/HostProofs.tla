----------------------------- MODULE HostProofs -----------------------------
(***************************************************************************)
(* What holds of the host runtime: of Bus for any number of simulations    *)
(* opened and closed in any order, at any addresses; of Pins for any pins, *)
(* stimulus and number of watches; of PluginHost for any plugins; of       *)
(* HexLoad for any programs, any altered byte and any cut; of StepLoop for *)
(* any ticks, costs, jumps and hooks.                                      *)
(***************************************************************************)
EXTENDS
  Bus, Pins, PluginHost, HexLoad, StepLoop, Numbers, FiniteSetTheorems, SequenceTheorems, TLAPS

(***************************************************************************)
(* AccessesFindTheirBus is not inductive: a trampoline finds its bus only  *)
(* because every allocated bus is registered, and it is the right one only *)
(* because no two allocated buses have the same CPU.                       *)
(***************************************************************************)
BusInv ==
  /\ opened \in Nat
  /\ Live \subseteq 1..opened
  /\ registry \in Seq(Live \cup {Null})
  /\ \A b \in Live : \E i \in 1..Len(registry) : registry[i] = b
  /\ last \in Live \cup {Null}
  /\ \A a, b \in Live : bus[a] = bus[b] => a = b

(***************************************************************************)
(* A bus that is registered displaces no other.                            *)
(***************************************************************************)
LEMMA RegisteredKeepsAll ==
  ASSUME registry \in Seq(Live \cup {Null}), NEW b \in Nat \ {Null}
  PROVE  /\ Registered(b) \in Seq(Live \cup {Null, b})
         /\ \E i \in 1..Len(Registered(b)) : Registered(b)[i] = b
         /\ \A i \in 1..Len(registry) : registry[i] # Null =>
              \E j \in 1..Len(Registered(b)) : Registered(b)[j] = registry[i]
<1> DEFINE n == Len(registry)
<1>1. registry \in [1..n -> Live \cup {Null}] /\ n \in Nat
  OBVIOUS
<1>2. CASE Empty # {}
  <2> DEFINE k == CHOOSE i \in Empty : \A j \in Empty : i <= j
             r == [registry EXCEPT ![k] = b]
  <2>1. k \in 1..n /\ registry[k] = Null
    <3>1. Empty \in SUBSET (1..n)
      BY DEF Empty
    <3>2. k \in Empty
      BY <1>1, <1>2, <3>1, Least
    <3> QED BY <3>2 DEF Empty
  <2>2. Registered(b) = r
    BY <1>2 DEF Registered
  <2> HIDE DEF k
  <2>3. r \in [1..n -> Live \cup {Null, b}] /\ r[k] = b /\ \A i \in 1..n : i # k => r[i] = registry[i]
    BY <1>1, <2>1
  <2>4. r \in Seq(Live \cup {Null, b}) /\ Len(r) = n
    BY <1>1, <2>3
  <2> HIDE DEF r
  <2> QED BY <2>1, <2>2, <2>3, <2>4
<1>3. CASE Empty = {}
  <2> DEFINE cap == IF registry = <<>> THEN FirstCap ELSE 2 * n
             r == [i \in 1..cap |-> CASE i <= n -> registry[i] [] i = n + 1 -> b [] OTHER -> Null]
  <2>1. cap \in Nat /\ cap >= n + 1
    <3>1. CASE registry = <<>>
      BY <3>1, BusAssumption
    <3>2. CASE registry # <<>>
      BY <3>2, <1>1
    <3> QED BY <3>1, <3>2
  <2>2. Registered(b) = r
    BY <1>3 DEF Registered
  <2> HIDE DEF cap
  <2>3. r \in [1..cap -> Live \cup {Null, b}] /\ r[n + 1] = b /\ \A i \in 1..n : r[i] = registry[i]
    BY <1>1, <2>1
  <2>4. r \in Seq(Live \cup {Null, b}) /\ Len(r) = cap
    BY <2>1, <2>3
  <2> HIDE DEF r
  <2> QED BY <1>1, <2>1, <2>2, <2>3, <2>4
<1> QED BY <1>2, <1>3

(***************************************************************************)
(* A look-up finds the bus of its CPU, from the cache or the registry.     *)
(***************************************************************************)
LEMMA LookUpFinds ==
  ASSUME BusInv, NEW c, NEW b \in Live, bus[b] = c
  PROVE  BusForCpu(c) = b
<1>1. CASE last # Null /\ bus[last] = c
  BY <1>1 DEF BusForCpu, BusInv
<1>2. CASE last = Null \/ bus[last] # c
  <2>1. PICK k \in 1..Len(registry) : registry[k] = b
    BY DEF BusInv
  <2>2. b # Null
    BY DEF BusInv, Null
  <2>3. Slots(c) # {}
    BY <2>1, <2>2 DEF Slots
  <2> DEFINE s == CHOOSE i \in Slots(c) : \A j \in Slots(c) : i <= j
  <2>4. s \in Slots(c)
    <3>1. Slots(c) \in SUBSET (1..Len(registry)) /\ Len(registry) \in Nat
      BY DEF Slots, BusInv
    <3> QED BY <2>3, <3>1, Least
  <2>5. BusForCpu(c) = registry[s]
    BY <1>2, <2>3 DEF BusForCpu
  <2> HIDE DEF s
  <2>6. registry[s] \in Live /\ bus[registry[s]] = c
    BY <2>4 DEF Slots, BusInv
  <2> QED BY <2>5, <2>6 DEF BusInv
<1> QED BY <1>1, <1>2

LEMMA BusInvInit == BusInit => BusInv
BY DEF BusInit, BusInv, Live, Null

LEMMA BusInvOpen ==
  ASSUME BusInv, NEW c \in Cpus, Open(c)
  PROVE  BusInv'
<1> USE DEF Open
<1>1. opened \in Nat /\ opened' = opened + 1 /\ opened' \notin Live /\ opened' \in Nat \ {Null}
  BY DEF BusInv, Null
<1>2. Live' = Live \cup {opened'} /\ Live' \subseteq 1..opened'
  BY <1>1 DEF BusInv, Live
<1>3. /\ registry' \in Seq(Live' \cup {Null})
      /\ \A b \in Live' : \E i \in 1..Len(registry') : registry'[i] = b
  <2>1. /\ registry' \in Seq(Live \cup {Null, opened'})
        /\ \E i \in 1..Len(registry') : registry'[i] = opened'
        /\ \A i \in 1..Len(registry) : registry[i] # Null =>
             \E j \in 1..Len(registry') : registry'[j] = registry[i]
    <3>1. registry \in Seq(Live \cup {Null})
      BY DEF BusInv
    <3>2. PICK o \in Nat \ {Null} : o = opened'
      BY <1>1
    <3>3. registry' = Registered(o)
      BY <3>2
    <3>4. /\ Registered(o) \in Seq(Live \cup {Null, o})
          /\ \E i \in 1..Len(Registered(o)) : Registered(o)[i] = o
          /\ \A i \in 1..Len(registry) : registry[i] # Null =>
               \E j \in 1..Len(Registered(o)) : Registered(o)[j] = registry[i]
      BY <3>1, RegisteredKeepsAll
    <3> QED BY <3>2, <3>3, <3>4
  <2>2. Live \cup {Null, opened'} = Live' \cup {Null}
    BY <1>2
  <2>3. \A b \in Live : b # Null /\ \E i \in 1..Len(registry) : registry[i] = b
    BY DEF BusInv, Null
  <2> QED BY <1>2, <2>1, <2>2, <2>3
<1>4. last' \in Live' \cup {Null}
  BY <1>2 DEF BusInv
<1>5. \A a, b \in Live' : bus'[a] = bus'[b] => a = b
  BY <1>1, <1>2 DEF BusInv, Live
<1> QED BY <1>1, <1>2, <1>3, <1>4, <1>5 DEF BusInv

LEMMA BusInvClose ==
  ASSUME BusInv, NEW x \in Live, Close(x)
  PROVE  BusInv'
<1> USE DEF Close
<1> DEFINE n == Len(registry)
<1>1. Live' = Live \ {x} /\ opened' = opened /\ \A b \in Live' : bus'[b] = bus[b]
  BY DEF Live
<1>2. registry \in [1..n -> Live \cup {Null}] /\ n \in Nat /\ x # Null
  BY DEF BusInv, Null
<1>3. /\ registry' \in Seq(Live' \cup {Null})
      /\ \A b \in Live' : \E i \in 1..Len(registry') : registry'[i] = b
  <2>1. CASE \A i \in 1..n : registry[i] \in {Null, x}
    <3>1. Live' = {}
      BY <1>1, <2>1 DEF BusInv, Null
    <3> QED BY <2>1, <3>1
  <2>2. CASE ~ \A i \in 1..n : registry[i] \in {Null, x}
    <3>1. registry' = [i \in 1..n |-> IF registry[i] = x THEN Null ELSE registry[i]]
      BY <2>2
    <3>2. registry' \in [1..n -> Live' \cup {Null}]
      BY <1>1, <1>2, <3>1
    <3>3. registry' \in Seq(Live' \cup {Null}) /\ Len(registry') = n
      BY <1>2, <3>2
    <3>4. \A b \in Live' : \E i \in 1..n : registry[i] = b /\ b # x
      BY <1>1 DEF BusInv
    <3> QED BY <3>1, <3>3, <3>4
  <2> QED BY <2>1, <2>2
<1>4. last' \in Live' \cup {Null}
  BY <1>1 DEF BusInv, LastWithout
<1>5. \A a, b \in Live' : bus'[a] = bus'[b] => a = b
  BY <1>1 DEF BusInv
<1> QED BY <1>1, <1>3, <1>4, <1>5 DEF BusInv

(***************************************************************************)
(* Every allocated bus is registered and alone has its CPU, and the cached *)
(* one is allocated.                                                       *)
(***************************************************************************)
THEOREM BusInvariant == BusSpec => []BusInv
<1>1. BusInv /\ [BusNext]_busvars => BusInv'
  <2> SUFFICES ASSUME BusInv, [BusNext]_busvars PROVE BusInv'
    OBVIOUS
  <2>1. CASE \E c \in Cpus : Open(c)
    BY <2>1, BusInvOpen
  <2>2. CASE \E c \in Cpus : OpenFails(c)
    BY <2>2 DEF OpenFails, busvars, BusInv, Live
  <2>3. CASE \E c \in Cpus : Trampoline(c)
    <3>1. PICK c \in Cpus : Trampoline(c)
      BY <2>3
    <3>2. PICK b \in Live : bus[b] = c
      BY <3>1 DEF Trampoline
    <3>3. last' = b
      BY <3>1, <3>2, LookUpFinds DEF Trampoline
    <3> QED BY <3>1, <3>2, <3>3 DEF Trampoline, BusInv, Live
  <2>4. CASE \E b \in Live : Close(b)
    BY <2>4, BusInvClose
  <2>5. CASE UNCHANGED busvars
    BY <2>5 DEF busvars, BusInv, Live
  <2> QED BY <2>1, <2>2, <2>3, <2>4, <2>5 DEF BusNext
<1> QED BY <1>1, BusInvInit, PTL DEF BusSpec

(***************************************************************************)
(* A register access runs the subscribers of its own simulation's bus, and *)
(* no freed bus is registered or cached.                                   *)
(***************************************************************************)
THEOREM BusFound == BusSpec => []AccessesFindTheirBus
<1>1. BusInv => AccessesFindTheirBus
  <2> SUFFICES ASSUME BusInv PROVE AccessesFindTheirBus
    OBVIOUS
  <2>1. \A i \in 1..Len(registry) : registry[i] # Null => registry[i] \in Live
    BY DEF BusInv
  <2>2. ASSUME NEW c \in Cpus, NEW b \in Live, bus[b] = c
        PROVE  bus[BusForCpu(c)] = c
    BY <2>2, LookUpFinds
  <2> QED BY <2>1, <2>2 DEF BusInv, AccessesFindTheirBus
<1> QED BY <1>1, BusInvariant, PTL

-----------------------------------------------------------------------------
(***************************************************************************)
(* The state of the pins.  A stimulus entry is the only one of its pin,    *)
(* and the register it is on composes its reads with the test's.           *)
(***************************************************************************)
PinsTypeOK ==
  /\ latch \in [PortPins -> {0, 1}]
  /\ stim \in Seq([pin : PortPins, active : BOOLEAN, value : {0, 1}])
  /\ readers \in [Regs -> Seq({"test", "device"})]
  /\ device \in 0..2
  /\ watches \in Seq([pin : PortPins, level : {0, 1}])
  /\ calls \in Seq([regs : SUBSET Regs, at : Nat \ {0}, told : BOOLEAN])
  /\ unheard \subseteq Regs

OneEntry == \A i, j \in 1..Len(stim) : stim[i].pin = stim[j].pin => i = j

Subscribed(r) == \E n \in 1..Len(readers[r]) : readers[r][n] = "test"

EntriesAreRead == \A i \in 1..Len(stim) : Subscribed(stim[i].pin[1])

(***************************************************************************)
(* WatchersKnowTheLevel says nothing while a notification runs.  What      *)
(* makes it true in the end is that every watch that does not know its     *)
(* level is still ahead of some frame of the recursion: one whose loop has *)
(* not passed it, or that has its register still to do.                    *)
(***************************************************************************)
WillLook(f, i) ==
  LET r == watches[i].pin[1]
  IN  /\ r \in f.regs
      /\ r = Lowest(f.regs) => f.at <= i

Due(i) == \E k \in 1..Len(calls) : WillLook(calls[k], i)

Knows(i) == watches[i].pin[1] \in unheard \/ watches[i].level = PinLevel(watches[i].pin)

WatchesDue == \A i \in 1..Len(watches) : Knows(i) \/ Due(i)

PinsInv == PinsTypeOK /\ OneEntry /\ EntriesAreRead /\ WatchesDue

LEMMA RegOf == ASSUME NEW p \in PortPins PROVE p[1] \in Regs
  BY DEF Regs

LEMMA LowestIn ==
  ASSUME NEW regs \in SUBSET Regs, regs # {}
  PROVE  Lowest(regs) \in regs
<1> DEFINE S == {r + 1 : r \in regs}
           k == CHOOSE i \in S : \A j \in S : i <= j
<1>1. \A r \in regs : r \in 0..127
  BY PinsAssumption DEF Regs
<1>2. S \in SUBSET (1..128) /\ S # {}
  BY <1>1
<1>3. k \in S /\ \A j \in S : k <= j
  <2> HIDE DEF S
  <2> QED BY <1>2, Least
<1> HIDE DEF k
<1>4. PICK r \in regs : k = r + 1
  BY <1>3
<1>5. \A s \in regs : r <= s
  <2> SUFFICES ASSUME NEW s \in regs PROVE r <= s
    OBVIOUS
  <2>1. s + 1 \in S
    OBVIOUS
  <2>2. k <= s + 1
    BY <1>3, <2>1
  <2> QED BY <1>1, <1>4, <2>2
<1> QED BY <1>5 DEF Lowest

LEMMA LowestOfOne == ASSUME NEW r \in Regs PROVE Lowest({r}) = r
  BY PinsAssumption, LowestIn

(***************************************************************************)
(* The value of the lowest drive is the value of the only one.             *)
(***************************************************************************)
LEMMA LevelOfDrive ==
  ASSUME PinsTypeOK, OneEntry, NEW p \in PortPins, NEW i \in Driving(p)
  PROVE  Driving(p) = {i} /\ PinLevel(p) = stim[i].value
<1>1. Driving(p) = {i} /\ i \in 1..Len(stim)
  BY DEF Driving, Entries, OneEntry
<1>2. (CHOOSE k \in Driving(p) : \A j \in Driving(p) : k <= j) = i
  BY <1>1 DEF PinsTypeOK
<1> QED BY <1>1, <1>2 DEF PinLevel

LEMMA LevelType ==
  ASSUME PinsTypeOK, OneEntry, NEW p \in PortPins
  PROVE  PinLevel(p) \in {0, 1}
<1>1. CASE Driving(p) = {}
  BY <1>1 DEF PinLevel, PinsTypeOK
<1>2. CASE Driving(p) # {}
  <2>1. PICK i \in Driving(p) : TRUE
    BY <1>2
  <2>2. i \in 1..Len(stim)
    BY <2>1 DEF Driving, Entries
  <2>3. stim[i] \in [pin : PortPins, active : BOOLEAN, value : {0, 1}]
    BY <2>2, ElementOfSeq DEF PinsTypeOK
  <2> QED BY <2>1, <2>3, LevelOfDrive
<1> QED BY <1>1, <1>2

(***************************************************************************)
(* Where no device answers, what the test subscribed decides a read, and   *)
(* asking it again changes nothing.                                        *)
(***************************************************************************)
LEMMA ReadIsLevel ==
  ASSUME PinsTypeOK, OneEntry, EntriesAreRead, NEW p \in PortPins \ DevicePins
  PROVE  CpuReads(p) = PinLevel(p)
<1> DEFINE who == readers[p[1]]
           L == Len(who)
           requested(n) == \E m \in 1..n : who[m] = "test"
           Step(v, n) == IF n = 0 THEN latch[p]
                         ELSE IF who[n] = "test" THEN StimRead(p, v[n - 1])
                         ELSE IF p \in DevicePins /\ device # 2 THEN device ELSE v[n - 1]
           IsRead(v) == v = [n \in 0..L |-> Step(v, n)]
           g == [n \in 0..L |-> IF requested(n) /\ Driving(p) # {} THEN PinLevel(p) ELSE latch[p]]
           read == CHOOSE v : IsRead(v)
<1>1. who \in Seq({"test", "device"}) /\ L \in Nat
  BY RegOf DEF PinsTypeOK
<1>2. \A x : StimRead(p, x) = IF Driving(p) = {} THEN x ELSE PinLevel(p)
  <2>1. CASE Driving(p) = {}
    BY <2>1 DEF StimRead
  <2>2. CASE Driving(p) # {}
    <3>1. PICK i \in Driving(p) : TRUE
      BY <2>2
    <3>2. Driving(p) = {i} /\ PinLevel(p) = stim[i].value /\ PinLevel(p) \in {0, 1}
      BY <3>1, LevelOfDrive, LevelType
    <3> QED BY <2>2, <3>2 DEF StimRead
  <2> QED BY <2>1, <2>2
<1>3. IsRead(g)
  <2>1. \A n \in 0..L : g[n] = Step(g, n)
    <3> SUFFICES ASSUME NEW n \in 0..L PROVE g[n] = Step(g, n)
      OBVIOUS
    <3>1. CASE n = 0
      BY <1>1, <3>1
    <3>2. CASE n # 0
      <4>1. n - 1 \in 0..L /\ n \in 1..L
        BY <1>1, <3>2
      <4>2. requested(n) <=> requested(n - 1) \/ who[n] = "test"
        <5>1. \A m \in 1..n : m = n \/ m \in 1..n - 1
          BY <1>1
        <5>2. \A m \in 1..n - 1 : m \in 1..n
          BY <1>1
        <5>3. n \in 1..n
          BY <4>1
        <5> QED BY <5>1, <5>2, <5>3
      <4> QED BY <1>2, <3>2, <4>1, <4>2
    <3> QED BY <3>1, <3>2
  <2> QED BY <2>1
<1>4. IsRead(read)
  BY <1>3
<1>5. read = g
  <2> HIDE DEF read
  <2>1. \A n \in 0..L : read[n] = Step(read, n) /\ g[n] = Step(g, n)
    BY <1>3, <1>4
  <2>2. read = [n \in 0..L |-> read[n]] /\ g = [n \in 0..L |-> g[n]]
    <3>1. \A v : IsRead(v) => v = [n \in 0..L |-> v[n]]
      OBVIOUS
    <3> HIDE DEF g, IsRead
    <3> QED BY <1>3, <1>4, <3>1
  <2>3. read[0] = g[0]
    <3>1. 0 \in 0..L /\ Step(read, 0) = Step(g, 0)
      BY <1>1
    <3> HIDE DEF g, Step
    <3> QED BY <2>1, <3>1
  <2>4. \A n \in 1..L : read[n - 1] = g[n - 1] => read[n] = g[n]
    <3> SUFFICES ASSUME NEW n \in 1..L, read[n - 1] = g[n - 1] PROVE read[n] = g[n]
      OBVIOUS
    <3>1. n \in 0..L /\ n # 0
      BY <1>1
    <3>2. Step(read, n) = Step(g, n)
      BY <3>1
    <3> QED BY <2>1, <3>1, <3>2, ZenonT(40)
  <2> HIDE DEF g
  <2>5. TwoRuns(read, g, L)
    BY <1>1, <2>2, <2>3, <2>4 DEF TwoRuns
  <2> QED BY <2>5, SameRecursion
<1>6. CpuReads(p) = g[L]
  <2> HIDE DEF g
  <2> QED BY <1>5 DEF CpuReads
<1>7. CASE Driving(p) = {}
  BY <1>1, <1>6, <1>7 DEF PinLevel
<1>8. CASE Driving(p) # {}
  <2>1. PICK i \in 1..Len(stim) : stim[i].pin = p
    BY <1>8 DEF Driving, Entries
  <2>2. requested(L)
    BY <2>1 DEF EntriesAreRead, Subscribed
  <2> QED BY <1>1, <1>6, <1>8, <2>2
<1> QED BY <1>7, <1>8

-----------------------------------------------------------------------------
Calls == [regs : SUBSET Regs, at : Nat \ {0}, told : BOOLEAN]
Watches == [pin : PortPins, level : {0, 1}]

LEMMA PinsInitInv == PinsInit => PinsInv
<1> SUFFICES ASSUME PinsInit PROVE PinsInv
  OBVIOUS
<1>1. PinsTypeOK
  BY DEF PinsInit, PinsTypeOK, High
<1> QED BY <1>1 DEF PinsInit, PinsInv, OneEntry, EntriesAreRead, WatchesDue

LEMMA NotifyType ==
  ASSUME PinsTypeOK, NEW r \in Regs, Notify(r)
  PROVE  calls' \in Seq(Calls)
<1>1. calls \in Seq(Calls)
  BY DEF PinsTypeOK, Calls
<1>2. Frame({r}) \in Calls
  BY DEF Frame, Calls
<1> QED BY <1>1, <1>2, AppendProperties DEF Notify

LEMMA FrameFields ==
  ASSUME NEW R, NEW N, NEW T, NEW f \in [regs : R, at : N, told : T], NEW t \in T
  PROVE  [f EXCEPT !.told = t] = [regs |-> f.regs, at |-> f.at, told |-> t]
OBVIOUS

LEMMA TopFrame ==
  ASSUME PinsTypeOK, calls # <<>>
  PROVE  Top \in Calls /\ Len(calls) \in Nat \ {0}
<1>1. calls \in Seq(Calls) /\ Len(calls) \in Nat /\ Len(calls) # 0
  BY DEF PinsTypeOK, Calls
<1> QED BY <1>1, ElementOfSeq DEF Top

LEMMA ContinueType ==
  ASSUME PinsTypeOK, calls # <<>>, NEW f \in Calls, Continue(f)
  PROVE  calls' \in Seq(Calls) /\ Len(calls') = Len(calls) /\ calls'[Len(calls)] = f
         /\ \A k \in 1..Len(calls) - 1 : calls'[k] = calls[k]
<1>1. calls \in Seq(Calls) /\ Len(calls) \in Nat \ {0}
  BY TopFrame DEF PinsTypeOK, Calls
<1> QED BY <1>1 DEF Continue

(***************************************************************************)
(* A look at a watch: the frame it leaves.                                 *)
(***************************************************************************)
LEMMA LookFacts ==
  ASSUME PinsTypeOK, OneEntry, Look
  PROVE  LET w == watches[Top.at]
             tell == w.pin[1] = Lowest(Top.regs) /\ PinLevel(w.pin) # w.level
         IN  /\ Top \in Calls /\ calls # <<>> /\ Top.at \in 1..Len(watches)
             /\ w \in Watches /\ PinLevel(w.pin) \in {0, 1}
             /\ watches' = IF tell THEN [watches EXCEPT ![Top.at].level = PinLevel(w.pin)] ELSE watches
             /\ Continue([regs |-> Top.regs, at |-> Top.at + 1, told |-> tell])
             /\ [regs |-> Top.regs, at |-> Top.at + 1, told |-> tell] \in Calls
<1>1. Top \in Calls /\ Top.at <= Len(watches) /\ Top.at \in Nat \ {0} /\ Top.regs \in SUBSET Regs /\ calls # <<>>
  BY TopFrame DEF Look, NextWatch, Calls
<1>2. Top.at \in 1..Len(watches)
  BY <1>1 DEF PinsTypeOK
<1>3. watches[Top.at] \in Watches
  BY <1>2, ElementOfSeq DEF PinsTypeOK, Watches
<1>4. PinLevel(watches[Top.at].pin) \in {0, 1}
  BY <1>3, LevelType DEF Watches
<1>5. \A b \in BOOLEAN : [regs |-> Top.regs, at |-> Top.at + 1, told |-> b] \in Calls
  BY <1>1 DEF Calls
<1> HIDE DEF PinsTypeOK, OneEntry
<1> QED BY <1>1, <1>2, <1>3, <1>4, <1>5 DEF Look, NextWatch

LEMMA PinsTypeNext ==
  ASSUME PinsTypeOK, OneEntry, [PinsNext]_pinvars
  PROVE  PinsTypeOK'
<1> USE DEF PinsTypeOK
<1>1. ASSUME NEW r \in Regs, NEW v \in [{p \in PortPins : p[1] = r} -> {0, 1}], PortWrite(r, v)
      PROVE PinsTypeOK'
  <2>1. calls' \in Seq(Calls)
    BY <1>1, NotifyType DEF PortWrite
  <2>2. latch' \in [PortPins -> {0, 1}]
    BY <1>1 DEF PortWrite
  <2> QED BY <1>1, <2>1, <2>2 DEF PortWrite, Calls
<1>2. ASSUME NEW p \in PortPins, NEW v \in 0..2, DrivePin(p, v)
      PROVE PinsTypeOK'
  <2> DEFINE E == [pin : PortPins, active : BOOLEAN, value : {0, 1}]
  <2>0. p[1] \in Regs
    BY RegOf
  <2>1. calls' \in Seq(Calls)
    <3>1. Notify(p[1]) => calls' \in Seq(Calls)
      BY <2>0, NotifyType
    <3> QED BY <1>2, <3>1 DEF DrivePin, Calls
  <2>2. stim' \in Seq(E)
    <3> USE <1>2
    <3> HIDE DEF PinsTypeOK
    <3>0. stim \in Seq(E) /\ Len(stim) \in Nat
      BY DEF PinsTypeOK
    <3>1. CASE Entries(p) # {}
      <4> DEFINE s == [i \in 1..Len(stim) |->
               IF i \in Entries(p) THEN [pin |-> p, active |-> v # 2, value |-> IF v = 1 THEN 1 ELSE 0]
               ELSE stim[i]]
      <4>1. stim' = s
        BY <1>2, <3>1 DEF DrivePin
      <4>2. \A i \in 1..Len(stim) : stim[i] \in E
        BY <3>0, ElementOfSeq
      <4>3. [pin |-> p, active |-> v # 2, value |-> IF v = 1 THEN 1 ELSE 0] \in E
        OBVIOUS
      <4>4. s \in [1..Len(stim) -> E] /\ Len(stim) \in Nat
        BY <3>0, <4>2, <4>3
      <4> HIDE DEF s, E
      <4> QED BY <4>1, <4>4
    <3>2. CASE Entries(p) = {} /\ v # 2 /\ Len(stim) < MaxStim
      <4>1. stim' = Append(stim, [pin |-> p, active |-> TRUE, value |-> v])
        BY <3>0, <3>2, PinsAssumption DEF DrivePin
      <4>2. [pin |-> p, active |-> TRUE, value |-> v] \in E
        BY <3>2
      <4> HIDE DEF E
      <4> QED BY <3>0, <4>1, <4>2, AppendProperties
    <3>3. CASE Entries(p) = {} /\ (v = 2 \/ Len(stim) >= MaxStim)
      <4>1. stim' = stim
        BY <3>0, <3>3, PinsAssumption DEF DrivePin
      <4> QED BY <3>0, <4>1
    <3> QED BY <3>1, <3>2, <3>3 DEF DrivePin
  <2>3. readers' \in [Regs -> Seq({"test", "device"})]
    <3>1. readers' = readers \/ readers' = [readers EXCEPT ![p[1]] = Append(@, "test")]
      BY <1>2 DEF DrivePin
    <3>2. Append(readers[p[1]], "test") \in Seq({"test", "device"})
      BY <2>0
    <3> QED BY <2>0, <3>1, <3>2
  <2>4. unheard' \subseteq Regs
    BY <1>2 DEF DrivePin
  <2> QED BY <1>2, <2>1, <2>2, <2>3, <2>4 DEF DrivePin, Calls
<1>3. ASSUME NEW p \in PortPins, OnPin(p) PROVE PinsTypeOK'
  BY <1>3, LevelType DEF OnPin
<1>4. CASE Look
  <2> DEFINE w == watches[Top.at]
  <2>1. calls # <<>> /\ UNCHANGED <<latch, stim, readers, device, unheard>>
    BY <1>4 DEF Look
  <2> DEFINE tell == w.pin[1] = Lowest(Top.regs) /\ PinLevel(w.pin) # w.level
  <2>2. /\ Top \in Calls /\ Top.at \in 1..Len(watches) /\ w \in Watches /\ PinLevel(w.pin) \in {0, 1}
        /\ watches' = IF tell THEN [watches EXCEPT ![Top.at].level = PinLevel(w.pin)] ELSE watches
        /\ Continue([regs |-> Top.regs, at |-> Top.at + 1, told |-> tell])
        /\ [regs |-> Top.regs, at |-> Top.at + 1, told |-> tell] \in Calls
    BY <1>4, LookFacts
  <2>4. calls' \in Seq(Calls)
    BY <2>1, <2>2, ContinueType
  <2>5. watches' \in Seq(Watches)
    <3>1. watches \in Seq(Watches)
      BY DEF Watches
    <3>2. [w EXCEPT !.level = PinLevel(w.pin)] \in Watches
      <4>1. w = [pin |-> w.pin, level |-> w.level] /\ w.pin \in PortPins
        BY <2>2 DEF Watches
      <4>2. [w EXCEPT !.level = PinLevel(w.pin)] = [pin |-> w.pin, level |-> PinLevel(w.pin)]
        BY <4>1
      <4> QED BY <2>2, <4>1, <4>2 DEF Watches
    <3>3. watches' = [watches EXCEPT ![Top.at] = [w EXCEPT !.level = PinLevel(w.pin)]] \/ UNCHANGED watches
      BY <2>2
    <3> HIDE DEF w
    <3>4. Len(watches) \in Nat
      BY <3>1
    <3>5. [watches EXCEPT ![Top.at] = [w EXCEPT !.level = PinLevel(w.pin)]] \in Seq(Watches)
      BY <2>2, <3>1, <3>2, <3>4, ExceptSeq
    <3> QED BY <3>1, <3>3, <3>5
  <2> QED BY <2>1, <2>4, <2>5 DEF Calls, Watches
<1>5. CASE CallbackReturns
  <2>1. [Top EXCEPT !.told = FALSE] \in Calls
    BY <1>5, TopFrame DEF CallbackReturns, Calls
  <2>2. calls' \in Seq(Calls)
    BY <1>5, <2>1, ContinueType DEF CallbackReturns
  <2> QED BY <1>5, <2>2 DEF CallbackReturns, Calls
<1>6. CASE LoopEnds
  <2> DEFINE rest == Top.regs \ {Lowest(Top.regs)}
  <2>1. Frame(rest) \in Calls
    BY <1>6, TopFrame DEF LoopEnds, Frame, Calls
  <2>2. calls' \in Seq(Calls)
    <3>1. CASE rest # {}
      BY <1>6, <2>1, <3>1, ContinueType DEF LoopEnds
    <3>2. CASE rest = {}
      <4>1. calls' = SubSeq(calls, 1, Len(calls) - 1)
        BY <1>6, <3>2 DEF LoopEnds
      <4>2. calls \in Seq(Calls) /\ Len(calls) \in Nat \ {0}
        BY <1>6, TopFrame DEF LoopEnds, Calls
      <4> QED BY <4>1, <4>2
    <3> QED BY <3>1, <3>2
  <2> QED BY <1>6, <2>2 DEF LoopEnds, Calls
<1>7. ASSUME NEW v \in 0..2, DeviceDrives(v) PROVE PinsTypeOK'
  BY <1>7 DEF DeviceDrives
<1>8. ASSUME NEW r \in Regs, DeviceAppears(r) PROVE PinsTypeOK'
  <2>1. readers' \in [Regs -> Seq({"test", "device"})]
    BY <1>8 DEF DeviceAppears
  <2> QED BY <1>8, <2>1 DEF DeviceAppears
<1>9. CASE PinsCpuReset
  BY <1>9 DEF PinsCpuReset, High
<1>10. CASE PinsSimReset
  BY <1>10 DEF PinsSimReset, High, Frame
<1>11. CASE UNCHANGED pinvars
  BY <1>11 DEF pinvars
<1> QED BY <1>1, <1>2, <1>3, <1>4, <1>5, <1>6, <1>7, <1>8, <1>9, <1>10, <1>11 DEF PinsNext

(***************************************************************************)
(* A drive is of a pin that has its entry, of a new one, or does nothing.  *)
(***************************************************************************)
LEMMA EntriesNext ==
  ASSUME PinsTypeOK, OneEntry, EntriesAreRead, [PinsNext]_pinvars
  PROVE  OneEntry' /\ EntriesAreRead'
<1>0. \A i \in 1..Len(stim) : stim[i].pin \in PortPins /\ stim[i].pin[1] \in Regs
  <2> SUFFICES ASSUME NEW i \in 1..Len(stim) PROVE stim[i].pin \in PortPins
    BY RegOf
  <2>1. stim[i] \in [pin : PortPins, active : BOOLEAN, value : {0, 1}]
    BY ElementOfSeq DEF PinsTypeOK
  <2> QED BY <2>1
<1>1. ASSUME UNCHANGED stim, \A r \in Regs : Subscribed(r) => Subscribed(r)'
      PROVE  OneEntry' /\ EntriesAreRead'
  <2>1. OneEntry'
    BY <1>1 DEF OneEntry
  <2> QED BY <1>0, <1>1, <2>1 DEF EntriesAreRead
<1>2. UNCHANGED <<stim, readers>> => OneEntry' /\ EntriesAreRead'
  BY DEF OneEntry, EntriesAreRead, Subscribed
<1>3. ASSUME NEW p \in PortPins, NEW v \in 0..2, DrivePin(p, v) PROVE OneEntry' /\ EntriesAreRead'
  <2>0. p[1] \in Regs /\ Len(stim) \in Nat /\ Entries(p) = {i \in 1..Len(stim) : stim[i].pin = p}
    BY RegOf DEF PinsTypeOK, Entries
  <2>1. CASE Entries(p) # {}
    <3>1. /\ stim' = [i \in 1..Len(stim) |->
               IF i \in Entries(p) THEN [pin |-> p, active |-> v # 2, value |-> IF v = 1 THEN 1 ELSE 0]
               ELSE stim[i]]
          /\ UNCHANGED readers
      BY <1>3, <2>1 DEF DrivePin
    <3>2. Len(stim') = Len(stim) /\ \A i \in 1..Len(stim) : stim'[i].pin = stim[i].pin
      BY <2>0, <3>1
    <3>3. OneEntry'
      BY <3>2 DEF OneEntry
    <3>4. \A r : Subscribed(r)' <=> Subscribed(r)
      BY <3>1 DEF Subscribed
    <3> QED BY <3>2, <3>3, <3>4 DEF EntriesAreRead
  <2>2. CASE Entries(p) = {} /\ v # 2 /\ Len(stim) < MaxStim
    <3> DEFINE e == [pin |-> p, active |-> TRUE, value |-> v]
    <3>1. /\ stim' = Append(stim, e)
          /\ readers' = IF \E i \in 1..Len(readers[p[1]]) : readers[p[1]][i] = "test" THEN readers
                        ELSE [readers EXCEPT ![p[1]] = Append(@, "test")]
      BY <1>3, <2>0, <2>2, PinsAssumption DEF DrivePin
    <3>2. /\ Len(stim') = Len(stim) + 1 /\ stim'[Len(stim) + 1].pin = p
          /\ \A i \in 1..Len(stim) : stim'[i] = stim[i] /\ stim[i].pin # p
      <4> HIDE DEF e
      <4>1. Len(stim') = Len(stim) + 1 /\ stim'[Len(stim) + 1] = e /\ \A i \in 1..Len(stim) : stim'[i] = stim[i]
        BY <2>0, <3>1 DEF PinsTypeOK
      <4> QED BY <2>0, <2>2, <4>1 DEF e
    <3>3. Subscribed(p[1])' /\ \A r \in Regs : Subscribed(r) => Subscribed(r)'
      <4>1. CASE Subscribed(p[1])
        BY <3>1, <4>1 DEF Subscribed
      <4>2. CASE ~ Subscribed(p[1])
        <5>1. readers' = [readers EXCEPT ![p[1]] = Append(@, "test")]
          BY <3>1, <4>2 DEF Subscribed
        <5>2. readers[p[1]] \in Seq({"test", "device"}) /\ DOMAIN readers = Regs
          BY <2>0 DEF PinsTypeOK
        <5>3. readers'[p[1]] = Append(readers[p[1]], "test") /\ \A r \in Regs : r # p[1] => readers'[r] = readers[r]
          BY <2>0, <5>1, <5>2
        <5>4. Subscribed(p[1])'
          BY <5>2, <5>3, AppendProperties DEF Subscribed
        <5> QED BY <4>2, <5>3, <5>4 DEF Subscribed
      <4> QED BY <4>1, <4>2
    <3>4. OneEntry'
      BY <2>0, <3>2 DEF OneEntry
    <3> QED BY <1>0, <2>0, <3>2, <3>3, <3>4 DEF EntriesAreRead
  <2>3. CASE Entries(p) = {} /\ (v = 2 \/ Len(stim) >= MaxStim)
    BY <1>2, <1>3, <2>0, <2>3, PinsAssumption DEF DrivePin
  <2> QED BY <2>0, <2>1, <2>2, <2>3, PinsAssumption
<1>4. ASSUME NEW r \in Regs, DeviceAppears(r) PROVE OneEntry' /\ EntriesAreRead'
  <2>1. readers' = [readers EXCEPT ![r] = Append(@, "device")] /\ UNCHANGED stim
    BY <1>4 DEF DeviceAppears
  <2>2. readers[r] \in Seq({"test", "device"}) /\ DOMAIN readers = Regs
    BY DEF PinsTypeOK
  <2>3. /\ readers'[r] = Append(readers[r], "device") /\ \A s \in Regs : s # r => readers'[s] = readers[s]
        /\ Len(readers'[r]) = Len(readers[r]) + 1 /\ Len(readers[r]) \in Nat
        /\ \A i \in 1..Len(readers[r]) : readers'[r][i] = readers[r][i]
    BY <2>1, <2>2
  <2>4. \A s \in Regs : Subscribed(s) => Subscribed(s)'
    BY <2>3 DEF Subscribed
  <2> QED BY <1>1, <2>1, <2>4
<1> QED BY <1>2, <1>3, <1>4 DEF PinsNext, pinvars, PortWrite, OnPin, Look, CallbackReturns, LoopEnds,
           DeviceDrives, PinsCpuReset, PinsSimReset

LEMMA WatchFacts ==
  ASSUME PinsTypeOK
  PROVE  /\ Len(watches) \in Nat /\ Len(calls) \in Nat /\ calls \in Seq(Calls)
         /\ \A i \in 1..Len(watches) : watches[i].pin \in PortPins /\ watches[i].pin[1] \in Regs
<1> SUFFICES ASSUME NEW i \in 1..Len(watches) PROVE watches[i].pin \in PortPins
  BY RegOf DEF PinsTypeOK, Calls
<1>1. watches[i] \in Watches
  BY ElementOfSeq DEF PinsTypeOK, Watches
<1> QED BY <1>1 DEF Watches

(***************************************************************************)
(* A notification of a register has every watch on it still to look at,    *)
(* and takes nothing from the frames below.                                *)
(***************************************************************************)
LEMMA NotifyDue ==
  ASSUME PinsTypeOK, NEW r \in Regs, Notify(r), UNCHANGED watches, NEW i \in 1..Len(watches)
  PROVE  /\ watches[i].pin[1] = r => Due(i)'
         /\ Due(i) => Due(i)'
<1>0. Len(calls) \in Nat /\ calls \in Seq(Calls) /\ i \in Nat \ {0}
  BY WatchFacts
<1>1. CASE Watched(r)
  <2>1. calls' = Append(calls, Frame({r})) /\ Frame({r}) \in Calls
    BY <1>1 DEF Notify, Frame, Calls
  <2>2. /\ Len(calls') = Len(calls) + 1 /\ calls'[Len(calls) + 1] = Frame({r})
        /\ \A k \in 1..Len(calls) : calls'[k] = calls[k]
    BY <1>0, <2>1, AppendProperties
  <2>3. ASSUME watches[i].pin[1] = r PROVE Due(i)'
    <3>1. PICK k \in 1..Len(calls') : calls'[k] = Frame({r})
      BY <1>0, <2>2
    <3>2. WillLook(Frame({r}), i)
      BY <1>0, <2>3 DEF WillLook, Frame
    <3>3. WillLook(calls[k], i)'
      BY <3>1, <3>2 DEF WillLook
    <3> QED BY <3>3 DEF Due
  <2>4. ASSUME Due(i) PROVE Due(i)'
    <3>1. PICK k \in 1..Len(calls) : WillLook(calls[k], i)
      BY <2>4 DEF Due
    <3>2. WillLook(calls[k], i)' /\ k \in 1..Len(calls')
      BY <1>0, <2>2, <3>1 DEF WillLook
    <3> QED BY <3>2 DEF Due
  <2> QED BY <2>3, <2>4
<1>2. CASE ~ Watched(r)
  <2>1. UNCHANGED calls /\ watches[i].pin[1] # r
    BY <1>2 DEF Notify, Watched
  <2> QED BY <2>1 DEF Due, WillLook
<1> QED BY <1>1, <1>2

(***************************************************************************)
(* A frame in place of the innermost keeps every watch in sight that it    *)
(* still has ahead.                                                        *)
(***************************************************************************)
LEMMA ContinueDue ==
  ASSUME PinsTypeOK, calls # <<>>, NEW f \in Calls, Continue(f),
         NEW i \in 1..Len(watches), watches'[i].pin = watches[i].pin,
         Due(i), WillLook(Top, i) => WillLook(f, i)
  PROVE  Due(i)'
<1>1. PICK k \in 1..Len(calls) : WillLook(calls[k], i)
  BY DEF Due
<1>2. /\ Len(calls') = Len(calls) /\ calls'[Len(calls)] = f /\ Len(calls) \in Nat
      /\ \A n \in 1..Len(calls) - 1 : calls'[n] = calls[n]
  BY ContinueType, WatchFacts
<1>3. WillLook(calls'[k], i)
  <2>1. CASE k = Len(calls)
    BY <1>1, <1>2, <2>1 DEF Top
  <2>2. CASE k # Len(calls)
    BY <1>1, <1>2, <2>2
  <2> QED BY <2>1, <2>2
<1>4. WillLook(calls[k], i)'
  BY <1>3 DEF WillLook
<1> QED BY <1>2, <1>4 DEF Due

LEMMA LevelKept ==
  ASSUME PinsTypeOK, UNCHANGED stim, NEW p \in PortPins, latch'[p] = latch[p]
  PROVE  PinLevel(p)' = PinLevel(p)
BY DEF PinLevel, Driving, Entries

LEMMA LevelSame ==
  ASSUME PinsTypeOK, NEW p \in PortPins, latch'[p] = latch[p],
         Driving(p)' = Driving(p), \A i \in Driving(p) : stim'[i] = stim[i]
  PROVE  PinLevel(p)' = PinLevel(p)
<1> DEFINE k == CHOOSE i \in Driving(p) : \A j \in Driving(p) : i <= j
<1>1. CASE Driving(p) = {}
  BY <1>1 DEF PinLevel
<1>2. CASE Driving(p) # {}
  <2>1. k \in Driving(p)
    <3>1. Driving(p) \in SUBSET (1..Len(stim)) /\ Len(stim) \in Nat
      BY DEF Driving, Entries, PinsTypeOK
    <3> QED BY <1>2, <3>1, Least
  <2>2. PinLevel(p) = stim[k].value /\ PinLevel(p)' = stim'[k].value
    BY <1>2 DEF PinLevel
  <2> QED BY <2>1, <2>2
<1> QED BY <1>1, <1>2

LEMMA OtherLevelsKept ==
  ASSUME PinsTypeOK, NEW p \in PortPins, NEW v \in 0..2, DrivePin(p, v), NEW q \in PortPins, q # p
  PROVE  PinLevel(q)' = PinLevel(q)
<1>0. Len(stim) \in Nat /\ Entries(p) = {i \in 1..Len(stim) : stim[i].pin = p} /\ latch' = latch
  BY DEF PinsTypeOK, Entries, DrivePin
<1>1. CASE Entries(p) # {}
  <2>1. stim' = [i \in 1..Len(stim) |->
             IF i \in Entries(p) THEN [pin |-> p, active |-> v # 2, value |-> IF v = 1 THEN 1 ELSE 0]
             ELSE stim[i]]
    BY <1>1 DEF DrivePin
  <2>2. /\ Len(stim') = Len(stim)
        /\ \A i \in 1..Len(stim) : stim'[i].pin = stim[i].pin /\ (stim[i].pin = q => stim'[i] = stim[i])
    BY <1>0, <2>1
  <2>3. Entries(q)' = Entries(q)
    BY <2>2 DEF Entries
  <2>4. Driving(q)' = Driving(q)
    BY <2>2, <2>3 DEF Driving, Entries
  <2>5. \A i \in Driving(q) : stim'[i] = stim[i]
    BY <2>2 DEF Driving, Entries
  <2> QED BY <1>0, <2>4, <2>5, LevelSame
<1>2. CASE Entries(p) = {} /\ v # 2 /\ Len(stim) < MaxStim
  <2> DEFINE e == [pin |-> p, active |-> TRUE, value |-> v]
  <2>1. stim' = Append(stim, e) /\ e.pin = p
    BY <1>0, <1>2, PinsAssumption DEF DrivePin
  <2> HIDE DEF e
  <2>2. Len(stim') = Len(stim) + 1 /\ stim'[Len(stim) + 1] = e /\ \A i \in 1..Len(stim) : stim'[i] = stim[i]
    BY <1>0, <2>1 DEF PinsTypeOK
  <2>3. Entries(q)' = Entries(q)
    BY <1>0, <2>1, <2>2 DEF Entries
  <2>4. Driving(q)' = Driving(q)
    BY <2>2, <2>3 DEF Driving, Entries
  <2>5. \A i \in Driving(q) : stim'[i] = stim[i]
    BY <2>2 DEF Driving, Entries
  <2> QED BY <1>0, <2>4, <2>5, LevelSame
<1>3. CASE Entries(p) = {} /\ (v = 2 \/ Len(stim) >= MaxStim)
  <2>1. UNCHANGED <<stim, latch>>
    BY <1>0, <1>3, PinsAssumption DEF DrivePin
  <2> QED BY <2>1, LevelKept
<1> QED BY <1>0, <1>1, <1>2, <1>3, PinsAssumption

(***************************************************************************)
(* The hazard is an action that changes a level while frames are open.     *)
(***************************************************************************)
LEMMA WatchesDueNext ==
  ASSUME PinsTypeOK, OneEntry, WatchesDue, [PinsNext]_pinvars
  PROVE  WatchesDue'
<1>0. /\ Len(watches) \in Nat /\ Len(calls) \in Nat /\ calls \in Seq(Calls)
      /\ \A i \in 1..Len(watches) : watches[i].pin \in PortPins /\ watches[i].pin[1] \in Regs
  BY WatchFacts
<1>1. ASSUME NEW r \in Regs, NEW v \in [{p \in PortPins : p[1] = r} -> {0, 1}], PortWrite(r, v)
      PROVE WatchesDue'
  <2> SUFFICES ASSUME NEW i \in 1..Len(watches) PROVE (Knows(i) \/ Due(i))'
    BY <1>1 DEF WatchesDue, PortWrite
  <2>1. Notify(r) /\ UNCHANGED <<watches, stim>> /\ unheard' = unheard \ {r}
    BY <1>1 DEF PortWrite
  <2>2. CASE watches[i].pin[1] = r
    BY <2>1, <2>2, NotifyDue
  <2>3. CASE watches[i].pin[1] # r
    <3>1. latch'[watches[i].pin] = latch[watches[i].pin]
      BY <1>0, <1>1, <2>3 DEF PortWrite
    <3>2. Knows(i) => Knows(i)'
      BY <1>0, <2>1, <2>3, <3>1, LevelKept DEF Knows
    <3>3. Due(i) => Due(i)'
      BY <2>1, NotifyDue
    <3> QED BY <3>2, <3>3 DEF WatchesDue
  <2> QED BY <2>2, <2>3
<1>2. ASSUME NEW p \in PortPins, NEW v \in 0..2, DrivePin(p, v) PROVE WatchesDue'
  <2>0. p[1] \in Regs /\ UNCHANGED watches
    BY <1>2, RegOf DEF DrivePin
  <2> SUFFICES ASSUME NEW i \in 1..Len(watches) PROVE (Knows(i) \/ Due(i))'
    BY <2>0 DEF WatchesDue
  <2>1. CASE Notify(p[1]) /\ unheard' = unheard \ {p[1]}
    <3>1. Due(i) => Due(i)'
      BY <2>0, <2>1, NotifyDue
    <3>2. CASE watches[i].pin[1] = p[1]
      BY <2>0, <2>1, <3>2, NotifyDue
    <3>3. CASE watches[i].pin[1] # p[1]
      <4>1. PinLevel(watches[i].pin)' = PinLevel(watches[i].pin)
        BY <1>0, <1>2, <2>0, <3>3, OtherLevelsKept
      <4> QED BY <2>0, <2>1, <3>1, <3>3, <4>1 DEF WatchesDue, Knows
    <3> QED BY <3>2, <3>3
  <2>2. CASE UNCHANGED <<stim, calls, unheard>>
    <3>1. UNCHANGED <<stim, calls, unheard, latch, watches>>
      BY <1>2, <2>2 DEF DrivePin
    <3>2. Due(i) <=> Due(i)'
      BY <3>1 DEF Due, WillLook
    <3>3. \A q : PinLevel(q)' = PinLevel(q)
      BY <3>1 DEF PinLevel, Driving, Entries
    <3>4. Knows(i) <=> Knows(i)'
      BY <3>1, <3>3 DEF Knows
    <3>5. Knows(i) \/ Due(i)
      BY DEF WatchesDue
    <3> QED BY <3>2, <3>4, <3>5
  <2> QED BY <1>2, <2>1, <2>2 DEF DrivePin
<1>3. ASSUME NEW p \in PortPins, OnPin(p) PROVE WatchesDue'
  <2> DEFINE w == [pin |-> p, level |-> PinLevel(p)]
  <2>1. watches' = Append(watches, w) /\ UNCHANGED <<latch, stim, calls, unheard>> /\ w.pin = p /\ w.level = PinLevel(p)
    BY <1>3 DEF OnPin
  <2> HIDE DEF w
  <2>2. /\ Len(watches') = Len(watches) + 1 /\ watches'[Len(watches) + 1] = w
        /\ \A i \in 1..Len(watches) : watches'[i] = watches[i]
    BY <2>1 DEF PinsTypeOK
  <2>3. \A q : PinLevel(q)' = PinLevel(q)
    BY <2>1 DEF PinLevel, Driving, Entries
  <2> SUFFICES ASSUME NEW i \in 1..Len(watches') PROVE (Knows(i) \/ Due(i))'
    BY DEF WatchesDue
  <2>4. CASE i \in 1..Len(watches)
    <3>1. Due(i) => Due(i)'
      BY <2>1, <2>2, <2>4 DEF Due, WillLook
    <3>2. Knows(i) => Knows(i)'
      BY <2>1, <2>2, <2>3, <2>4 DEF Knows
    <3> QED BY <2>4, <3>1, <3>2 DEF WatchesDue
  <2>5. CASE i = Len(watches) + 1
    BY <2>1, <2>2, <2>3, <2>5 DEF Knows
  <2> QED BY <1>0, <2>2, <2>4, <2>5
<1>4. CASE Look
  <2> DEFINE w == watches[Top.at]
             tell == w.pin[1] = Lowest(Top.regs) /\ PinLevel(w.pin) # w.level
             f == [regs |-> Top.regs, at |-> Top.at + 1, told |-> tell]
  <2>1. /\ Top \in Calls /\ calls # <<>> /\ Top.at \in 1..Len(watches)
        /\ w \in Watches /\ PinLevel(w.pin) \in {0, 1}
        /\ watches' = IF tell THEN [watches EXCEPT ![Top.at].level = PinLevel(w.pin)] ELSE watches
        /\ Continue(f) /\ f \in Calls
    BY <1>4, LookFacts
  <2>2. UNCHANGED <<latch, stim, unheard>> /\ \A q : PinLevel(q)' = PinLevel(q)
    BY <1>4 DEF Look, PinLevel, Driving, Entries
  <2>3. /\ Len(watches') = Len(watches)
        /\ \A i \in 1..Len(watches) : watches'[i].pin = watches[i].pin /\ (i # Top.at => watches'[i] = watches[i])
        /\ tell => watches'[Top.at].level = PinLevel(w.pin)
        /\ ~ tell => watches' = watches
    <3>1. watches \in Seq(Watches)
      BY DEF PinsTypeOK, Watches
    <3>2. [w EXCEPT !.level = PinLevel(w.pin)].level = PinLevel(w.pin) /\ [w EXCEPT !.level = PinLevel(w.pin)].pin = w.pin
      BY <2>1 DEF Watches
    <3>3. CASE tell
      <4>1. watches' = [watches EXCEPT ![Top.at] = [w EXCEPT !.level = PinLevel(w.pin)]]
        BY <2>1, <3>3
      <4> HIDE DEF tell
      <4> QED BY <2>1, <3>1, <3>2, <3>3, <4>1
    <3>4. CASE ~ tell
      BY <2>1, <3>4
    <3> QED BY <3>3, <3>4
  <2> HIDE DEF f
  <2> SUFFICES ASSUME NEW i \in 1..Len(watches) PROVE (Knows(i) \/ Due(i))'
    BY <2>3 DEF WatchesDue
  <2>4. CASE i # Top.at
    <3>1. Knows(i) => Knows(i)'
      BY <2>2, <2>3, <2>4 DEF Knows
    <3>2. WillLook(Top, i) => WillLook(f, i)
      BY <2>1, <2>4 DEF WillLook, f, Calls
    <3>3. Due(i) => Due(i)'
      BY <2>1, <2>3, <3>2, ContinueDue
    <3> QED BY <3>1, <3>3 DEF WatchesDue
  <2>5. CASE i = Top.at /\ w.pin[1] = Lowest(Top.regs)
    BY <2>2, <2>3, <2>5 DEF Knows
  <2>6. CASE i = Top.at /\ w.pin[1] # Lowest(Top.regs)
    <3>1. Knows(i) => Knows(i)'
      BY <2>2, <2>3, <2>6 DEF Knows
    <3>2. WillLook(Top, i) => WillLook(f, i)
      BY <2>6 DEF WillLook, f
    <3>3. Due(i) => Due(i)'
      BY <2>1, <2>3, <3>2, ContinueDue
    <3> QED BY <3>1, <3>3 DEF WatchesDue
  <2> QED BY <2>4, <2>5, <2>6
<1>5. CASE CallbackReturns
  <2> DEFINE f == [Top EXCEPT !.told = FALSE]
  <2>1. /\ calls # <<>> /\ Continue(f) /\ Top \in Calls /\ UNCHANGED <<latch, stim, watches, unheard>>
    BY <1>5, TopFrame DEF CallbackReturns
  <2>2. f \in Calls /\ f.regs = Top.regs /\ f.at = Top.at
    BY <2>1 DEF Calls
  <2> HIDE DEF f
  <2> SUFFICES ASSUME NEW i \in 1..Len(watches) PROVE (Knows(i) \/ Due(i))'
    BY <2>1 DEF WatchesDue
  <2>3. Knows(i) => Knows(i)'
    BY <2>1 DEF Knows, PinLevel, Driving, Entries
  <2>4. WillLook(Top, i) => WillLook(f, i)
    BY <2>2 DEF WillLook
  <2>5. Due(i) => Due(i)'
    BY <2>1, <2>2, <2>4, ContinueDue
  <2> QED BY <2>3, <2>5 DEF WatchesDue
<1>6. CASE LoopEnds
  <2> DEFINE rest == Top.regs \ {Lowest(Top.regs)}
             f == Frame(rest)
  <2>1. /\ calls # <<>> /\ Top \in Calls /\ UNCHANGED <<latch, stim, watches, unheard>> /\ Top.at > Len(watches)
        /\ f \in Calls /\ Top.at \in Nat \ {0}
    BY <1>6, TopFrame DEF LoopEnds, Frame, Calls
  <2> SUFFICES ASSUME NEW i \in 1..Len(watches) PROVE (Knows(i) \/ Due(i))'
    BY <2>1 DEF WatchesDue
  <2>2. Knows(i) => Knows(i)'
    BY <2>1 DEF Knows, PinLevel, Driving, Entries
  <2>3. WillLook(Top, i) => WillLook(f, i) /\ rest # {}
    BY <1>0, <2>1 DEF WillLook, Frame
  <2>4. CASE rest # {}
    <3>1. Continue(f)
      BY <1>6, <2>4 DEF LoopEnds
    <3>2. Due(i) => Due(i)'
      <4> HIDE DEF f, rest
      <4> QED BY <2>1, <2>3, <3>1, ContinueDue
    <3> QED BY <2>2, <3>2 DEF WatchesDue
  <2>5. CASE rest = {}
    <3>1. calls' = SubSeq(calls, 1, Len(calls) - 1) /\ Len(calls) \in Nat \ {0}
      BY <1>6, <2>5, TopFrame DEF LoopEnds
    <3>2. Len(calls') = Len(calls) - 1 /\ \A k \in 1..Len(calls) - 1 : calls'[k] = calls[k]
      <4> DEFINE n == Len(calls) - 1
      <4>1. n \in Nat /\ n \in Int /\ 1 \in Int /\ calls' = SubSeq(calls, 1, n) /\ \A k \in 1..n : calls[k] \in Calls
        BY <1>0, <3>1, ElementOfSeq
      <4> HIDE DEF n
      <4>2. /\ Len(calls') = IF 1 <= n THEN n - 1 + 1 ELSE 0
            /\ \A k \in 1..n - 1 + 1 : calls'[k] = calls[1 + k - 1]
        BY <4>1, SubSeqProperties
      <4>3. Len(calls') = n /\ \A k \in 1..n : calls'[k] = calls[k]
        BY <4>1, <4>2
      <4> QED BY <4>3 DEF n
    <3>3. ASSUME Due(i) PROVE Due(i)'
      <4>1. PICK k \in 1..Len(calls) : WillLook(calls[k], i)
        BY <3>3 DEF Due
      <4>2. k # Len(calls)
        BY <2>3, <2>5, <4>1 DEF Top
      <4>3. k \in 1..Len(calls') /\ WillLook(calls'[k], i)
        BY <3>1, <3>2, <4>1, <4>2
      <4>4. WillLook(calls[k], i)'
        BY <2>1, <4>3 DEF WillLook
      <4> QED BY <4>3, <4>4 DEF Due
    <3> QED BY <2>2, <3>3 DEF WatchesDue
  <2> QED BY <2>4, <2>5
<1>7. CASE PinsCpuReset
  <2>1. /\ latch' = High /\ UNCHANGED <<stim, watches, calls>>
        /\ unheard' = unheard \cup {r \in Regs : \E p \in PortPins : p[1] = r /\ latch[p] = 0}
    BY <1>7 DEF PinsCpuReset
  <2> SUFFICES ASSUME NEW i \in 1..Len(watches) PROVE (Knows(i) \/ Due(i))'
    BY <2>1 DEF WatchesDue
  <2>2. Due(i) => Due(i)'
    BY <2>1 DEF Due, WillLook
  <2>3. CASE latch[watches[i].pin] = 0
    BY <1>0, <2>1, <2>3 DEF Knows
  <2>4. CASE latch[watches[i].pin] = 1
    <3>1. PinLevel(watches[i].pin)' = PinLevel(watches[i].pin)
      BY <1>0, <2>1, <2>4, LevelKept DEF High
    <3>2. Knows(i) => Knows(i)'
      BY <2>1, <3>1 DEF Knows
    <3> QED BY <2>2, <3>2 DEF WatchesDue
  <2> QED BY <1>0, <2>3, <2>4 DEF PinsTypeOK
<1>8. CASE PinsSimReset
  <2>1. UNCHANGED watches /\ calls' = <<Frame(Regs)>>
    BY <1>8 DEF PinsSimReset
  <2> SUFFICES ASSUME NEW i \in 1..Len(watches) PROVE (Knows(i) \/ Due(i))'
    BY <2>1 DEF WatchesDue
  <2>2. WillLook(calls'[1], i) /\ 1 \in 1..Len(calls')
    BY <1>0, <2>1 DEF WillLook, Frame
  <2>3. WillLook(calls[1], i)'
    BY <2>1, <2>2 DEF WillLook
  <2> QED BY <2>2, <2>3 DEF Due
<1>9. CASE UNCHANGED <<latch, stim, watches, calls, unheard>>
  <2>1. \A i \in 1..Len(watches) : Knows(i)' = Knows(i)
    BY <1>9 DEF Knows, PinLevel, Driving, Entries
  <2>2. \A i \in 1..Len(watches) : Due(i)' = Due(i)
    BY <1>9 DEF Due, WillLook
  <2> QED BY <1>9, <2>1, <2>2 DEF WatchesDue
<1> QED BY <1>1, <1>2, <1>3, <1>4, <1>5, <1>6, <1>7, <1>8, <1>9
        DEF PinsNext, pinvars, DeviceDrives, DeviceAppears

(***************************************************************************)
(* Types, one stimulus entry of a pin, and every watch that does not know  *)
(* its level still ahead of a frame.                                       *)
(***************************************************************************)
THEOREM PinsInvariant == PinsSpec => []PinsInv
<1>1. PinsInv /\ [PinsNext]_pinvars => PinsInv'
  BY PinsTypeNext, EntriesNext, WatchesDueNext DEF PinsInv
<1> QED BY <1>1, PinsInitInv, PTL DEF PinsSpec

(***************************************************************************)
(* When the outermost notification is over every watcher was told last the *)
(* level its pin has, or a software reset changed its register, however    *)
(* deep watchers drove pins and installed watches from inside the calls.   *)
(***************************************************************************)
THEOREM WatchersTold == PinsSpec => []WatchersKnowTheLevel
<1>1. PinsInv => WatchersKnowTheLevel
  <2> SUFFICES ASSUME PinsInv, calls = <<>>, NEW i \in 1..Len(watches)
               PROVE  watches[i].pin[1] \in unheard \/ watches[i].level = PinLevel(watches[i].pin)
    BY DEF WatchersKnowTheLevel
  <2>1. ~ Due(i)
    BY DEF Due
  <2> QED BY <2>1 DEF PinsInv, WatchesDue, Knows
<1> QED BY <1>1, PinsInvariant, PTL

(***************************************************************************)
(* What the CPU reads of a pin no device answers for is the level plugins  *)
(* are told, whoever else composes the read of its register.               *)
(***************************************************************************)
THEOREM PinReadAsTold == PinsSpec => []CpuReadsThePin
<1>1. PinsInv => CpuReadsThePin
  BY ReadIsLevel DEF PinsInv, CpuReadsThePin
<1> QED BY <1>1, PinsInvariant, PTL

-----------------------------------------------------------------------------
(***************************************************************************)
(* The plugin host.  A name a plugin may ask for is a sequence, and so is  *)
(* every numbered form of it.                                              *)
(***************************************************************************)
Bases == (Wanted \ {<<>>}) \cup {<<"plugin">>}

GivenNames == {Numbered(base, n) : base \in Bases, n \in Nat \ {0}}

PluginSlot == [name : GivenNames \cup {<<>>}, kept : BOOLEAN]

(***************************************************************************)
(* A plugin is found by its name because no two slots share one, and a     *)
(* slot has one exactly if its init succeeded.                             *)
(***************************************************************************)
SlotsInv ==
  /\ plugins \in Seq(PluginSlot)
  /\ loading \in BOOLEAN
  /\ loading => IsOpen /\ Len(plugins) > 0 /\ ~ plugins[Len(plugins)].kept
  /\ \A i \in PluginSlots : plugins[i].kept <=> plugins[i].name # <<>>
  /\ \A i, j \in PluginSlots : plugins[i].kept /\ plugins[i].name = plugins[j].name => i = j

NamesInv ==
  closing.phase # "closed" =>
    story.names = {<<plugins[i].name, i>> : i \in {j \in PluginSlots : plugins[j].kept}}

(***************************************************************************)
(* The destroy loop has run the kept plugins above where it stands.        *)
(***************************************************************************)
Above(n) == {i \in PluginSlots : plugins[i].kept /\ i > n}

Destroyed == {story.destroyed[n] : n \in 1..Len(story.destroyed)}

Descending(d) == \A m, n \in 1..Len(d) : m < n => d[n] < d[m]

CloseInv ==
  /\ closing \in [phase : {"open", "destroy", "closed"}, at : Nat]
  /\ story.destroyed \in Seq(Nat)
  /\ closing.phase = "open" => story.destroyed = <<>>
  /\ closing.phase = "destroy" => closing.at <= Len(plugins) /\ Destroyed = Above(closing.at)
  /\ closing.phase = "closed" => Destroyed = {e[2] : e \in story.names}
  /\ Descending(story.destroyed)

(***************************************************************************)
(* Every address is served as its last range says.                         *)
(***************************************************************************)
Served(k) == [owner |-> ranges[k].owner, rd |-> ranges[k].range.rd, wr |-> ranges[k].range.wr]

RangesInv ==
  /\ ranges \in Seq([range : Ranges, owner : Nat])
  /\ ranges # <<>> => dispatch = TRUE
  /\ DOMAIN story.serves = Addresses
  /\ \A a \in Addresses :
       \/ Holding(a) = {} /\ story.serves[a] = [owner |-> CoreHandler, rd |-> FALSE, wr |-> FALSE]
       \/ \E k \in Holding(a) : (\A j \in Holding(a) : j <= k) /\ story.serves[a] = Served(k)

OpsInv ==
  /\ ops \in [Opcodes -> Nat]
  /\ handler \in [Opcodes -> BOOLEAN]
  /\ \A op \in Opcodes : handler[op] <=> ops[op] # CoreHandler

StoryInv == DOMAIN story = {"names", "destroyed", "serves"}

HostInv == SlotsInv /\ NamesInv /\ CloseInv /\ RangesInv /\ OpsInv /\ StoryInv

LEMMA NumbersTell ==
  ASSUME NEW base \in Bases, NEW m \in Nat \ {0}, NEW n \in Nat \ {0}
  PROVE  /\ Numbered(base, n) # <<>>
         /\ Numbered(base, m) = Numbered(base, n) => m = n
<1>1. \E S : base \in Seq(S) /\ Nat \subseteq S /\ base # <<>>
  <2>1. CASE base = <<"plugin">>
    <3>1. base \in Seq({"plugin"} \cup Nat) /\ base # <<>>
      BY <2>1
    <3> QED BY <3>1
  <2>2. CASE base \in Wanted \ {<<>>}
    <3> DEFINE S == {base[i] : i \in 1..Len(base)} \cup Nat
    <3>1. Len(base) \in Nat /\ base = [i \in 1..Len(base) |-> base[i]] /\ base # <<>>
      BY <2>2, HostAssumption
    <3>2. base \in [1..Len(base) -> S]
      BY <3>1
    <3>3. base \in Seq(S)
      <4> HIDE DEF S
      <4> QED BY <3>1, <3>2
    <3> QED BY <3>1, <3>3
  <2> QED BY <2>1, <2>2 DEF Bases
<1>2. PICK S : base \in Seq(S) /\ Nat \subseteq S /\ base # <<>>
  BY <1>1
<1>3. \A k \in Nat : Append(base, k) # <<>> /\ Len(Append(base, k)) = Len(base) + 1
                   /\ Append(base, k)[Len(base) + 1] = k
  BY <1>2, AppendProperties
<1>4. Len(base) \in Nat
  BY <1>2
<1>5. CASE m = 1 /\ n = 1
  BY <1>2, <1>5 DEF Numbered
<1>6. CASE m = 1 /\ n # 1
  BY <1>2, <1>3, <1>4, <1>6 DEF Numbered
<1>7. CASE m # 1 /\ n = 1
  BY <1>2, <1>3, <1>4, <1>7 DEF Numbered
<1>8. CASE m # 1 /\ n # 1
  BY <1>2, <1>3, <1>4, <1>8 DEF Numbered
<1> QED BY <1>5, <1>6, <1>7, <1>8

(***************************************************************************)
(* A name is looked up in the first slot that has it.                      *)
(***************************************************************************)
LEMMA NamedFinds ==
  ASSUME SlotsInv, NEW name, name # <<>>
  PROVE  \/ Named(name) = 0 /\ \A i \in PluginSlots : plugins[i].name # name
         \/ Named(name) \in PluginSlots /\ plugins[Named(name)].name = name
<1> DEFINE found == {i \in PluginSlots : plugins[i].name # <<>> /\ plugins[i].name = name}
           first == CHOOSE i \in found : \A j \in found : i <= j
<1>1. Named(name) = IF found = {} THEN 0 ELSE first
  BY DEF Named
<1>2. CASE found = {}
  BY <1>1, <1>2
<1>3. CASE found # {}
  <2>1. found \in SUBSET (1..Len(plugins)) /\ Len(plugins) \in Nat
    BY DEF PluginSlots, SlotsInv
  <2>2. first \in found
    <3> HIDE DEF found
    <3> QED BY <1>3, <2>1, Least
  <2> QED BY <1>1, <1>3, <2>2
<1> QED BY <1>2, <1>3

(***************************************************************************)
(* Of one more numbers than there are slots one gives a name no slot has.  *)
(***************************************************************************)
LEMMA UniqueIsFree ==
  ASSUME SlotsInv, NEW base \in Bases
  PROVE  /\ Unique(base) \in GivenNames /\ Unique(base) # <<>>
         /\ \A i \in PluginSlots : plugins[i].name # Unique(base)
<1> DEFINE L == Len(plugins)
           free == {n \in 1..L + 1 : Named(Numbered(base, n)) = 0}
           first == CHOOSE n \in free : \A m \in free : n <= m
           f == [n \in 1..L + 1 |-> Named(Numbered(base, n))]
<1>0. L \in Nat /\ L + 1 \in Nat
  BY DEF SlotsInv
<1>1. ASSUME free = {} PROVE FALSE
  <2>1. f \in [1..L + 1 -> 1..L]
    <3> SUFFICES ASSUME NEW n \in 1..L + 1 PROVE Named(Numbered(base, n)) \in 1..L
      OBVIOUS
    <3>1. Named(Numbered(base, n)) # 0
      BY <1>1
    <3>2. Numbered(base, n) # <<>>
      BY <1>0, NumbersTell
    <3> QED BY <3>1, <3>2, NamedFinds DEF PluginSlots
  <2>2. /\ IsFiniteSet(1..L) /\ IsFiniteSet(1..L + 1)
        /\ Cardinality(1..L) < Cardinality(1..L + 1)
    <3>1. Cardinality(1..L) = IF 1 > L THEN 0 ELSE L - 1 + 1
      BY <1>0, FS_Interval, SMTT(20)
    <3>2. Cardinality(1..L + 1) = IF 1 > L + 1 THEN 0 ELSE L + 1 - 1 + 1
      BY <1>0, FS_Interval
    <3>3. IsFiniteSet(1..L) /\ IsFiniteSet(1..L + 1)
      BY <1>0, FS_Interval
    <3> QED BY <1>0, <3>1, <3>2, <3>3
  <2>3. PICK x, y \in 1..L + 1 : x # y /\ f[x] = f[y]
    <3> HIDE DEF f
    <3> QED BY <2>1, <2>2, FS_PigeonHole
  <2>4. /\ x \in Nat \ {0} /\ y \in Nat \ {0}
        /\ Named(Numbered(base, x)) # 0 /\ Named(Numbered(base, y)) # 0
    BY <1>0, <1>1, <2>3
  <2>5. /\ plugins[Named(Numbered(base, x))].name = Numbered(base, x)
        /\ plugins[Named(Numbered(base, y))].name = Numbered(base, y)
    BY <2>4, NumbersTell, NamedFinds
  <2>6. Numbered(base, x) = Numbered(base, y)
    BY <2>3, <2>5
  <2> QED BY <2>3, <2>4, <2>6, NumbersTell
<1>2. first \in free
  <2>1. free \in SUBSET (1..L + 1)
    OBVIOUS
  <2> HIDE DEF free
  <2> QED BY <1>0, <1>1, <2>1, Least
<1>3. Unique(base) = Numbered(base, first)
  BY DEF Unique
<1> HIDE DEF first
<1>4. first \in Nat \ {0} /\ Named(Numbered(base, first)) = 0
  BY <1>0, <1>2
<1> HIDE DEF free
<1>5. Numbered(base, first) # <<>>
  BY <1>4, NumbersTell
<1> QED BY <1>3, <1>4, <1>5, NamedFinds DEF GivenNames, PluginSlots

LEMMA HostInitInv == HostInit => HostInv
<1> SUFFICES ASSUME HostInit PROVE HostInv
  OBVIOUS
<1> USE DEF HostInit
<1>1. SlotsInv /\ NamesInv
  <2>1. PluginSlots = {} /\ plugins \in Seq(PluginSlot) /\ loading = FALSE /\ story.names = {}
    BY DEF PluginSlots
  <2>2. {<<plugins[i].name, i>> : i \in {j \in PluginSlots : plugins[j].kept}} = {}
    BY <2>1
  <2> HIDE DEF HostInit
  <2> QED BY <2>1, <2>2 DEF SlotsInv, NamesInv
<1>2. CloseInv
  BY DEF CloseInv, Descending
<1>3. RangesInv
  BY DEF RangesInv, Holding
<1>4. OpsInv /\ StoryInv
  BY DEF OpsInv, StoryInv, CoreHandler
<1> QED BY <1>1, <1>2, <1>3, <1>4 DEF HostInv

(***************************************************************************)
(* What the actions that load, fail and close do to the slots.             *)
(***************************************************************************)
LEMMA SlotFacts ==
  ASSUME SlotsInv
  PROVE  /\ Len(plugins) \in Nat /\ PluginSlots = 1..Len(plugins)
         /\ \A i \in PluginSlots : plugins[i] \in PluginSlot
<1>1. plugins \in Seq(PluginSlot)
  BY DEF SlotsInv
<1> QED BY <1>1, ElementOfSeq DEF PluginSlots

LEMMA CloseFrom ==
  ASSUME NEW n \in Nat, NEW e \in Seq(Nat), closing' = [phase |-> "destroy", at |-> n],
         story'.destroyed = e, UNCHANGED plugins, n <= Len(plugins),
         {e[k] : k \in 1..Len(e)} = Above(n), Descending(e)
  PROVE  CloseInv'
<1>1. Above(n)' = Above(n) /\ Destroyed' = {e[k] : k \in 1..Len(e)}
  BY DEF Above, PluginSlots, Destroyed
<1>2. closing'.phase = "destroy" /\ closing'.at = n /\ closing' \in [phase : {"open", "destroy", "closed"}, at : Nat]
  OBVIOUS
<1>3. Descending(story.destroyed)'
  BY DEF Descending
<1> QED BY <1>1, <1>2, <1>3 DEF CloseInv, Above

LEMMA CloseUntouched ==
  ASSUME CloseInv, UNCHANGED <<plugins, closing>>, story'.destroyed = story.destroyed,
         closing.phase = "closed" => story'.names = story.names
  PROVE  CloseInv'
<1>1. Above(closing.at)' = Above(closing.at) /\ Destroyed' = Destroyed
  BY DEF Above, PluginSlots, Destroyed
<1>2. Descending(story.destroyed)'
  BY DEF CloseInv, Descending
<1> QED BY <1>1, <1>2 DEF CloseInv

LEMMA AttachKeeps ==
  ASSUME HostInv, Attach
  PROVE  SlotsInv' /\ NamesInv' /\ CloseInv'
<1> DEFINE s == [name |-> <<>>, kept |-> FALSE]
<1>0. Len(plugins) \in Nat /\ PluginSlots = 1..Len(plugins) /\ plugins \in Seq(PluginSlot)
  BY SlotFacts DEF HostInv, SlotsInv
<1>1. /\ IsOpen /\ ~ loading /\ plugins' = Append(plugins, s) /\ loading' = TRUE
      /\ UNCHANGED <<closing, story>> /\ s \in PluginSlot /\ s.name = <<>> /\ s.kept = FALSE
  BY DEF Attach, PluginSlot
<1> HIDE DEF s
<1>2. /\ Len(plugins') = Len(plugins) + 1 /\ plugins'[Len(plugins) + 1] = s
      /\ \A i \in 1..Len(plugins) : plugins'[i] = plugins[i]
      /\ plugins' \in Seq(PluginSlot)
  BY <1>0, <1>1, AppendProperties
<1>3. PluginSlots' = PluginSlots \cup {Len(plugins) + 1} /\ Len(plugins) + 1 \notin PluginSlots
  BY <1>0, <1>2 DEF PluginSlots
<1>4. {j \in PluginSlots' : plugins'[j].kept} = {j \in PluginSlots : plugins[j].kept}
  BY <1>0, <1>1, <1>2, <1>3
<1>5. SlotsInv'
  <2>1. \A i \in PluginSlots' : plugins'[i].kept <=> plugins'[i].name # <<>>
    BY <1>0, <1>1, <1>2, <1>3 DEF HostInv, SlotsInv
  <2>2. \A i, j \in PluginSlots' : plugins'[i].kept /\ plugins'[i].name = plugins'[j].name => i = j
    <3> SUFFICES ASSUME NEW i \in PluginSlots', NEW j \in PluginSlots',
                        plugins'[i].kept, plugins'[i].name = plugins'[j].name
                 PROVE  i = j
      OBVIOUS
    <3>1. plugins'[i].name # <<>>
      BY <2>1
    <3>2. i \in PluginSlots /\ j \in PluginSlots
      BY <1>1, <1>2, <1>3, <3>1
    <3> QED BY <1>0, <1>2, <3>2 DEF HostInv, SlotsInv
  <2>3. IsOpen' /\ Len(plugins') > 0 /\ ~ plugins'[Len(plugins')].kept
    BY <1>0, <1>1, <1>2 DEF IsOpen
  <2> QED BY <1>1, <1>2, <2>1, <2>2, <2>3 DEF SlotsInv
<1>6. NamesInv'
  <2>1. \A i \in PluginSlots : plugins'[i] = plugins[i]
    BY <1>0, <1>2
  <2> QED BY <1>1, <1>4, <2>1, ZenonT(40) DEF HostInv, NamesInv, IsOpen
<1>7. CloseInv'
  BY <1>1 DEF HostInv, CloseInv, IsOpen, Descending
<1> QED BY <1>5, <1>6, <1>7

LEMMA InitDoneKeeps ==
  ASSUME HostInv, NEW wanted \in Wanted, InitDone(wanted)
  PROVE  SlotsInv' /\ NamesInv' /\ CloseInv'
<1> DEFINE base == IF wanted = <<>> THEN <<"plugin">> ELSE wanted
           name == Unique(base)
           me == Len(plugins)
           s == [name |-> name, kept |-> TRUE]
<1>0. Len(plugins) \in Nat /\ PluginSlots = 1..Len(plugins) /\ plugins \in Seq(PluginSlot)
  BY SlotFacts DEF HostInv, SlotsInv
<1>1. /\ IsOpen /\ loading /\ plugins' = [plugins EXCEPT ![me] = s] /\ loading' = FALSE
      /\ story' = [story EXCEPT !.names = story.names \cup {<<name, me>>}] /\ UNCHANGED closing
  BY DEF InitDone
<1>2. name \in GivenNames /\ name # <<>> /\ \A i \in PluginSlots : plugins[i].name # name
  <2>1. base \in Bases
    BY DEF Bases
  <2> HIDE DEF base
  <2> QED BY <2>1, UniqueIsFree DEF HostInv
<1> HIDE DEF name, base
<1>3. me \in PluginSlots /\ ~ plugins[me].kept
  BY <1>0, <1>1 DEF HostInv, SlotsInv
<1>4. s \in PluginSlot /\ s.name = name /\ s.kept = TRUE
  BY <1>2 DEF PluginSlot
<1> HIDE DEF s
<1>5. /\ plugins' \in Seq(PluginSlot) /\ PluginSlots' = PluginSlots /\ plugins'[me] = s
      /\ \A i \in PluginSlots : i # me => plugins'[i] = plugins[i]
  <2>1. Len(plugins') = Len(plugins) /\ plugins' \in Seq(PluginSlot)
    BY <1>0, <1>1, <1>3, <1>4, ExceptSeq
  <2>2. plugins'[me] = s /\ \A i \in PluginSlots : i # me => plugins'[i] = plugins[i]
    BY <1>0, <1>1, <1>3
  <2> QED BY <2>1, <2>2 DEF PluginSlots
<1> HIDE DEF me
<1>6. SlotsInv'
  <2>1. \A i \in PluginSlots' : plugins'[i].kept <=> plugins'[i].name # <<>>
    BY <1>2, <1>4, <1>5 DEF HostInv, SlotsInv
  <2>2. \A i, j \in PluginSlots' : plugins'[i].kept /\ plugins'[i].name = plugins'[j].name => i = j
    <3> SUFFICES ASSUME NEW i \in PluginSlots, NEW j \in PluginSlots,
                        plugins'[i].kept, plugins'[i].name = plugins'[j].name
                 PROVE  i = j
      BY <1>5
    <3>1. CASE i = me
      BY <1>2, <1>4, <1>5, <3>1
    <3>2. CASE j = me
      BY <1>2, <1>4, <1>5, <3>2
    <3>3. CASE i # me /\ j # me
      BY <1>5, <3>3 DEF HostInv, SlotsInv
    <3> QED BY <3>1, <3>2, <3>3
  <2> QED BY <1>1, <1>5, <2>1, <2>2 DEF SlotsInv
<1>7. NamesInv'
  <2>1. story'.names = story.names \cup {<<name, me>>}
    BY <1>1 DEF HostInv, StoryInv
  <2>2. story.names = {<<plugins[i].name, i>> : i \in {j \in PluginSlots : plugins[j].kept}}
    BY <1>1 DEF HostInv, NamesInv, IsOpen
  <2>3. {j \in PluginSlots : plugins'[j].kept} = {j \in PluginSlots : plugins[j].kept} \cup {me}
    BY <1>3, <1>4, <1>5
  <2>4. {<<plugins'[i].name, i>> : i \in {j \in PluginSlots : plugins[j].kept} \cup {me}}
          = {<<plugins[i].name, i>> : i \in {j \in PluginSlots : plugins[j].kept}} \cup {<<name, me>>}
    <3>1. \A i \in {j \in PluginSlots : plugins[j].kept} : plugins'[i].name = plugins[i].name
      BY <1>3, <1>5
    <3>2. plugins'[me].name = name
      BY <1>4, <1>5
    <3> DEFINE K == {j \in PluginSlots : plugins[j].kept}
    <3> HIDE DEF K
    <3> QED BY <3>1, <3>2, Zenon DEF K
  <2> QED BY <1>5, <2>1, <2>2, <2>3, <2>4 DEF NamesInv
<1>8. CloseInv'
  <2>1. UNCHANGED closing /\ story'.destroyed = story.destroyed
    BY <1>1 DEF HostInv, StoryInv
  <2> QED BY <1>1, <2>1 DEF HostInv, CloseInv, IsOpen, Descending
<1> QED BY <1>6, <1>7, <1>8

(***************************************************************************)
(* sim_close: the loop of plugin_destroy_all, from the last slot down.     *)
(***************************************************************************)
LEMMA DestroyKeeps ==
  ASSUME HostInv, DestroyNext
  PROVE  SlotsInv' /\ NamesInv' /\ CloseInv'
<1> DEFINE d == story.destroyed
           at == closing.at
<1>1. /\ closing.phase = "destroy" /\ at > 0 /\ closing' = [closing EXCEPT !.at = at - 1]
      /\ story' = [story EXCEPT !.destroyed = IF plugins[at].kept THEN Append(d, at) ELSE d]
      /\ UNCHANGED <<plugins, loading>>
  BY DEF DestroyNext
<1>2. /\ at \in 1..Len(plugins) /\ PluginSlots = 1..Len(plugins) /\ Len(plugins) \in Nat
      /\ d \in Seq(Nat) /\ Len(d) \in Nat
  BY <1>1, SlotFacts DEF HostInv, CloseInv
<1>3. closing' = [phase |-> "destroy", at |-> at - 1] /\ at - 1 \in Nat
  BY <1>1, <1>2 DEF HostInv, CloseInv
<1>4. story'.names = story.names /\ story'.destroyed = IF plugins[at].kept THEN Append(d, at) ELSE d
  BY <1>1 DEF HostInv, StoryInv
<1>5. {d[n] : n \in 1..Len(d)} = {i \in PluginSlots : plugins[i].kept /\ i > at}
  BY <1>1 DEF HostInv, CloseInv, Destroyed, Above
<1>6. \A m, n \in 1..Len(d) : m < n => d[n] < d[m]
  BY DEF HostInv, CloseInv, Descending
<1>7. SlotsInv'
  <2>1. ~ loading
    BY <1>1 DEF HostInv, SlotsInv, IsOpen
  <2> QED BY <1>1, <2>1 DEF HostInv, SlotsInv, IsOpen, PluginSlots
<1>8. NamesInv'
  BY <1>1, <1>3, <1>4 DEF HostInv, NamesInv, PluginSlots
<1>9. CASE plugins[at].kept
  <2> DEFINE e == Append(d, at)
  <2>1. /\ e \in Seq(Nat) /\ Len(e) = Len(d) + 1 /\ e[Len(d) + 1] = at
        /\ \A n \in 1..Len(d) : e[n] = d[n]
    BY <1>2, AppendProperties
  <2> HIDE DEF e
  <2>2. {e[n] : n \in 1..Len(e)} = {i \in PluginSlots : plugins[i].kept /\ i > at - 1}
    <3>1. {e[n] : n \in 1..Len(e)} = {d[n] : n \in 1..Len(d)} \cup {at}
      <4>1. \A n \in 1..Len(e) : n \in 1..Len(d) \/ n = Len(d) + 1
        BY <1>2, <2>1
      <4>2. 1..Len(d) \subseteq 1..Len(e) /\ Len(d) + 1 \in 1..Len(e)
        BY <1>2, <2>1
      <4> QED BY <2>1, <4>1, <4>2
    <3>2. \A i \in PluginSlots : i > at - 1 <=> i > at \/ i = at
      BY <1>2
    <3> QED BY <1>2, <1>5, <1>9, <3>1, <3>2
  <2>3. \A m, n \in 1..Len(e) : m < n => e[n] < e[m]
    <3> SUFFICES ASSUME NEW m \in 1..Len(e), NEW n \in 1..Len(e), m < n PROVE e[n] < e[m]
      OBVIOUS
    <3>1. m \in 1..Len(d) /\ e[m] = d[m]
      <4>1. Len(d) \in Nat /\ Len(e) = Len(d) + 1
        BY <1>2, <2>1
      <4> HIDE DEF d
      <4>2. m \in 1..Len(d)
        BY <4>1
      <4> QED BY <2>1, <4>2
    <3>2. d[m] > at
      BY <1>5, <3>1
    <3>3. CASE n = Len(d) + 1
      BY <1>2, <2>1, <3>1, <3>2, <3>3
    <3>4. CASE n \in 1..Len(d)
      BY <1>6, <2>1, <3>1, <3>4
    <3> QED BY <1>2, <2>1, <3>3, <3>4
  <2>4. story'.destroyed = e
    BY <1>4, <1>9 DEF e
  <2>5. at - 1 <= Len(plugins)
    BY <1>2
  <2> QED BY <1>1, <1>3, <1>7, <1>8, <2>1, <2>2, <2>3, <2>4, <2>5, CloseFrom DEF Above, Descending
<1>10. CASE ~ plugins[at].kept
  <2>1. story'.destroyed = d
    BY <1>4, <1>10
  <2>2. {i \in PluginSlots : plugins[i].kept /\ i > at} = {i \in PluginSlots : plugins[i].kept /\ i > at - 1}
    <3>1. \A i \in PluginSlots : i > at - 1 <=> i > at \/ i = at
      BY <1>2
    <3> QED BY <1>10, <3>1
  <2>3. at - 1 <= Len(plugins)
    BY <1>2
  <2> QED BY <1>1, <1>2, <1>3, <1>5, <1>6, <1>7, <1>8, <2>1, <2>2, <2>3, CloseFrom DEF Above, Descending
<1> QED BY <1>9, <1>10

LEMMA UnloadKeeps ==
  ASSUME HostInv, Unload
  PROVE  SlotsInv' /\ NamesInv' /\ CloseInv'
<1>1. /\ closing = [phase |-> "destroy", at |-> 0] /\ closing' = [phase |-> "closed", at |-> 0]
      /\ plugins' = <<>> /\ UNCHANGED <<loading, story>>
  BY DEF Unload
<1>2. ~ loading
  BY <1>1 DEF HostInv, SlotsInv, IsOpen
<1>3. SlotsInv' /\ NamesInv'
  <2>1. PluginSlots' = {} /\ plugins' \in Seq(PluginSlot) /\ loading' = FALSE
    BY <1>1, <1>2 DEF PluginSlots, HostInv, SlotsInv
  <2> QED BY <1>1, <2>1 DEF SlotsInv, NamesInv
<1>4. CloseInv'
  <2> DEFINE K == {j \in PluginSlots : plugins[j].kept}
             d == story.destroyed
  <2>1. {d[n] : n \in 1..Len(d)} = {i \in PluginSlots : plugins[i].kept /\ i > 0}
    BY <1>1 DEF HostInv, CloseInv, Destroyed, Above
  <2>2. {i \in PluginSlots : plugins[i].kept /\ i > 0} = K
    BY SlotFacts DEF HostInv
  <2>3. story.names = {<<plugins[i].name, i>> : i \in K}
    BY <1>1 DEF HostInv, NamesInv
  <2>4. {e[2] : e \in story.names} = K
    <3> HIDE DEF K
    <3>1. \A e \in story.names : e[2] \in K
      BY <2>3
    <3>2. ASSUME NEW k \in K PROVE \E e \in story.names : e[2] = k
      <4>1. <<plugins[k].name, k>> \in story.names
        BY <2>3
      <4>2. <<plugins[k].name, k>>[2] = k
        OBVIOUS
      <4> QED BY <4>1, <4>2
    <3> QED BY <3>1, <3>2
  <2>5. Destroyed' = {e[2] : e \in story'.names}
    BY <1>1, <2>1, <2>2, <2>4 DEF Destroyed
  <2>6. story'.destroyed \in Seq(Nat) /\ Descending(story.destroyed)'
    BY <1>1 DEF HostInv, CloseInv, Descending
  <2> QED BY <1>1, <2>5, <2>6 DEF CloseInv
<1> QED BY <1>3, <1>4

(***************************************************************************)
(* A range goes in after the others, and an address it holds is its own.   *)
(***************************************************************************)
LEMMA OnXdataKeeps ==
  ASSUME HostInv, NEW i \in PluginSlots, NEW r \in Ranges, OnXdata(i, r)
  PROVE  RangesInv'
<1> DEFINE x == [range |-> r, owner |-> i]
           R == [range : Ranges, owner : Nat]
           n == Len(ranges) + 1
<1>1. /\ ranges' = Append(ranges, x) /\ dispatch' = TRUE
      /\ story' = [story EXCEPT !.serves =
            [a \in Addresses |-> IF a \in r.lo..r.hi THEN [owner |-> i, rd |-> r.rd, wr |-> r.wr]
                                 ELSE story.serves[a]]]
  BY DEF OnXdata
<1>2. x \in R /\ x.range = r /\ x.owner = i /\ ranges \in Seq(R) /\ Len(ranges) \in Nat
  BY SlotFacts DEF HostInv, RangesInv
<1> HIDE DEF x, R
<1>3. /\ ranges' \in Seq(R) /\ Len(ranges') = n /\ ranges'[n] = x
      /\ \A k \in 1..Len(ranges) : ranges'[k] = ranges[k]
  BY <1>1, <1>2, AppendProperties
<1>4. story'.serves = [a \in Addresses |-> IF a \in r.lo..r.hi THEN [owner |-> i, rd |-> r.rd, wr |-> r.wr]
                                           ELSE story.serves[a]]
  BY <1>1 DEF HostInv, StoryInv
<1>5. ASSUME NEW a \in Addresses
      PROVE  \/ Holding(a)' = {} /\ story'.serves[a] = [owner |-> CoreHandler, rd |-> FALSE, wr |-> FALSE]
             \/ \E k \in Holding(a)' : (\A j \in Holding(a)' : j <= k) /\ story'.serves[a] = Served(k)'
  <2>1. CASE a \in r.lo..r.hi
    <3>1. n \in 1..Len(ranges') /\ Holding(a)' \subseteq 1..n /\ n \in Holding(a)'
      BY <1>2, <1>3, <2>1 DEF Holding
    <3>2. \A j \in Holding(a)' : j <= n
      BY <1>2, <3>1
    <3>3. story'.serves[a] = [owner |-> i, rd |-> r.rd, wr |-> r.wr]
      BY <1>4, <2>1
    <3>4. story'.serves[a] =
            [owner |-> ranges'[n].owner, rd |-> ranges'[n].range.rd, wr |-> ranges'[n].range.wr]
      BY <1>2, <1>3, <3>3
    <3> HIDE DEF n
    <3> QED BY <3>1, <3>2, <3>4 DEF Served
  <2>2. CASE a \notin r.lo..r.hi
    <3>1. Holding(a)' = Holding(a)
      <4>1. \A k : k \in 1..Len(ranges') <=> k \in 1..Len(ranges) \/ k = n
        BY <1>2, <1>3
      <4>2. \A k \in 1..Len(ranges) : k # n
        BY <1>2
      <4> QED BY <1>2, <1>3, <2>2, <4>1, <4>2 DEF Holding
    <3>2. \A k \in Holding(a) : Served(k)' = Served(k)
      BY <1>3 DEF Holding, Served
    <3>3. story'.serves[a] = story.serves[a]
      BY <1>4, <2>2
    <3> QED BY <3>1, <3>2, <3>3 DEF HostInv, RangesInv
  <2> QED BY <2>1, <2>2
<1> QED BY <1>1, <1>3, <1>4, <1>5 DEF RangesInv, R

(***************************************************************************)
(* What the other actions leave alone.                                     *)
(***************************************************************************)
LEMMA SlotsUntouched ==
  ASSUME HostInv, UNCHANGED <<plugins, closing, story>>, loading' = loading \/ loading' = FALSE
  PROVE  SlotsInv' /\ NamesInv' /\ CloseInv'
<1>0. PluginSlots' = PluginSlots /\ IsOpen' = IsOpen /\ plugins' = plugins /\ closing' = closing /\ story' = story
  BY DEF PluginSlots, IsOpen
<1>1. SlotsInv'
  <2>1. CASE loading' = loading
    BY <1>0, <2>1 DEF HostInv, SlotsInv
  <2>2. CASE loading' = FALSE
    BY <1>0, <2>2, ZenonT(40) DEF HostInv, SlotsInv
  <2> QED BY <2>1, <2>2
<1>2. NamesInv'
  <2>1. NamesInv
    BY DEF HostInv
  <2> QED BY <1>0, <2>1 DEF NamesInv
<1>3. CloseInv'
  BY <1>0, CloseUntouched DEF HostInv
<1> QED BY <1>1, <1>2, <1>3

LEMMA RangesUntouched ==
  ASSUME HostInv, UNCHANGED ranges, story'.serves = story.serves,
         ranges # <<>> => dispatch' = TRUE
  PROVE  RangesInv'
<1>1. \A a : Holding(a)' = Holding(a)
  BY DEF Holding
<1>2. \A k : Served(k)' = Served(k)
  BY DEF Served
<1> QED BY <1>1, <1>2 DEF HostInv, RangesInv

LEMMA HostNextKeeps ==
  ASSUME HostInv, [HostNext]_hostvars
  PROVE  HostInv'
<1>1. SlotsInv' /\ NamesInv' /\ CloseInv'
  <2>1. CASE Attach
    BY <2>1, AttachKeeps
  <2>2. CASE \E wanted \in Wanted : InitDone(wanted)
    BY <2>2, InitDoneKeeps
  <2>3. CASE DestroyNext
    BY <2>3, DestroyKeeps
  <2>4. CASE Unload
    BY <2>4, UnloadKeeps
  <2>5. CASE SimClose
    <3>1. /\ IsOpen /\ ~ loading /\ closing' = [phase |-> "destroy", at |-> Len(plugins)]
          /\ UNCHANGED <<plugins, loading, story>>
      BY <2>5 DEF SimClose
    <3>2. PluginSlots' = PluginSlots /\ ~ IsOpen' /\ loading' = FALSE
      BY <3>1 DEF PluginSlots, IsOpen, HostInv, SlotsInv
    <3>3. SlotsInv'
      BY <3>1, <3>2 DEF HostInv, SlotsInv
    <3>4. NamesInv'
      BY <3>1, <3>2 DEF HostInv, NamesInv, IsOpen
    <3>5. CloseInv'
      <4>1. story.destroyed = <<>> /\ Len(plugins) \in Nat
        BY <3>1, SlotFacts DEF HostInv, CloseInv, IsOpen
      <4>2. Above(Len(plugins)) = {}
        BY SlotFacts DEF HostInv, Above
      <4> DEFINE e == story.destroyed
      <4>3. {e[n] : n \in 1..Len(e)} = {} /\ e \in Seq(Nat)
        BY <4>1
      <4>4. Descending(e)
        BY <4>1 DEF Descending
      <4>5. story'.destroyed = e /\ {e[n] : n \in 1..Len(e)} = Above(Len(plugins))
        BY <3>1, <4>2, <4>3
      <4> HIDE DEF e
      <4>6. Len(plugins) <= Len(plugins)
        BY <4>1
      <4> QED BY <3>1, <4>1, <4>3, <4>4, <4>5, <4>6, CloseFrom
    <3> QED BY <3>3, <3>4, <3>5
  <2>6. CASE \E i \in PluginSlots : \E r \in Ranges : OnXdata(i, r)
    <3>1. /\ UNCHANGED <<plugins, loading, closing>>
          /\ \E x : story' = [story EXCEPT !.serves = x]
      BY <2>6 DEF OnXdata
    <3>2. story'.names = story.names /\ story'.destroyed = story.destroyed
      BY <3>1 DEF HostInv, StoryInv
    <3>3. PluginSlots' = PluginSlots /\ IsOpen' = IsOpen
      BY <3>1 DEF PluginSlots, IsOpen
    <3>4. SlotsInv /\ NamesInv /\ CloseInv
      BY DEF HostInv
    <3>5. SlotsInv' /\ NamesInv'
      BY <3>1, <3>2, <3>3, <3>4 DEF SlotsInv, NamesInv
    <3>6. CloseInv'
      BY <3>1, <3>2, <3>4, CloseUntouched
    <3> QED BY <3>5, <3>6
  <2>7. CASE UNCHANGED <<plugins, closing, story>> /\ (loading' = loading \/ loading' = FALSE)
    BY <2>7, SlotsUntouched
  <2> QED BY <2>1, <2>2, <2>3, <2>4, <2>5, <2>6, <2>7
          DEF HostNext, hostvars, InitFails, OnException, SetOpcode, ClearOpcode, SetXramSize, Raise, Movx,
              ResetCpu, ResetAll
<1>2. StoryInv'
  <2>1. UNCHANGED story \/ \E x : \/ story' = [story EXCEPT !.names = x]
                                \/ story' = [story EXCEPT !.destroyed = x]
                                \/ story' = [story EXCEPT !.serves = x]
    BY DEF HostNext, hostvars, Attach, InitDone, InitFails, OnException, OnXdata, SetOpcode, ClearOpcode,
           SetXramSize, Raise, Movx, ResetCpu, ResetAll, SimClose, DestroyNext, Unload
  <2> QED BY <2>1 DEF HostInv, StoryInv
<1>3. RangesInv'
  <2>1. CASE \E i \in PluginSlots : \E r \in Ranges : OnXdata(i, r)
    BY <2>1, OnXdataKeeps
  <2>2. CASE \E size \in Addresses : SetXramSize(size)
    <3>1. UNCHANGED <<ranges, story>> /\ \E size \in Addresses : dispatch' = (size # 0 \/ ranges # <<>>)
      BY <2>2 DEF SetXramSize
    <3>2. ranges # <<>> => dispatch' = TRUE
      BY <3>1
    <3> QED BY <3>1, <3>2, RangesUntouched
  <2>3. CASE UNCHANGED <<ranges, dispatch>> /\ story'.serves = story.serves
    BY <2>3, RangesUntouched DEF HostInv, RangesInv
  <2>4. ASSUME UNCHANGED <<ranges, dispatch>>,
               UNCHANGED story \/ \E x : \/ story' = [story EXCEPT !.names = x]
                                       \/ story' = [story EXCEPT !.destroyed = x]
        PROVE  story'.serves = story.serves
    BY <2>4 DEF HostInv, StoryInv
  <2>5. \/ \E i \in PluginSlots : \E r \in Ranges : OnXdata(i, r)
        \/ \E size \in Addresses : SetXramSize(size)
        \/ /\ UNCHANGED <<ranges, dispatch>>
           /\ UNCHANGED story \/ \E x : \/ story' = [story EXCEPT !.names = x]
                                       \/ story' = [story EXCEPT !.destroyed = x]
    BY DEF HostNext, hostvars, Attach, InitDone, InitFails, OnException, SetOpcode, ClearOpcode,
           Raise, Movx, ResetCpu, ResetAll, SimClose, DestroyNext, Unload
  <2> QED BY <2>1, <2>2, <2>3, <2>4, <2>5
<1>4. OpsInv'
  <2>0. ops \in [Opcodes -> Nat] /\ handler \in [Opcodes -> BOOLEAN]
        /\ \A op \in Opcodes : handler[op] <=> ops[op] # CoreHandler
    BY DEF HostInv, OpsInv
  <2>1. ASSUME NEW i \in PluginSlots, NEW op \in Opcodes, SetOpcode(i, op) PROVE OpsInv'
    <3>1. i \in Nat /\ i # CoreHandler
      BY SlotFacts DEF HostInv, CoreHandler
    <3>2. ops' = [ops EXCEPT ![op] = i] /\ handler' = [handler EXCEPT ![op] = TRUE]
      BY <2>1 DEF SetOpcode
    <3> QED BY <2>0, <3>1, <3>2 DEF OpsInv
  <2>2. ASSUME NEW i \in PluginSlots, NEW op \in Opcodes, ClearOpcode(i, op) PROVE OpsInv'
    <3>1. ops' = [ops EXCEPT ![op] = CoreHandler] /\ handler' = [handler EXCEPT ![op] = FALSE] /\ CoreHandler \in Nat
      BY <2>2 DEF ClearOpcode, CoreHandler
    <3> QED BY <2>0, <3>1 DEF OpsInv
  <2>3. CASE UNCHANGED ops /\ handler' = OpsAfterReset
    BY <2>0, <2>3 DEF OpsInv, OpsAfterReset
  <2>4. CASE UNCHANGED <<ops, handler>>
    BY <2>0, <2>4 DEF OpsInv
  <2> QED BY <2>1, <2>2, <2>3, <2>4
          DEF HostNext, hostvars, Attach, InitDone, InitFails, OnException, OnXdata, SetXramSize, Raise, Movx,
              ResetCpu, ResetAll, SimClose, DestroyNext, Unload
<1> QED BY <1>1, <1>2, <1>3, <1>4 DEF HostInv

(***************************************************************************)
(* Names are of one slot each, the close has destroyed what it passed, and *)
(* every address is with the range that was installed over it last.        *)
(***************************************************************************)
THEOREM HostInvariant == HostSpec => []HostInv
<1>1. HostInv /\ [HostNext]_hostvars => HostInv'
  BY HostNextKeeps
<1> QED BY <1>1, HostInitInv, PTL DEF HostSpec

(***************************************************************************)
(* Names, MOVX hooks, replaced opcodes and destroy order for any number of *)
(* plugins, names like those the host itself makes, ranges and opcodes.    *)
(***************************************************************************)
THEOREM OwnersFound == HostSpec => []CallsFindTheirOwner
<1>1. HostInv => CallsFindTheirOwner
  <2> SUFFICES ASSUME HostInv PROVE CallsFindTheirOwner
    OBVIOUS
  <2>1. NamesFindTheirPlugin
    <3> SUFFICES ASSUME IsOpen, NEW e \in story.names PROVE Named(e[1]) = e[2]
      BY DEF NamesFindTheirPlugin
    <3>1. PICK i \in PluginSlots : plugins[i].kept /\ e = <<plugins[i].name, i>>
      BY DEF HostInv, NamesInv, IsOpen
    <3>2. plugins[i].name # <<>> /\ e[1] = plugins[i].name /\ e[2] = i
      BY <3>1 DEF HostInv, SlotsInv
    <3>3. Named(e[1]) \in PluginSlots /\ plugins[Named(e[1])].name = plugins[i].name
      BY <3>2, NamedFinds DEF HostInv
    <3>4. Named(e[1]) = i
      BY <3>1, <3>3 DEF HostInv, SlotsInv
    <3> QED BY <3>2, <3>4
  <2>2. MovxFindsTheLatest
    <3> SUFFICES ASSUME NEW a \in Addresses, NEW reading \in BOOLEAN
                 PROVE  LET s == story.serves[a]
                        IN  Answers(a, reading) = IF (IF reading THEN s.rd ELSE s.wr) THEN s.owner ELSE CoreHandler
      BY DEF MovxFindsTheLatest
    <3>1. CASE Holding(a) = {} /\ story.serves[a] = [owner |-> CoreHandler, rd |-> FALSE, wr |-> FALSE]
      BY <3>1 DEF Answers, XdataHook
    <3>2. CASE \E k \in Holding(a) : (\A j \in Holding(a) : j <= k) /\ story.serves[a] = Served(k)
      <4>1. PICK k \in Holding(a) : (\A j \in Holding(a) : j <= k) /\ story.serves[a] = Served(k)
        BY <3>2
      <4>2. Holding(a) \subseteq 1..Len(ranges) /\ Len(ranges) \in Nat
        BY DEF Holding, HostInv, RangesInv
      <4>3. XdataHook(a) = k
        <5>1. \A x \in Holding(a) : (\A j \in Holding(a) : j <= x) => x = k
          BY <4>1, <4>2
        <5> QED BY <4>1, <5>1 DEF XdataHook
      <4>4. dispatch = TRUE /\ k # 0
        BY <4>1, <4>2 DEF HostInv, RangesInv
      <4> QED BY <4>1, <4>3, <4>4 DEF Answers, Served
    <3> QED BY <3>1, <3>2 DEF HostInv, RangesInv
  <2>3. OpcodesStayReplaced
    <3>1. \A op \in Opcodes : handler[op] \in BOOLEAN /\ (handler[op] <=> ops[op] # CoreHandler)
      BY DEF HostInv, OpsInv
    <3> QED BY <3>1, Zenon DEF OpcodesStayReplaced
  <2>4. DestroyedLastFirst
    <3> DEFINE d == story.destroyed
    <3>1. DOMAIN d = 1..Len(d)
      BY DEF HostInv, CloseInv
    <3>2. \A m, n \in 1..Len(d) : m < n => d[n] < d[m]
      BY DEF HostInv, CloseInv, Descending
    <3>3. closing.phase = "closed" => {d[n] : n \in 1..Len(d)} = {e[2] : e \in story.names}
      BY DEF HostInv, CloseInv, Destroyed
    <3> HIDE DEF d
    <3>4. closing.phase = "closed" => {d[n] : n \in DOMAIN d} = {e[2] : e \in story.names}
      BY <3>1, <3>3
    <3> QED BY <3>1, <3>2, <3>4 DEF DestroyedLastFirst, d
  <2> QED BY <2>1, <2>2, <2>3, <2>4 DEF CallsFindTheirOwner
<1> QED BY <1>1, HostInvariant, PTL

-----------------------------------------------------------------------------
(***************************************************************************)
(* The loader.  Total and Text are defined by recursion; Sums and Chunks   *)
(* are the functions they take the last value of.                          *)
(***************************************************************************)
Sums(s) == CHOOSE f : f = [n \in 0..Len(s) |-> IF n = 0 THEN 0 ELSE f[n - 1] + s[n]]

Units == 0..256

Chunks(p) == CHOOSE f : f = [n \in 0..Len(p) |-> IF n = 0 THEN <<>> ELSE f[n - 1] \o Line(p[n])]

LEMMA SumsStep ==
  ASSUME NEW s \in Seq(Nat)
  PROVE  /\ Sums(s) \in [0..Len(s) -> Nat] /\ Sums(s)[0] = 0 /\ Total(s) = Sums(s)[Len(s)]
         /\ \A n \in 1..Len(s) : Sums(s)[n] = Sums(s)[n - 1] + s[n]
<1> DEFINE L == Len(s)
           Fits(f) == f = [n \in 0..L |-> IF n = 0 THEN 0 ELSE f[n - 1] + s[n]]
           step == [n \in 1..L |-> [v \in Nat |-> v + s[n]]]
           g == Sums(s)
<1>1. L \in Nat /\ \A n \in 1..L : s[n] \in Nat
  OBVIOUS
<1>2. PICK f \in [0..L -> Nat] : f[0] = 0 /\ \A n \in 1..L : f[n] = step[n][f[n - 1]]
  <2>1. IsRecursion(Nat, 0, L, step)
    BY <1>1 DEF IsRecursion
  <2> HIDE DEF step, L
  <2>2. PICK f : IsRun(f, Nat, 0, L, step)
    BY <2>1, Recursion
  <2> QED BY <2>2 DEF IsRun
<1>3. \A n \in 1..L : f[n] = f[n - 1] + s[n] /\ n - 1 \in 0..L /\ n \in 0..L /\ n # 0
  <2> SUFFICES ASSUME NEW n \in 1..L PROVE f[n] = f[n - 1] + s[n] /\ n - 1 \in 0..L /\ n \in 0..L /\ n # 0
    OBVIOUS
  <2>1. n - 1 \in 0..L /\ n \in 0..L /\ n # 0
    BY <1>1
  <2>2. f[n - 1] \in Nat
    BY <1>2, <2>1
  <2> QED BY <1>2, <2>1, <2>2
<1>4. \A n \in 0..L : n = 0 \/ n \in 1..L
  BY <1>1
<1>5. Fits(f)
  <2>1. \A n \in 0..L : f[n] = IF n = 0 THEN 0 ELSE f[n - 1] + s[n]
    BY <1>2, <1>3, <1>4
  <2> QED BY <1>2, <2>1
<1>6. Fits(g)
  BY <1>5 DEF Sums
<1> HIDE DEF g
<1>7. \A n \in 0..L : g[n] = IF n = 0 THEN 0 ELSE g[n - 1] + s[n]
  BY <1>6
<1>8. g = [n \in 0..L |-> g[n]] /\ f = [n \in 0..L |-> f[n]] /\ g[0] = f[0]
  <2>1. \A h : Fits(h) => h = [n \in 0..L |-> h[n]]
    OBVIOUS
  <2>2. g[0] = 0
    BY <1>1, <1>7
  <2> HIDE DEF Fits
  <2> QED BY <1>2, <1>5, <1>6, <2>1, <2>2
<1>9. \A n \in 1..L : g[n - 1] = f[n - 1] => g[n] = f[n]
  BY <1>3, <1>7
<1>10. g = f
  <2>1. TwoRuns(g, f, L)
    BY <1>1, <1>8, <1>9 DEF TwoRuns
  <2> HIDE DEF L
  <2> QED BY <2>1, SameRecursion
<1>11. Total(s) = g[L]
  BY DEF Total, Sums, g
<1> QED BY <1>2, <1>3, <1>10, <1>11 DEF g

LEMMA ChunksStep ==
  ASSUME NEW p, Len(p) \in Nat, \A n \in 1..Len(p) : Line(p[n]) \in Seq(Units)
  PROVE  /\ Chunks(p) \in [0..Len(p) -> Seq(Units)] /\ Chunks(p)[0] = <<>>
         /\ Text(p) = Chunks(p)[Len(p)] \o <<0, 0, 0, 1, 255>>
         /\ \A n \in 1..Len(p) : Chunks(p)[n] = Chunks(p)[n - 1] \o Line(p[n])
<1> DEFINE L == Len(p)
           V == Seq(Units)
           l(n) == Line(p[n])
           Fits(f) == f = [n \in 0..L |-> IF n = 0 THEN <<>> ELSE f[n - 1] \o l(n)]
           step == [n \in 1..L |-> [v \in V |-> v \o l(n)]]
           g == Chunks(p)
<1>1. L \in Nat /\ (\A n \in 1..L : l(n) \in V) /\ <<>> \in V
  OBVIOUS
<1>11. Text(p) = g[L] \o <<0, 0, 0, 1, 255>>
  BY DEF Text, Chunks
<1>6a. (\E f : Fits(f)) => Fits(g)
  BY DEF Chunks
<1> HIDE DEF l, g
<1>2. PICK f \in [0..L -> V] : f[0] = <<>> /\ \A n \in 1..L : f[n] = step[n][f[n - 1]]
  <2>1. step \in [1..L -> [V -> V]]
    <3>1. \A n \in 1..L, v \in V : v \o l(n) \in V
      BY <1>1
    <3> HIDE DEF V
    <3> QED BY <3>1
  <2>2. IsRecursion(V, <<>>, L, step)
    BY <1>1, <2>1 DEF IsRecursion
  <2> HIDE DEF step, V, L
  <2>3. PICK f : IsRun(f, V, <<>>, L, step)
    BY <2>2, Recursion
  <2> QED BY <2>3 DEF IsRun
<1> HIDE DEF V
<1>3. \A n \in 1..L : f[n] = f[n - 1] \o l(n) /\ n - 1 \in 0..L /\ n \in 0..L /\ n # 0
  <2> SUFFICES ASSUME NEW n \in 1..L PROVE f[n] = f[n - 1] \o l(n) /\ n - 1 \in 0..L /\ n \in 0..L /\ n # 0
    OBVIOUS
  <2>1. n - 1 \in 0..L /\ n \in 0..L /\ n # 0
    BY <1>1
  <2>2. f[n - 1] \in V
    BY <1>2, <2>1
  <2> QED BY <1>2, <2>1, <2>2
<1>4. \A n \in 0..L : n = 0 \/ n \in 1..L
  BY <1>1
<1>5. Fits(f)
  <2>1. \A n \in 0..L : f[n] = IF n = 0 THEN <<>> ELSE f[n - 1] \o l(n)
    BY <1>2, <1>3, <1>4
  <2> QED BY <1>2, <2>1
<1>6. Fits(g)
  BY <1>5, <1>6a
<1>7. \A n \in 0..L : g[n] = IF n = 0 THEN <<>> ELSE g[n - 1] \o l(n)
  BY <1>6
<1>8. g = [n \in 0..L |-> g[n]] /\ f = [n \in 0..L |-> f[n]] /\ g[0] = f[0]
  <2>1. \A h : Fits(h) => h = [n \in 0..L |-> h[n]]
    OBVIOUS
  <2>2. g[0] = <<>>
    BY <1>1, <1>7
  <2> HIDE DEF Fits
  <2> QED BY <1>2, <1>5, <1>6, <2>1, <2>2
<1>9. \A n \in 1..L : g[n - 1] = f[n - 1] => g[n] = f[n]
  BY <1>3, <1>7
<1>10. g = f
  <2>1. TwoRuns(g, f, L)
    BY <1>1, <1>8, <1>9 DEF TwoRuns
  <2> HIDE DEF L
  <2> QED BY <2>1, SameRecursion
<1> QED BY <1>2, <1>3, <1>10, <1>11 DEF g, l, V

(* One byte altered moves the sum by as much.                              *)
LEMMA OneOff ==
  ASSUME NEW s \in Seq(Nat), NEW j \in 1..Len(s), NEW b \in Nat
  PROVE  Total([s EXCEPT ![j] = b]) = (Total(s) - s[j]) + b
<1> DEFINE L == Len(s)
           t == [s EXCEPT ![j] = b]
           f == Sums(s)
           g == Sums(t)
           d(n) == IF n >= j THEN b - s[j] ELSE 0
           S == {n \in 1..L : g[n] # f[n] + d(n)}
           k == CHOOSE i \in S : \A m \in S : i <= m
<1>1. L \in Nat /\ t \in Seq(Nat) /\ Len(t) = L /\ \A n \in 1..L : t[n] = IF n = j THEN b ELSE s[n]
  OBVIOUS
<1>2. \A n \in 1..L : s[n] \in Nat
  OBVIOUS
<1>3. /\ f \in [0..L -> Nat] /\ f[0] = 0 /\ Total(s) = f[L]
      /\ \A n \in 1..L : f[n] = f[n - 1] + s[n]
  BY SumsStep
<1>4. /\ g \in [0..L -> Nat] /\ g[0] = 0 /\ Total(t) = g[L]
      /\ \A n \in 1..L : g[n] = g[n - 1] + t[n]
  BY <1>1, SumsStep
<1> HIDE DEF L, t, f, g
<1>5. j \in 1..L /\ s[j] \in Nat
  BY <1>2 DEF L
<1>6. S = {}
  <2> SUFFICES ASSUME S # {} PROVE FALSE
    OBVIOUS
  <2>1. k \in S /\ \A m \in S : k <= m
    BY <1>1, Least
  <2> HIDE DEF k
  <2>2. k \in 1..L /\ ~ (k <= k - 1) /\ g[k] # f[k] + d(k)
    BY <1>1, <2>1
  <2>3. k - 1 \in 0..L /\ f[k - 1] \in Nat /\ g[k - 1] \in Nat /\ s[k] \in Nat
    BY <1>1, <1>2, <1>3, <1>4, <2>2
  <2>4. g[k - 1] = f[k - 1] + d(k - 1)
    <3>1. CASE k = 1
      <4>1. ~(0 >= j) /\ k - 1 = 0
        BY <1>5, <3>1
      <4> QED BY <1>3, <1>4, <4>1
    <3>2. CASE k # 1
      <4>1. k - 1 \in 1..L
        BY <1>1, <2>2, <3>2
      <4> QED BY <2>1, <2>2, <4>1
    <3> QED BY <3>1, <3>2
  <2>5. f[k] = f[k - 1] + s[k] /\ g[k] = g[k - 1] + (IF k = j THEN b ELSE s[k])
    BY <1>1, <1>3, <1>4, <2>2
  <2> DEFINE x == f[k - 1]
             y == g[k - 1]
             u == s[k]
             v == s[j]
  <2>6. /\ y = x + (IF k - 1 >= j THEN b - v ELSE 0) /\ (k = j => u = v)
        /\ y + (IF k = j THEN b ELSE u) # (x + u) + (IF k >= j THEN b - v ELSE 0)
        /\ x \in Nat /\ y \in Nat /\ u \in Nat /\ v \in Nat /\ k \in Nat /\ j \in Nat
    BY <1>5, <2>2, <2>3, <2>4, <2>5
  <2> HIDE DEF x, y, u, v
  <2> QED BY <2>6
<1>7. L \in 1..L /\ L >= j
  BY <1>1, <1>5
<1>8. g[L] = f[L] + (b - s[j]) /\ f[L] \in Nat
  BY <1>3, <1>6, <1>7
<1> DEFINE x == f[L]
           v == s[j]
<1>9. x + (b - v) = (x - v) + b
  <2>1. x \in Nat /\ v \in Nat
    BY <1>5, <1>8
  <2> HIDE DEF x, v
  <2> QED BY <2>1
<1> QED BY <1>3, <1>4, <1>8, <1>9 DEF t

LEMMA Joined ==
  ASSUME NEW V, NEW s \in Seq(V), NEW t \in Seq(V)
  PROVE  /\ s \o t \in Seq(V) /\ Len(s \o t) = Len(s) + Len(t)
         /\ \A i \in 1..Len(s) : (s \o t)[i] = s[i]
         /\ \A i \in 1..Len(t) : (s \o t)[Len(s) + i] = t[i]
<1>1. /\ s \o t \in Seq(V) /\ Len(s \o t) = Len(s) + Len(t) /\ Len(s) \in Nat /\ Len(t) \in Nat
      /\ \A i \in 1..Len(s) + Len(t) :
           (s \o t)[i] = IF i <= Len(s) THEN s[i] ELSE t[i - Len(s)]
  OBVIOUS
<1>2. \A i \in 1..Len(s) : i \in 1..Len(s) + Len(t) /\ i <= Len(s)
  BY <1>1
<1>3. \A i \in 1..Len(t) :
        /\ Len(s) + i \in 1..Len(s) + Len(t) /\ ~(Len(s) + i <= Len(s))
        /\ (Len(s) + i) - Len(s) = i
  BY <1>1
<1> QED BY <1>1, <1>2, <1>3

Payload(r) == <<Len(r.data), r.addr \div 256, r.addr % 256, 0>> \o r.data

IsRecord(r) ==
  r.addr \in Nat /\ r.addr <= 65279 /\ r.data \in Seq(Bytes) /\ Len(r.data) <= 255

IsProgram(p) == Len(p) \in Nat /\ \A i \in 1..Len(p) : IsRecord(p[i])

(* The units of a record.                                                  *)
LineOf(r) ==
  LET l == Len(r.data)
  IN  /\ Line(r) \in Seq(Units) /\ Len(Line(r)) = l + 6 /\ l \in Bytes
      /\ Line(r)[1] = l /\ Line(r)[2] = r.addr \div 256 /\ Line(r)[3] = r.addr % 256
      /\ Line(r)[4] = 0
      /\ \A i \in 1..l : Line(r)[4 + i] = r.data[i]
      /\ Line(r)[l + 5] = Completing(Total(Payload(r))) /\ Line(r)[l + 6] = Eol
      /\ \A i \in 1..(l + 5) : Line(r)[i] \in Bytes
      /\ Payload(r) \in Seq(Bytes) /\ Len(Payload(r)) = l + 4
      /\ \A i \in 1..(l + 4) : Payload(r)[i] = Line(r)[i]

LEMMA ByteIs ==
  /\ \A x \in Bytes : x \in Nat /\ x <= 255 /\ x \in Units /\ x # Eol
  /\ \A x \in Nat : x <= 255 => x \in Bytes
  /\ Eol \in Units
BY DEF Bytes, Units, Eol

LEMMA CompletingIs ==
  ASSUME NEW x \in Nat
  PROVE  Completing(x) \in Bytes
<1> DEFINE y == x % 256
           z == (256 - y) % 256
<1>1. y \in 0..256 - 1
  BY Division
<1> HIDE DEF y
<1>2. z \in 0..256 - 1
  <2> DEFINE w == 256 - y
  <2>1. w \in Nat /\ 256 \in Nat \ {0}
    BY <1>1
  <2> HIDE DEF w
  <2>2. w % 256 \in 0..256 - 1
    BY <2>1, Division
  <2> QED BY <2>2 DEF w
<1> QED BY <1>2 DEF Completing, Bytes, y, z

LEMMA LineIs ==
  ASSUME NEW r, IsRecord(r)
  PROVE  LineOf(r)
<1> DEFINE d == r.data
           l == Len(d)
           hi == r.addr \div 256
           lo == r.addr % 256
           h == <<l, hi, lo, 0>>
           b == Payload(r)
           c == Completing(Total(b))
           e == <<c, Eol>>
<1>1. l \in Nat /\ l \in Bytes /\ d \in Seq(Bytes)
  <2>1. l \in Nat /\ l <= 255 /\ d \in Seq(Bytes)
    BY DEF IsRecord
  <2> QED BY <2>1, ByteIs
<1>2. hi \in Bytes /\ lo \in Bytes /\ 0 \in Bytes
  <2> DEFINE a == r.addr
  <2>1. a \in Nat /\ a <= 65279 /\ 256 \in Nat \ {0}
    BY DEF IsRecord
  <2> HIDE DEF a
  <2>2. a \div 256 \in Nat /\ a % 256 \in 0..256 - 1 /\ a = 256 * (a \div 256) + (a % 256)
    BY <2>1, Division
  <2> DEFINE q == a \div 256
             m == a % 256
  <2> HIDE DEF q, m
  <2>3. q \in Nat /\ q <= 255 /\ m \in Nat /\ m <= 255
    <3>1. q \in Nat /\ m \in 0..256 - 1 /\ a = 256 * q + m
      BY <2>2 DEF q, m
    <3> QED BY <2>1, <3>1
  <2>4. q \in Bytes /\ m \in Bytes
    BY <2>3, ByteIs
  <2>5. 0 \in Bytes
    BY ByteIs
  <2> QED BY <2>4, <2>5 DEF q, m, a
<1> HIDE DEF hi, lo, d, l
<1>3. /\ h \in Seq(Bytes) /\ Len(h) = 4 /\ h[1] = l /\ h[2] = hi /\ h[3] = lo /\ h[4] = 0
  BY <1>1, <1>2
<1>4. b = h \o d
  BY DEF Payload, h, hi, lo, l, d
<1> HIDE DEF h
<1>5. /\ b \in Seq(Bytes) /\ Len(b) = l + 4
      /\ b[1] = l /\ b[2] = hi /\ b[3] = lo /\ b[4] = 0
      /\ \A i \in 1..l : b[4 + i] = d[i]
  <2>1. l = Len(d) /\ 4 = Len(h) /\ h \in Seq(Bytes) /\ d \in Seq(Bytes)
    BY <1>1, <1>3 DEF l
  <2>2. /\ b \in Seq(Bytes) /\ Len(b) = Len(h) + Len(d)
        /\ \A i \in 1..Len(h) : b[i] = h[i]
        /\ \A i \in 1..Len(d) : b[Len(h) + i] = d[i]
    BY <1>4, <2>1, Joined
  <2>5. l \in Nat /\ Len(d) = l /\ Len(h) = 4
    BY <1>1, <2>1
  <2>3. Len(h) + Len(d) = l + 4
    BY <2>5
  <2>4. b[1] = h[1] /\ b[2] = h[2] /\ b[3] = h[3] /\ b[4] = h[4]
    <3>1. \A i \in 1..4 : b[i] = h[i]
      BY <2>2, <2>5
    <3> QED BY <3>1
  <2> QED BY <1>3, <2>1, <2>2, <2>3, <2>4
<1>6. Line(r) = b \o e
  BY DEF Line, Payload, Completing
<1> HIDE DEF b
<1>7. c \in Bytes
  <2>1. b \in Seq(Nat)
    <3>1. \A i \in 1..Len(b) : b[i] \in Nat
      BY <1>5, ByteIs
    <3> QED BY <1>5, <3>1
  <2>4. Len(b) \in Nat /\ Len(b) \in 0..Len(b)
    BY <1>1, <1>5
  <2>2. Sums(b) \in [0..Len(b) -> Nat] /\ Total(b) = Sums(b)[Len(b)] /\ Len(b) \in 0..Len(b)
    BY <2>1, <2>4, SumsStep
  <2>3. Total(b) \in Nat
    BY <2>2
  <2> QED BY <2>3, CompletingIs
<1> HIDE DEF c
<1>8. e \in Seq(Units) /\ Len(e) = 2 /\ e[1] = c /\ e[2] = Eol
  BY <1>7, ByteIs
<1> HIDE DEF e
<1>9. b \in Seq(Units) /\ \A i \in 1..Len(b) : b[i] \in Bytes
  <2>1. \A i \in 1..Len(b) : b[i] \in Bytes /\ b[i] \in Units
    BY <1>5, ByteIs
  <2> QED BY <1>5, <2>1
<1> DEFINE n == Line(r)
<1>10. /\ n \in Seq(Units) /\ Len(n) = l + 6
       /\ (\A i \in 1..l + 4 : n[i] = b[i]) /\ n[l + 5] = c /\ n[l + 6] = Eol
  <2>1. n = b \o e
    BY <1>6
  <2> HIDE DEF n
  <2>5. b \in Seq(Units) /\ e \in Seq(Units)
    BY <1>8, <1>9
  <2>2. /\ n \in Seq(Units) /\ Len(n) = Len(b) + Len(e)
        /\ \A i \in 1..Len(b) : n[i] = b[i]
        /\ \A i \in 1..Len(e) : n[Len(b) + i] = e[i]
    BY <2>1, <2>5, Joined
  <2>3. Len(b) + Len(e) = l + 6 /\ Len(b) + 1 = l + 5 /\ Len(b) + 2 = l + 6
    BY <1>1, <1>5, <1>8
  <2>4. n[Len(b) + 1] = e[1] /\ n[Len(b) + 2] = e[2]
    BY <1>8, <2>2
  <2> QED BY <1>5, <1>8, <2>2, <2>3, <2>4
<1> HIDE DEF n
<1>11. n[1] = l /\ n[2] = hi /\ n[3] = lo /\ n[4] = 0
  <2>1. 1 \in 1..l + 4 /\ 2 \in 1..l + 4 /\ 3 \in 1..l + 4 /\ 4 \in 1..l + 4
    BY <1>1
  <2> QED BY <1>5, <1>10, <2>1
<1>12. \A i \in 1..l : n[4 + i] = d[i]
  <2>1. \A i \in 1..l : 4 + i \in 1..l + 4
    BY <1>1
  <2> QED BY <1>5, <1>10, <2>1
<1>13. \A i \in 1..(l + 5) : n[i] \in Bytes
  <2>1. \A i \in 1..(l + 5) : i = l + 5 \/ i \in 1..l + 4
    BY <1>1
  <2> QED BY <1>5, <1>7, <1>9, <1>10, <2>1
<1> QED BY <1>1, <1>5, <1>10, <1>11, <1>12, <1>13 DEF LineOf, n, l, d, hi, lo, b, c

Start(p, k) == Len(Chunks(p)[k])

LEMMA ChunksOf ==
  ASSUME NEW p, IsProgram(p)
  PROVE  /\ Chunks(p) \in [0..Len(p) -> Seq(Units)] /\ Chunks(p)[0] = <<>>
         /\ Text(p) = Chunks(p)[Len(p)] \o <<0, 0, 0, 1, 255>>
         /\ \A n \in 1..Len(p) : Chunks(p)[n] = Chunks(p)[n - 1] \o Line(p[n])
<1>1. Len(p) \in Nat /\ \A n \in 1..Len(p) : Line(p[n]) \in Seq(Units)
  BY LineIs DEF IsProgram, LineOf
<1> QED BY <1>1, ChunksStep

(* What was written first stays where it is.                               *)
LEMMA ChunkKept ==
  ASSUME NEW p, IsProgram(p), NEW k \in 0..Len(p), NEW n \in k..Len(p)
  PROVE  /\ Start(p, k) \in Nat /\ Start(p, n) \in Nat /\ Start(p, k) <= Start(p, n)
         /\ \A x \in 1..Start(p, k) : Chunks(p)[n][x] = Chunks(p)[k][x]
<1> DEFINE L == Len(p)
           c == Chunks(p)
           Good(m) == Len(c[k]) <= Len(c[m]) /\ \A x \in 1..Len(c[k]) : c[m][x] = c[k][x]
           S == {m \in 1..L : m >= k /\ ~ Good(m)}
           q == CHOOSE i \in S : \A m \in S : i <= m
<1>1. L \in Nat /\ k \in 0..L /\ n \in 0..L
  BY DEF IsProgram
<1>2. /\ c \in [0..L -> Seq(Units)] /\ \A m \in 1..L : c[m] = c[m - 1] \o Line(p[m])
  BY ChunksOf
<1>3. \A m \in 1..L : Line(p[m]) \in Seq(Units)
  BY LineIs DEF IsProgram, LineOf
<1> HIDE DEF L, c
<1>4. \A m \in 0..L : c[m] \in Seq(Units) /\ Len(c[m]) \in Nat
  BY <1>2
<1>5. Good(k)
  <2>1. Len(c[k]) \in Nat
    BY <1>1, <1>4
  <2> QED BY <2>1
<1>6. S = {}
  <2> SUFFICES ASSUME S # {} PROVE FALSE
    OBVIOUS
  <2>1. k \in Int
    BY <1>1
  <2>2. q \in S /\ \A m \in S : q <= m
    BY <1>1, Least
  <2> HIDE DEF q
  <2>3. q \in 1..L /\ q >= k /\ ~ Good(q) /\ ~ (q <= q - 1)
    BY <2>2
  <2>4. q # k
    BY <1>5, <2>3
  <2>5. q - 1 \in 0..L /\ q - 1 >= k
    BY <1>1, <2>3, <2>4
  <2>6. Good(q - 1)
    <3>1. CASE q = 1
      <4>1. k = q - 1
        BY <1>1, <2>5, <3>1
      <4> HIDE DEF Good
      <4> QED BY <1>5, <4>1
    <3>2. CASE q # 1
      <4>1. q - 1 \in 1..L
        BY <1>1, <2>3, <3>2
      <4> HIDE DEF Good
      <4> QED BY <2>2, <2>3, <2>5, <4>1
    <3> QED BY <3>1, <3>2
  <2> DEFINE a == c[k]
             y == c[q - 1]
             l == Line(p[q])
             z == c[q]
  <2>7. z = y \o l /\ a \in Seq(Units) /\ y \in Seq(Units) /\ l \in Seq(Units)
    BY <1>1, <1>2, <1>3, <1>4, <2>3, <2>5
  <2>8. Len(a) <= Len(y) /\ \A x \in 1..Len(a) : y[x] = a[x]
    BY <2>6
  <2>9. ~(Len(a) <= Len(z) /\ \A x \in 1..Len(a) : z[x] = a[x])
    BY <2>3
  <2> HIDE DEF a, y, l, z
  <2>10. Len(z) = Len(y) + Len(l) /\ Len(l) \in Nat /\ Len(y) \in Nat /\ Len(a) \in Nat
         /\ \A x \in 1..Len(y) : z[x] = y[x]
    BY <2>7
  <2>11. \A x \in 1..Len(a) : x \in 1..Len(y)
    BY <2>8, <2>10
  <2> QED BY <2>8, <2>9, <2>10, <2>11
<1>7. Good(n)
  <2>1. CASE n = 0
    <3>1. k = n
      BY <1>1, <2>1
    <3> HIDE DEF Good
    <3> QED BY <1>5, <3>1
  <2>2. CASE n # 0
    <3>1. n \in 1..L /\ n >= k
      BY <1>1, <2>2
    <3> HIDE DEF Good
    <3> QED BY <1>6, <3>1
  <2> QED BY <2>1, <2>2
<1> QED BY <1>1, <1>4, <1>7 DEF Start, c

(* Where a program's records and its end lie in its text.                  *)
RecordIn(p, k) ==
  LET b == Start(p, k - 1)
      l == Len(p[k].data)
  IN  /\ b \in Nat /\ l \in Nat /\ Start(p, k) = (b + l) + 6 /\ Start(p, k) + 5 <= Len(Text(p))
      /\ \A i \in 1..l + 6 : Text(p)[b + i] = Line(p[k])[i]

EndIn(p) ==
  LET e == Start(p, Len(p))
  IN  /\ Text(p) \in Seq(Units) /\ e \in Nat /\ Len(Text(p)) = e + 5
      /\ Text(p)[e + 1] = 0 /\ Text(p)[e + 2] = 0 /\ Text(p)[e + 3] = 0 /\ Text(p)[e + 4] = 1
      /\ Text(p)[e + 5] = 255

LEMMA EndLies ==
  ASSUME NEW p, IsProgram(p)
  PROVE  /\ EndIn(p)
         /\ \A x \in 1..Start(p, Len(p)) : Text(p)[x] = Chunks(p)[Len(p)][x]
<1> DEFINE L == Len(p)
           c == Chunks(p)[L]
           t == <<0, 0, 0, 1, 255>>
           T == Text(p)
<1>1. L \in Nat
  BY DEF IsProgram
<1>2. c \in Seq(Units) /\ T = c \o t
  <2>1. L \in 0..L
    BY <1>1
  <2> QED BY <2>1, ChunksOf, ZenonT(40)
<1>3. Start(p, L) = Len(c)
  BY DEF Start
<1>4. t \in Seq(Units) /\ Len(t) = 5 /\ t[1] = 0 /\ t[2] = 0 /\ t[3] = 0 /\ t[4] = 1 /\ t[5] = 255
  <2>1. 0 \in Units /\ 1 \in Units /\ 255 \in Units
    BY DEF Units
  <2> QED BY <2>1
<1> HIDE DEF L, c, t, T
<1>5. /\ T \in Seq(Units) /\ Len(T) = Len(c) + Len(t)
      /\ \A i \in 1..Len(c) : T[i] = c[i]
      /\ \A i \in 1..Len(t) : T[Len(c) + i] = t[i]
  <2>1. c \in Seq(Units) /\ t \in Seq(Units)
    BY <1>2, <1>4
  <2>2. T = c \o t
    BY <1>2
  <2> QED BY <2>1, <2>2, Joined
<1>6. \A i \in 1..5 : T[Len(c) + i] = t[i]
  BY <1>4, <1>5
<1>7. Len(c) \in Nat
  BY <1>2
<1> QED BY <1>3, <1>4, <1>5, <1>6, <1>7 DEF EndIn, L, T, c

LEMMA RecordsLie ==
  ASSUME NEW p, IsProgram(p), NEW k \in 1..Len(p)
  PROVE  RecordIn(p, k)
<1> DEFINE L == Len(p)
           c == Chunks(p)[k - 1]
           d == Chunks(p)[k]
           n == Line(p[k])
           l == Len(p[k].data)
           T == Text(p)
<1>1. L \in Nat /\ k \in 0..L /\ k - 1 \in 0..L /\ L \in k..L
  BY DEF IsProgram
<1>2. c \in Seq(Units) /\ d = c \o n
  BY <1>1, ChunksOf, ZenonT(40)
<1>3. n \in Seq(Units) /\ Len(n) = l + 6 /\ l \in Nat
  <2>1. LineOf(p[k]) /\ \A x \in Bytes : x \in Nat
    BY LineIs, ByteIs DEF IsProgram
  <2> QED BY <2>1 DEF LineOf
<1>4. Start(p, k - 1) = Len(c) /\ Start(p, k) = Len(d)
  BY DEF Start
<1>5. EndIn(p) /\ \A x \in 1..Start(p, L) : T[x] = Chunks(p)[L][x]
  BY EndLies
<1>6. /\ Start(p, k) <= Start(p, L) /\ Start(p, k) \in Nat /\ Start(p, L) \in Nat
      /\ \A x \in 1..Start(p, k) : Chunks(p)[L][x] = d[x]
  BY <1>1, ChunkKept
<1> HIDE DEF c, d, n, l, T, L
<1>7. /\ Len(d) = Len(c) + Len(n)
      /\ \A i \in 1..Len(n) : d[Len(c) + i] = n[i]
  <2>1. c \in Seq(Units) /\ n \in Seq(Units)
    BY <1>2, <1>3
  <2>2. d = c \o n
    BY <1>2
  <2> QED BY <2>1, <2>2, Joined
<1>8. Len(c) \in Nat
  BY <1>2
<1>9. Len(d) = (Len(c) + l) + 6
  BY <1>3, <1>7, <1>8
<1>10. \A i \in 1..l + 6 : T[Len(c) + i] = n[i]
  <2> SUFFICES ASSUME NEW i \in 1..l + 6 PROVE T[Len(c) + i] = n[i]
    OBVIOUS
  <2> DEFINE x == Len(c) + i
             e == Start(p, L)
             f == Start(p, k)
  <2>1. x \in 1..f
    BY <1>3, <1>4, <1>8, <1>9
  <2>2. f <= e /\ f \in Nat /\ e \in Nat
    BY <1>6
  <2> HIDE DEF x, e, f
  <2>3. x \in 1..e
    BY <2>1, <2>2
  <2>4. T[x] = d[x]
    BY <1>5, <1>6, <2>1, <2>3 DEF e, f
  <2> QED BY <1>3, <1>7, <2>4 DEF x
<1>11. Start(p, k) + 5 <= Len(T)
  <2>1. Len(T) = Start(p, L) + 5
    BY <1>5 DEF EndIn, L, T
  <2> QED BY <1>6, <2>1
<1> QED BY <1>3, <1>4, <1>8, <1>9, <1>10, <1>11 DEF RecordIn, c, d, n, l, T

(* Each record begins with its length, and has its type three units on.    *)
LEMMA FramesAre ==
  ASSUME NEW p, IsProgram(p), NEW k \in 0..Len(p)
  PROVE  /\ Start(p, k) \in Nat /\ Start(p, k) + 5 <= Len(Text(p))
         /\ Start(p, k) + 1 \in FramingUnits(Text(p))
         /\ Start(p, k) + 4 \in FramingUnits(Text(p))
<1> DEFINE T == Text(p)
           b == Start(p, k)
           Ends == {j \in DOMAIN T : T[j] = Eol}
<1>1. Len(p) \in Nat /\ T \in Seq(Units)
  BY EndLies DEF IsProgram, EndIn
<1>2. b \in Nat /\ b + 5 <= Len(T) /\ (b = 0 \/ b \in Ends)
  <2>1. CASE k = 0
    <3>1. b = 0
      <4>1. Chunks(p)[0] = <<>>
        BY ChunksOf
      <4>2. Len(<<>>) = 0
        OBVIOUS
      <4> QED BY <2>1, <4>1, <4>2 DEF Start
    <3>2. /\ Start(p, Len(p)) \in Nat /\ Len(T) = Start(p, Len(p)) + 5
      BY EndLies DEF EndIn
    <3> QED BY <3>1, <3>2
  <2>2. CASE k # 0
    <3>1. k \in 1..Len(p)
      BY <1>1, <2>2
    <3> DEFINE r == p[k]
               l == Len(r.data)
               a == Start(p, k - 1)
    <3>2. /\ a \in Nat /\ l \in Nat /\ b = (a + l) + 6 /\ b + 5 <= Len(T)
          /\ \A i \in 1..l + 6 : T[a + i] = Line(r)[i]
      BY <3>1, RecordsLie DEF RecordIn
    <3>3. Line(r)[l + 6] = Eol
      BY <3>1, LineIs DEF IsProgram, LineOf
    <3> HIDE DEF a, b, l, T
    <3>4. l + 6 \in 1..l + 6 /\ a + (l + 6) = b /\ b \in Nat /\ b \in 1..Len(T)
      BY <1>1, <3>2
    <3>5. T[b] = Eol
      BY <3>2, <3>3, <3>4
    <3>6. DOMAIN T = 1..Len(T)
      BY <1>1
    <3> QED BY <3>2, <3>4, <3>5, <3>6
  <2> QED BY <2>1, <2>2
<1>3. b + 5 <= Len(T) /\ b \in Nat /\ DOMAIN T = 1..Len(T) /\ Len(T) \in Nat
  BY <1>1, <1>2
<1> HIDE DEF b, T
<1>4. b + 1 \in DOMAIN T /\ b + 4 \in DOMAIN T /\ (b + 1) + 3 = b + 4
  BY <1>3
<1>5. b + 1 \in {1} \cup {j + 1 : j \in Ends}
  BY <1>2, <1>3
<1> QED BY <1>2, <1>4, <1>5 DEF FramingUnits, b, T

(* What load_obj reads where it is.                                        *)
LEMMA AtIs ==
  ASSUME file.text \in Seq(Units)
  PROVE  /\ \A i : At(i) \in Bytes
         /\ \A i \in 1..Len(file.text) : file.text[i] # Eol => At(i) = file.text[i]
         /\ \A i : i \notin 1..Len(file.text) => At(i) = 0
<1> DEFINE t == file.text
<1>1. DOMAIN t = 1..Len(t) /\ \A i \in DOMAIN t : t[i] \in Units
  OBVIOUS
<1> HIDE DEF t
<1>2. 0 \in Bytes /\ \A x \in Units : x # Eol => x \in Bytes
  BY DEF Units, Bytes, Eol
<1>3. \A i : At(i) = IF i \in DOMAIN t /\ t[i] # Eol THEN t[i] ELSE 0
  BY DEF At, t
<1>4. \A i : At(i) \in Bytes
  BY <1>1, <1>2, <1>3
<1> QED BY <1>1, <1>3, <1>4 DEF t

(* The sum over a data record of l bytes, and the Eols after unit e.       *)
SumHere(l) == Total([i \in 1..(4 + l) |-> At(hexpos + i)])

EolsAfter(e) == {i \in DOMAIN file.text : i > e /\ file.text[i] = Eol}

LEMMA DataDoes ==
  ASSUME DataRecord, NEW l, l = At(hexpos + 1), NEW e, e = hexpos + 4 + l + 1
  PROVE  /\ At(e) # Completing(SumHere(l)) => result' = -4
         /\ At(e) = Completing(SumHere(l)) /\ EolsAfter(e) = {} => result' = -5
         /\ At(e) = Completing(SumHere(l)) /\ EolsAfter(e) # {} =>
              /\ result' = result
              /\ hexpos' = CHOOSE i \in EolsAfter(e) : \A j \in EolsAfter(e) : i <= j
<1> QED BY DEF DataRecord, SumHere, EolsAfter, Returns

(* The units of r's record are next.                                       *)
Faces(r) ==
  /\ file.text \in Seq(Units) /\ hexpos \in Nat
  /\ (hexpos + Len(r.data)) + 6 <= Len(file.text)
  /\ \A i \in 1..Len(r.data) + 6 : file.text[hexpos + i] = Line(r)[i]

Put(r) ==         \* r's data is in code memory, and all else stays
  /\ \A k \in DOMAIN r.data :
       r.addr + k - 1 \in DOMAIN hexcode' /\ hexcode'[r.addr + k - 1] = r.data[k]
  /\ \A a \in DOMAIN hexcode \ Cells(r) : a \in DOMAIN hexcode' /\ hexcode'[a] = hexcode[a]

LEMMA FacedUnits ==
  ASSUME NEW r, IsRecord(r), Faces(r)
  PROVE  /\ \A i \in 1..Len(r.data) + 5 : At(hexpos + i) = Line(r)[i]
         /\ (hexpos + Len(r.data)) + 6 \in EolsAfter(hexpos + 4 + Len(r.data) + 1)
         /\ \A i \in EolsAfter(hexpos + 4 + Len(r.data) + 1) : (hexpos + Len(r.data)) + 6 <= i
<1> DEFINE l == Len(r.data)
           t == file.text
           n == Line(r)
           b == hexpos
<1>1. t \in Seq(Units) /\ b \in Nat /\ (b + l) + 6 <= Len(t) /\ \A i \in 1..l + 6 : t[b + i] = n[i]
  BY DEF Faces
<1>2. /\ l \in Nat /\ n[l + 6] = Eol
      /\ \A i \in 1..l + 5 : n[i] # Eol
  <2>1. LineOf(r)
    BY LineIs
  <2> QED BY <2>1, ByteIs DEF LineOf
<1>3. \A i \in 1..Len(t) : t[i] # Eol => At(i) = t[i]
  BY <1>1, AtIs
<1> HIDE DEF l, t, n, b
<1>4. \A i \in 1..l + 5 : At(b + i) = n[i]
  <2> SUFFICES ASSUME NEW i \in 1..l + 5 PROVE At(b + i) = n[i]
    OBVIOUS
  <2>1. i \in 1..l + 6 /\ b + i \in 1..Len(t)
    BY <1>1, <1>2
  <2> QED BY <1>1, <1>2, <1>3, <2>1
<1>5. /\ (b + l) + 6 \in DOMAIN t /\ t[(b + l) + 6] = Eol
      /\ (b + l) + 6 > b + 4 + l + 1
      /\ \A i \in DOMAIN t : i > b + 4 + l + 1 => (b + l) + 6 <= i
  <2>1. l + 6 \in 1..l + 6 /\ b + (l + 6) = (b + l) + 6
    BY <1>1, <1>2
  <2>2. DOMAIN t = 1..Len(t) /\ Len(t) \in Nat
    BY <1>1
  <2> QED BY <1>1, <1>2, <2>1, <2>2
<1> QED BY <1>4, <1>5 DEF EolsAfter, l, t, n, b

LEMMA Written ==
  ASSUME NEW r, IsRecord(r), DataRecord, hexpos \in Nat,
         \A i \in 1..Len(r.data) + 5 : At(hexpos + i) = Line(r)[i]
  PROVE  Put(r)
<1> DEFINE l == Len(r.data)
           n == Line(r)
           b == hexpos
           a == r.addr
<1>1. /\ l \in Nat /\ n[1] = l /\ n[2] = a \div 256 /\ n[3] = a % 256
      /\ \A i \in 1..l : n[4 + i] = r.data[i]
  <2>1. LineOf(r)
    BY LineIs
  <2> QED BY <2>1, ByteIs DEF LineOf
<1>2. a \in Nat /\ DOMAIN r.data = 1..l
  BY DEF IsRecord
<1>3. \A i \in 1..l + 5 : At(b + i) = n[i]
  OBVIOUS
<1> DEFINE addr == 256 * At(b + 2) + At(b + 3)
           l1 == At(b + 1)
           span == addr..(addr + l1 - 1)
<1>4. hexcode' = [c \in DOMAIN hexcode \cup span |->
                   IF c \in span THEN At(b + 5 + c - addr) ELSE hexcode[c]]
  BY DEF DataRecord
<1> HIDE DEF l, n, b, a
<1>5. b \in Nat
  BY DEF b
<1>6. addr = a /\ l1 = l
  <2>1. 1 \in 1..l + 5 /\ 2 \in 1..l + 5 /\ 3 \in 1..l + 5
    BY <1>1
  <2>2. At(b + 1) = l /\ At(b + 2) = a \div 256 /\ At(b + 3) = a % 256
    BY <1>1, <1>3, <2>1
  <2>3. a = 256 * (a \div 256) + (a % 256)
    BY <1>2, Division
  <2> QED BY <2>2, <2>3
<1> HIDE DEF addr, l1
<1>7. span = a..(a + l - 1)
  BY <1>6
<1>8. span = Cells(r)
  BY <1>7 DEF Cells, a, l
<1> HIDE DEF span
<1>9. ASSUME NEW k \in 1..l
      PROVE  a + k - 1 \in DOMAIN hexcode' /\ hexcode'[a + k - 1] = r.data[k]
  <2> DEFINE c == a + k - 1
             u == b + 5 + c - addr
  <2>1. c \in span
    BY <1>1, <1>2, <1>7, <1>9
  <2>2. u = b + (4 + k) /\ 4 + k \in 1..l + 5
    BY <1>1, <1>2, <1>5, <1>6
  <2> HIDE DEF c
  <2>3. hexcode'[c] = At(u) /\ c \in DOMAIN hexcode'
    BY <1>4, <2>1
  <2> HIDE DEF u
  <2>4. At(u) = r.data[k]
    BY <1>1, <1>3, <2>2
  <2> QED BY <2>3, <2>4 DEF c
<1>10. \A c \in DOMAIN hexcode \ span : c \in DOMAIN hexcode' /\ hexcode'[c] = hexcode[c]
  BY <1>4
<1> QED BY <1>2, <1>8, <1>9, <1>10 DEF Put, a

LEMMA ReadsRecord ==
  ASSUME NEW r, IsRecord(r), Faces(r), DataRecord
  PROVE  /\ hexpos' = (hexpos + Len(r.data)) + 6 /\ result' = result
         /\ Put(r)
<1> DEFINE l == Len(r.data)
           n == Line(r)
           b == hexpos
           P == Payload(r)
           e == b + 4 + l + 1
           E == EolsAfter(e)
           x == (b + l) + 6
           u == [i \in 1..(4 + l) |-> At(b + i)]
<1>1. b \in Nat
  BY DEF Faces
<1>2. /\ \A i \in 1..l + 5 : At(b + i) = n[i]
      /\ x \in E /\ \A i \in E : x <= i
  BY FacedUnits
<1>3. /\ l \in Nat /\ n[1] = l /\ n[l + 5] = Completing(Total(P))
      /\ P \in Seq(Bytes) /\ Len(P) = l + 4 /\ \A i \in 1..l + 4 : P[i] = n[i]
  <2>1. LineOf(r)
    BY LineIs
  <2> QED BY <2>1, ByteIs DEF LineOf
<1>4. SumHere(l) = Total(u)
  BY DEF SumHere
<1>5. \A i \in E : i \in Int
  <2>1. file.text \in Seq(Units)
    BY DEF Faces
  <2> QED BY <2>1 DEF EolsAfter
<1> HIDE DEF l, n, P, E, b
<1>6. u = P
  <2>1. 4 + l = l + 4 /\ \A i \in 1..l + 4 : i \in 1..l + 5
    BY <1>3
  <2>2. u = [i \in 1..l + 4 |-> At(b + i)] /\ \A i \in 1..l + 4 : At(b + i) = P[i]
    BY <1>2, <1>3, <2>1
  <2>3. P = [i \in 1..l + 4 |-> P[i]]
    BY <1>3
  <2> HIDE DEF u
  <2> QED BY <2>2, <2>3
<1>7. At(e) = Completing(SumHere(l))
  <2>1. e = b + (l + 5) /\ l + 5 \in 1..l + 5
    BY <1>1, <1>3
  <2> QED BY <1>2, <1>3, <1>4, <1>6, <2>1
<1>8. l = At(b + 1)
  <2>1. 1 \in 1..l + 5
    BY <1>3
  <2> QED BY <1>2, <1>3, <2>1
<1> DEFINE m == CHOOSE i \in E : \A j \in E : i <= j
<1>9. result' = result /\ hexpos' = m
  <2>1. e = hexpos + 4 + l + 1 /\ l = At(hexpos + 1) /\ E = EolsAfter(e)
    BY <1>8 DEF b, E
  <2> HIDE DEF e
  <2>2. At(e) = Completing(SumHere(l)) /\ EolsAfter(e) # {}
    BY <1>2, <1>7, <2>1
  <2> QED BY <2>1, <2>2, DataDoes
<1>10. m = x
  <2>1. m \in E /\ \A j \in E : m <= j
    BY <1>2
  <2> HIDE DEF m, x
  <2>2. m <= x /\ x <= m /\ m \in Int /\ x \in Int
    BY <1>2, <1>5, <2>1
  <2> QED BY <2>2
<1>11. Put(r)
  <2>1. hexpos \in Nat /\ \A i \in 1..Len(r.data) + 5 : At(hexpos + i) = Line(r)[i]
    BY <1>1, <1>2 DEF b, l, n
  <2> QED BY <2>1, Written
<1> QED BY <1>9, <1>10, <1>11 DEF b, l

(* Sums that differ by less than 256 take different bytes to complete.     *)
LEMMA CompletingTells ==
  ASSUME NEW x \in Nat, NEW d \in Int, -256 < d, d < 256, d # 0, x + d \in Nat
  PROVE  Completing(x + d) # Completing(x)
<1> DEFINE N == 256
           y == x + d
           r == x % N
           s == y % N
<1>1. N \in Nat \ {0} /\ 0 - N < d /\ d < N
  OBVIOUS
<1>2. y \in Nat
  OBVIOUS
<1>3. Completing(x) = (N - r) % N /\ Completing(y) = (N - s) % N
  BY DEF Completing
<1>4. N % N = 0
  OBVIOUS
<1> HIDE DEF N
<1>5. r \in 0..N - 1 /\ s \in 0..N - 1
  BY <1>1, <1>2, Division
<1>6. s # r
  <2>1. s = (r + d) % N
    <3>1. x \in Int
      OBVIOUS
    <3> QED BY <1>1, <3>1, WholeTurns
  <2>2. d \in 1 - N..N - 1
    BY <1>1
  <2> HIDE DEF r, s
  <2> QED BY <1>1, <1>5, <2>1, <2>2, PartOfTurn
<1> HIDE DEF r, s, y
<1>7. ASSUME NEW q \in 0..N - 1 PROVE (N - q) % N = IF q = 0 THEN 0 ELSE N - q
  <2>1. CASE q = 0
    <3>1. N - q = N
      BY <1>1, <2>1
    <3> QED BY <1>4, <2>1, <3>1
  <2>2. CASE q # 0
    <3> DEFINE z == N - q
    <3>1. z \in 0..N - 1
      BY <1>1, <2>2
    <3> HIDE DEF z
    <3>2. z % N = z
      BY <1>1, <3>1, WithinTurn
    <3> QED BY <2>2, <3>2 DEF z
  <2> QED BY <2>1, <2>2
<1>8. (N - s) % N # (N - r) % N
  <2>1. (IF s = 0 THEN 0 ELSE N - s) # (IF r = 0 THEN 0 ELSE N - r)
    BY <1>1, <1>5, <1>6
  <2> QED BY <1>5, <1>7, <2>1
<1> QED BY <1>3, <1>8 DEF y

(* A record with a byte altered, its length and type aside, is refused.    *)
LEMMA AlteredRecord ==
  ASSUME NEW r, IsRecord(r), DataRecord, hexpos \in Nat,
         NEW j \in 1..Len(r.data) + 5, j # 1, NEW x \in Bytes, x # Line(r)[j],
         \A i \in 1..Len(r.data) + 5 : At(hexpos + i) = IF i = j THEN x ELSE Line(r)[i]
  PROVE  result' = -4
<1> DEFINE l == Len(r.data)
           n == Line(r)
           b == hexpos
           P == Payload(r)
           e == b + 4 + l + 1
           u == [i \in 1..(4 + l) |-> At(b + i)]
<1>1. \A i \in 1..l + 5 : At(b + i) = IF i = j THEN x ELSE n[i]
  OBVIOUS
<1>2. /\ l \in Nat /\ n[1] = l /\ n[l + 5] = Completing(Total(P))
      /\ P \in Seq(Bytes) /\ Len(P) = l + 4 /\ (\A i \in 1..l + 4 : P[i] = n[i])
      /\ \A i \in 1..l + 5 : n[i] \in Bytes
  <2>1. LineOf(r)
    BY LineIs
  <2> QED BY <2>1, ByteIs DEF LineOf
<1>3. SumHere(l) = Total(u)
  BY DEF SumHere
<1>4. b \in Nat /\ j \in 1..l + 5 /\ j # 1 /\ x # n[j] /\ x \in Nat /\ x <= 255
  BY ByteIs
<1> HIDE DEF l, n, P, b
<1>5. P \in Seq(Nat)
  <2>1. \A i \in 1..Len(P) : P[i] \in Nat
    BY <1>2, ByteIs
  <2> QED BY <1>2, <2>1
<1>6. Total(P) \in Nat
  <2>1. Len(P) \in 0..Len(P)
    BY <1>2
  <2>2. Sums(P) \in [0..Len(P) -> Nat] /\ Total(P) = Sums(P)[Len(P)]
    BY <1>5, SumsStep
  <2> QED BY <2>1, <2>2
<1>7. l = At(b + 1)
  <2>1. 1 \in 1..l + 5
    BY <1>2
  <2> QED BY <1>1, <1>2, <1>4, <2>1
<1>8. e = b + (l + 5) /\ l + 5 \in 1..l + 5
  BY <1>2, <1>4
<1>9. At(e) # Completing(SumHere(l))
  <2>1. CASE j = l + 5
    <3>1. u = P
      <4>1. 4 + l = l + 4 /\ \A i \in 1..l + 4 : i \in 1..l + 5 /\ i # j
        BY <1>2, <2>1
      <4>2. u = [i \in 1..l + 4 |-> At(b + i)] /\ \A i \in 1..l + 4 : At(b + i) = P[i]
        BY <1>1, <1>2, <4>1
      <4>3. P = [i \in 1..l + 4 |-> P[i]]
        BY <1>2
      <4> HIDE DEF u
      <4> QED BY <4>2, <4>3
    <3>2. At(e) = x
      BY <1>1, <1>8, <2>1
    <3> QED BY <1>2, <1>3, <1>4, <2>1, <3>1, <3>2
  <2>2. CASE j # l + 5
    <3>1. j \in 1..l + 4 /\ j \in 1..Len(P) /\ DOMAIN P = 1..l + 4
      BY <1>2, <1>4, <2>2
    <3> DEFINE Q == [P EXCEPT ![j] = x]
               y == P[j]
               S == Total(P)
               d == x - y
    <3>2. u = Q
      <4>1. 4 + l = l + 4 /\ \A i \in 1..l + 4 : i \in 1..l + 5
        BY <1>2
      <4>2. /\ u = [i \in 1..l + 4 |-> At(b + i)]
            /\ \A i \in 1..l + 4 : At(b + i) = IF i = j THEN x ELSE P[i]
        BY <1>1, <1>2, <4>1
      <4>3. Q = [i \in 1..l + 4 |-> IF i = j THEN x ELSE P[i]]
        <5>1. P = [i \in 1..l + 4 |-> P[i]]
          BY <1>2
        <5> QED BY <3>1, <5>1
      <4> HIDE DEF u, Q
      <4> QED BY <4>2, <4>3
    <3>3. Total(Q) = (S - y) + x
      BY <1>4, <1>5, <3>1, OneOff
    <3>4. y \in Nat /\ y <= 255 /\ y # x
      <4>1. y \in Bytes /\ y # x
        BY <1>2, <1>4, <3>1
      <4> QED BY <4>1, ByteIs
    <3>5. At(e) = Completing(S)
      BY <1>1, <1>2, <1>8, <2>2
    <3>6. Total(Q) \in Nat
      <4>1. Q \in Seq(Nat)
        BY <1>4, <1>5, <3>1
      <4> HIDE DEF Q
      <4>2. Len(Q) \in 0..Len(Q)
        BY <4>1
      <4>3. Sums(Q) \in [0..Len(Q) -> Nat] /\ Total(Q) = Sums(Q)[Len(Q)]
        BY <4>1, SumsStep
      <4> QED BY <4>2, <4>3
    <3> HIDE DEF Q, y, S
    <3>7. /\ S \in Nat /\ d \in Int /\ -256 < d /\ d < 256 /\ d # 0 /\ S + d = Total(Q)
      BY <1>4, <1>6, <3>3, <3>4 DEF S
    <3> HIDE DEF d
    <3>8. Completing(S + d) # Completing(S)
      BY <3>6, <3>7, CompletingTells
    <3> QED BY <1>3, <3>2, <3>5, <3>7, <3>8
  <2> QED BY <2>1, <2>2
<1>10. e = hexpos + 4 + l + 1 /\ l = At(hexpos + 1)
  BY <1>7 DEF b
<1> HIDE DEF e
<1> QED BY <1>9, <1>10, DataDoes

(* Where nothing marks the end of a record, the record is refused.         *)
LEMMA EndlessRecord ==
  ASSUME Record, file.text \in Seq(Units), hexpos \in Nat, At(hexpos + 4) # 1,
         \A i \in DOMAIN file.text : i > hexpos + 5 => file.text[i] # Eol
  PROVE  result' \in {-3, -4, -5}
<1>1. CASE EndRecord
  BY <1>1 DEF EndRecord
<1>2. CASE OtherRecord
  BY <1>2 DEF OtherRecord, Returns
<1>3. CASE DataRecord
  <2> DEFINE l == At(hexpos + 1)
             e == hexpos + 4 + l + 1
  <2>1. l \in Nat
    BY AtIs, ByteIs
  <2>2. EolsAfter(e) = {}
    <3>1. \A i \in DOMAIN file.text : i \in Nat
      OBVIOUS
    <3> HIDE DEF l
    <3>2. \A i \in Nat : i > e => i > hexpos + 5
      BY <2>1
    <3> HIDE DEF e
    <3> QED BY <3>1, <3>2 DEF EolsAfter
  <2> HIDE DEF l, e
  <2>3. l = At(hexpos + 1) /\ e = hexpos + 4 + l + 1
    BY DEF l, e
  <2>4. result' = -4 \/ result' = -5
    BY <1>3, <2>2, <2>3, DataDoes
  <2> QED BY <2>4
<1> QED BY <1>1, <1>2, <1>3 DEF Record

(* The units of a text cut short.                                          *)
LEMMA CutIs ==
  ASSUME NEW T \in Seq(Units), NEW n \in 0..Len(T) - 1, NEW half \in BOOLEAN
  PROVE  LET F == Cut(T, n, half)
         IN  /\ F \in Seq(Units) /\ n <= Len(F) /\ Len(F) <= n + 1
             /\ \A i \in 1..n : F[i] = T[i]
             /\ Len(F) = n + 1 => F[n + 1] # Eol /\ (T[n + 1] = 0 => F[n + 1] = 0)
<1> DEFINE F == Cut(T, n, half)
           s == SubSeq(T, 1, n)
           v == T[n + 1]
           h == v \div 16
           t == IF v = Eol THEN <<>> ELSE <<h>>
<1>1. Len(T) \in Nat /\ n \in Nat /\ n + 1 \in 1..Len(T)
  OBVIOUS
<1>2. s \in Seq(Units) /\ Len(s) = n /\ \A i \in 1..n : s[i] = T[i]
  <2>1. \A i \in 1..n : T[i] \in Units
    OBVIOUS
  <2>2. s = [i \in 1..n |-> T[i]]
    OBVIOUS
  <2> HIDE DEF s
  <2> QED BY <1>1, <2>1, <2>2
<1>3. v \in Units
  BY <1>1
<1>4. F = IF half THEN s \o t ELSE s
  BY DEF Cut
<1> HIDE DEF F, s
<1>5. v # Eol => h \in Bytes /\ (v = 0 => h = 0)
  <2> SUFFICES ASSUME v # Eol PROVE h \in Bytes /\ (v = 0 => h = 0)
    OBVIOUS
  <2> HIDE DEF v
  <2>1. v \in Nat /\ v <= 255
    BY <1>3 DEF Units, Eol
  <2> DEFINE m == v % 16
  <2>2. h \in Nat /\ m \in 0..16 - 1 /\ v = 16 * h + m
    <3>1. 16 \in Nat \ {0}
      OBVIOUS
    <3> QED BY <2>1, <3>1, Division
  <2> HIDE DEF h, m
  <2>3. h <= 255 /\ (v = 0 => h = 0)
    BY <2>1, <2>2
  <2> QED BY <2>2, <2>3, ByteIs
<1> HIDE DEF v, h
<1>6. /\ t \in Seq(Units) /\ Len(t) \in {0, 1}
      /\ Len(t) = 1 => t[1] # Eol /\ (v = 0 => t[1] = 0)
  <2>1. CASE v = Eol
    BY <2>1
  <2>2. CASE v # Eol
    <3>1. h \in Units /\ h # Eol
      BY <1>5, <2>2, ByteIs
    <3> QED BY <1>5, <2>2, <3>1
  <2> QED BY <2>1, <2>2
<1> HIDE DEF t
<1>7. CASE half
  <2>1. s \in Seq(Units) /\ t \in Seq(Units)
    BY <1>2, <1>6
  <2>2. F = s \o t
    BY <1>4, <1>7
  <2>3. /\ F \in Seq(Units) /\ Len(F) = Len(s) + Len(t)
        /\ \A i \in 1..Len(s) : F[i] = s[i]
        /\ \A i \in 1..Len(t) : F[Len(s) + i] = t[i]
    BY <2>1, <2>2, Joined
  <2>4. n <= Len(F) /\ Len(F) <= n + 1 /\ (Len(F) = n + 1 => Len(t) = 1)
    BY <1>1, <1>2, <1>6, <2>3
  <2>5. Len(t) = 1 => F[n + 1] = t[1]
    BY <1>2, <2>3
  <2> QED BY <1>2, <1>6, <2>3, <2>4, <2>5 DEF F, v
<1>8. CASE ~ half
  <2>1. F = s
    BY <1>4, <1>8
  <2>2. Len(F) = n /\ n <= n + 1 /\ n # n + 1
    BY <1>1, <1>2, <2>1
  <2> QED BY <1>1, <1>2, <2>1, <2>2 DEF F
<1> QED BY <1>7, <1>8

(* What the file being read was made from.                                 *)
FileIs(p) ==
  LET T == Text(p)
  IN  \/ damage = "none" /\ file.text = T
      \/ damage = "frame"
      \/ /\ damage = "byte"
         /\ \E q \in DOMAIN T \ FramingUnits(T), x \in Bytes :
              T[q] # Eol /\ x # T[q] /\ file.text = [T EXCEPT ![q] = x]
      \/ /\ damage = "cut"
         /\ \E n \in 0..Len(T) - 1, half \in BOOLEAN : file.text = Cut(T, n, half)

(* The record after the k-th is whole.                                     *)
LEMMA Unaltered ==
  ASSUME NEW p, IsProgram(p), NEW k \in 0..Len(p) - 1, hexpos = Start(p, k),
         file.text \in Seq(Units), Start(p, k + 1) <= Len(file.text),
         \A i \in hexpos + 1..Start(p, k + 1) : file.text[i] = Text(p)[i]
  PROVE  IsRecord(p[k + 1]) /\ Faces(p[k + 1])
<1> DEFINE m == k + 1
           r == p[m]
           l == Len(r.data)
           e == Start(p, m)
           T == Text(p)
           F == file.text
           b == hexpos
<1>1. m \in 1..Len(p) /\ m - 1 = k
  BY DEF IsProgram
<1>2. IsRecord(r)
  BY <1>1 DEF IsProgram
<1>3. /\ b \in Nat /\ l \in Nat /\ e = (b + l) + 6 /\ \A i \in 1..l + 6 : T[b + i] = Line(r)[i]
  <2>1. Start(p, m - 1) = b
    BY <1>1
  <2>2. RecordIn(p, m)
    BY <1>1, RecordsLie
  <2> HIDE DEF m
  <2> QED BY <2>1, <2>2 DEF RecordIn
<1>4. e <= Len(F) /\ F \in Seq(Units) /\ \A i \in b + 1..e : F[i] = T[i]
  OBVIOUS
<1> HIDE DEF l, e, T, F, b, r
<1>5. \A i \in 1..l + 6 : b + i \in b + 1..e
  BY <1>3
<1>6. \A i \in 1..l + 6 : F[b + i] = Line(r)[i]
  BY <1>3, <1>4, <1>5
<1>7. Faces(r)
  BY <1>3, <1>4, <1>6 DEF Faces, F, b, l
<1> QED BY <1>2, <1>7 DEF r

LEMMA FacesData ==
  ASSUME NEW r, IsRecord(r), Faces(r), Record
  PROVE  DataRecord
<1>1. 4 \in 1..Len(r.data) + 5 /\ Line(r)[4] = 0
  <2>1. LineOf(r)
    BY LineIs
  <2>2. Len(r.data) \in Nat
    BY <2>1, ByteIs DEF LineOf
  <2> QED BY <2>1, <2>2 DEF LineOf
<1>2. At(hexpos + 4) = 0
  BY <1>1, FacedUnits
<1> QED BY <1>2 DEF Record, EndRecord, OtherRecord

(* The k-th record, as it was written and read or refused.                 *)
Reads(p, k) == k + 1 \in 1..Len(p) /\ IsRecord(p[k + 1]) /\ Faces(p[k + 1])

Ends(p, k) == k = Len(p) /\ At(hexpos + 4) = 1

Refuses == result' \in {-3, -4, -5} /\ damage # "none"

LEMMA UndamagedStep ==
  ASSUME NEW p, IsProgram(p), file.text = Text(p),
         NEW k \in 0..Len(p), hexpos = Start(p, k)
  PROVE  Reads(p, k) \/ Ends(p, k)
<1>1. EndIn(p) /\ Len(p) \in Nat
  BY EndLies DEF IsProgram
<1>2. CASE k = Len(p)
  <2> DEFINE T == file.text
             b == hexpos
  <2>1. T \in Seq(Units) /\ b \in Nat /\ Len(T) = b + 5 /\ T[b + 4] = 1
    BY <1>1, <1>2 DEF EndIn
  <2>2. \A i \in 1..Len(T) : T[i] # Eol => At(i) = T[i]
    BY <2>1, AtIs
  <2> HIDE DEF T, b
  <2>3. b + 4 \in 1..Len(T) /\ 1 # Eol
    BY <2>1 DEF Eol
  <2>4. At(b + 4) = 1
    BY <2>1, <2>2, <2>3
  <2> QED BY <1>2, <2>4 DEF Ends, b
<1>3. CASE k # Len(p)
  <2>1. k \in 0..Len(p) - 1 /\ k + 1 \in 1..Len(p) /\ k + 1 \in 0..Len(p)
    BY <1>1, <1>3
  <2>2. Start(p, k + 1) <= Len(Text(p))
    <3>1. Start(p, k + 1) + 5 <= Len(Text(p)) /\ Start(p, k + 1) \in Nat
      BY <2>1, FramesAre
    <3>2. Len(Text(p)) \in Nat
      BY <1>1 DEF EndIn
    <3> QED BY <3>1, <3>2
  <2>3. file.text \in Seq(Units)
    BY <1>1 DEF EndIn
  <2>4. IsRecord(p[k + 1]) /\ Faces(p[k + 1])
    BY <2>1, <2>2, <2>3, Unaltered
  <2> QED BY <2>1, <2>4 DEF Reads
<1> QED BY <1>2, <1>3

LEMMA AlteredStep ==
  ASSUME NEW p, IsProgram(p), damage # "none", Record,
         NEW q \in DOMAIN Text(p) \ FramingUnits(Text(p)), NEW x \in Bytes,
         Text(p)[q] # Eol, x # Text(p)[q], file.text = [Text(p) EXCEPT ![q] = x],
         NEW k \in 0..Len(p), hexpos = Start(p, k)
  PROVE  Reads(p, k) \/ Ends(p, k) \/ Refuses
<1> DEFINE T == Text(p)
           F == file.text
           b == hexpos
<1>1. /\ EndIn(p) /\ Len(p) \in Nat
      /\ b \in Nat /\ b + 5 <= Len(T) /\ b + 1 # q /\ b + 4 # q
  <2>1. b + 1 \in FramingUnits(T) /\ b + 4 \in FramingUnits(T)
    BY FramesAre
  <2> QED BY <2>1, EndLies, FramesAre DEF IsProgram
<1>2. T \in Seq(Units)
  BY <1>1 DEF EndIn
<1>3. /\ q \in 1..Len(T) /\ x \in Units /\ x # Eol /\ T[q] # Eol /\ x # T[q]
  BY <1>2, ByteIs
<1>4. F \in Seq(Units) /\ Len(F) = Len(T) /\ \A i \in 1..Len(T) : F[i] = IF i = q THEN x ELSE T[i]
  BY <1>2, <1>3
<1>5. \A i \in 1..Len(F) : F[i] # Eol => At(i) = F[i]
  BY <1>4, AtIs
<1> HIDE DEF T, F, b
<1>6. CASE k = Len(p)
  <2>1. T[b + 4] = 1
    BY <1>1, <1>6 DEF EndIn, T, b
  <2>2. b + 4 \in 1..Len(T) /\ 1 # Eol
    BY <1>1, <1>2 DEF Eol
  <2>3. At(b + 4) = 1
    BY <1>1, <1>4, <1>5, <2>1, <2>2
  <2> QED BY <1>6, <2>3 DEF Ends, b
<1>7. CASE k # Len(p)
  <2> DEFINE m == k + 1
             r == p[m]
             l == Len(r.data)
             e == Start(p, m)
             n == Line(r)
             j == q - b
  <2>1. k \in 0..Len(p) - 1 /\ m \in 1..Len(p) /\ m - 1 = k
    BY <1>1, <1>7
  <2>2. RecordIn(p, m) /\ IsRecord(r)
    BY <2>1, RecordsLie DEF IsProgram
  <2>3. /\ b \in Nat /\ l \in Nat /\ e = (b + l) + 6 /\ e + 5 <= Len(T)
        /\ \A i \in 1..l + 6 : T[b + i] = n[i]
    <3>1. Start(p, m - 1) = b
      BY <2>1 DEF b
    <3> HIDE DEF m
    <3> QED BY <2>2, <3>1 DEF RecordIn, T
  <2>4. n[l + 6] = Eol /\ \A i \in 1..l + 5 : n[i] \in Bytes
    <3>1. LineOf(r)
      BY <2>2, LineIs
    <3> QED BY <3>1 DEF LineOf
  <2>5. CASE j \in 1..l + 5
    <3> HIDE DEF l, n, r
    <3>1. b + j = q /\ j # 1 /\ j # 4
      <4>1. q \in Int /\ b \in Int /\ b + 1 # q /\ b + 4 # q
        BY <1>1, <1>2, <1>3
      <4> QED BY <4>1
    <3>2. x # n[j]
      <4>1. j \in 1..l + 6
        BY <2>3, <2>5
      <4> QED BY <1>3, <2>3, <3>1, <4>1
    <3>3. ASSUME NEW i \in 1..l + 5 PROVE At(b + i) = IF i = j THEN x ELSE n[i]
      <4>1. i \in 1..l + 6 /\ b + i \in 1..Len(T) /\ (b + i = q <=> i = j)
        BY <1>2, <1>3, <2>3, <3>1, SMTT(20)
      <4>2. F[b + i] = IF i = j THEN x ELSE n[i]
        BY <1>4, <2>3, <4>1
      <4>3. F[b + i] # Eol
        BY <1>3, <2>4, <4>2, ByteIs
      <4> QED BY <1>4, <1>5, <4>1, <4>2, <4>3
    <3>4. At(b + 4) = 0
      <4>1. n[4] = 0
        <5>1. LineOf(r)
          BY <2>2, LineIs
        <5> QED BY <5>1 DEF LineOf, n
      <4>2. 4 \in 1..l + 5
        BY <2>3
      <4> QED BY <3>1, <3>3, <4>1, <4>2
    <3>5. DataRecord
      BY <3>4 DEF Record, EndRecord, OtherRecord, b
    <3>6. /\ j \in 1..Len(r.data) + 5 /\ x # Line(r)[j] /\ hexpos \in Nat
          /\ \A i \in 1..Len(r.data) + 5 : At(hexpos + i) = IF i = j THEN x ELSE Line(r)[i]
      BY <2>3, <2>5, <3>2, <3>3 DEF l, n, b
    <3> HIDE DEF j
    <3>7. result' = -4
      BY <2>2, <3>1, <3>5, <3>6, AlteredRecord, SMTT(20)
    <3> QED BY <3>7 DEF Refuses
  <2>6. CASE j \notin 1..l + 5
    <3> HIDE DEF l, n, r, e
    <3>1. q # e
      <4>1. l + 6 \in 1..l + 6 /\ b + (l + 6) = e
        BY <2>3
      <4> QED BY <1>3, <2>3, <2>4, <4>1
    <3>2. \A i \in b + 1..e : i # q /\ i \in 1..Len(T)
      BY <1>2, <1>3, <2>3, <2>6, <3>1, SMTT(20)
    <3>3. e <= Len(F) /\ \A i \in b + 1..e : F[i] = T[i]
      BY <1>2, <1>4, <2>3, <3>2
    <3>4. IsRecord(p[k + 1]) /\ Faces(p[k + 1])
      <4>1. /\ hexpos = Start(p, k) /\ file.text \in Seq(Units) /\ Start(p, k + 1) <= Len(file.text)
            /\ \A i \in hexpos + 1..Start(p, k + 1) : file.text[i] = Text(p)[i]
        BY <1>4, <3>3 DEF b, e, F, T
      <4> QED BY <2>1, <4>1, Unaltered
    <3> QED BY <2>1, <3>4 DEF Reads
  <2> QED BY <2>5, <2>6
<1> QED BY <1>6, <1>7

LEMMA CutStep ==
  ASSUME NEW p, IsProgram(p), damage # "none", Record,
         NEW c \in 0..Len(Text(p)) - 1, NEW half \in BOOLEAN,
         file.text = Cut(Text(p), c, half),
         NEW k \in 0..Len(p), hexpos = Start(p, k)
  PROVE  Reads(p, k) \/ Ends(p, k) \/ Refuses
<1> DEFINE T == Text(p)
           F == file.text
           b == hexpos
<1>1. EndIn(p) /\ Len(p) \in Nat /\ T \in Seq(Units)
  BY EndLies DEF IsProgram, EndIn
<1>2. b \in Nat /\ b + 5 <= Len(T) /\ c \in Nat /\ c + 1 <= Len(T) /\ Len(T) \in Nat
  <2>1. b \in Nat /\ b + 5 <= Len(T)
    BY FramesAre
  <2>2. Len(T) \in Nat /\ c \in 0..Len(T) - 1
    BY <1>1
  <2> HIDE DEF T, b
  <2> QED BY <2>1, <2>2
<1>3. /\ F \in Seq(Units) /\ c <= Len(F) /\ Len(F) <= c + 1
      /\ \A i \in 1..c : F[i] = T[i]
      /\ Len(F) = c + 1 => F[c + 1] # Eol /\ (T[c + 1] = 0 => F[c + 1] = 0)
  BY <1>1, CutIs
<1>4. /\ DOMAIN F = 1..Len(F) /\ Len(F) \in Nat
      /\ \A i \in DOMAIN F : i \in Nat
  BY <1>3
<1>5. /\ \A i \in 1..Len(F) : F[i] # Eol => At(i) = F[i]
      /\ \A i : i \notin 1..Len(F) => At(i) = 0
  BY <1>3, AtIs
<1> HIDE DEF T, F, b
<1>6. \A i \in DOMAIN F : (i = c + 1 /\ Len(F) = c + 1) \/ i \in 1..c
  <2> DEFINE m == Len(F)
  <2>1. m \in Nat /\ DOMAIN F = 1..m
    BY <1>4
  <2>2. c \in Nat
    BY <1>2
  <2>3. m <= c + 1
    BY <1>3
  <2> HIDE DEF m
  <2>4. \A i \in 1..m : (i = c + 1 /\ m = c + 1) \/ i \in 1..c
    BY <2>1, <2>2, <2>3
  <2> QED BY <2>1, <2>4 DEF m
<1>7. ASSUME At(b + 4) # 1, \A i \in 1..c : i > b + 5 => T[i] # Eol
      PROVE  Refuses
  <2>1. \A i \in DOMAIN F : i > b + 5 => F[i] # Eol
    BY <1>3, <1>6, <1>7
  <2>2. file.text \in Seq(Units) /\ hexpos \in Nat /\ At(hexpos + 4) # 1
        /\ \A i \in DOMAIN file.text : i > hexpos + 5 => file.text[i] # Eol
    BY <1>2, <1>3, <1>7, <2>1 DEF F, b
  <2>3. result' \in {-3, -4, -5}
    BY <2>2, EndlessRecord
  <2> QED BY <2>3 DEF Refuses
<1>8. CASE k = Len(p)
  <2>1. Len(T) = b + 5
    BY <1>8, <1>1 DEF EndIn, T, b
  <2>2. \A i \in 1..c : ~ (i > b + 5)
    BY <1>2, <2>1
  <2>3. CASE At(b + 4) = 1
    BY <1>8, <2>3 DEF Ends, b
  <2>4. CASE At(b + 4) # 1
    BY <1>7, <2>2, <2>4
  <2> QED BY <2>3, <2>4
<1>9. CASE k # Len(p)
  <2> DEFINE m == k + 1
             r == p[m]
             l == Len(r.data)
             e == Start(p, m)
             n == Line(r)
  <2>1. k \in 0..Len(p) - 1 /\ m \in 1..Len(p) /\ m - 1 = k
    BY <1>1, <1>9
  <2>2. RecordIn(p, m) /\ IsRecord(r)
    BY <2>1, RecordsLie DEF IsProgram
  <2>3. /\ b \in Nat /\ l \in Nat /\ e = (b + l) + 6
        /\ \A i \in 1..l + 6 : T[b + i] = n[i]
    <3>1. Start(p, m - 1) = b
      BY <2>1 DEF b
    <3> HIDE DEF m
    <3> QED BY <2>2, <3>1 DEF RecordIn, T
  <2>4. n[4] = 0 /\ \A i \in 1..l + 5 : n[i] # Eol
    <3>1. LineOf(r)
      BY <2>2, LineIs
    <3> QED BY <3>1, ByteIs DEF LineOf
  <2>5. CASE e <= c
    <3> HIDE DEF l, n, r, e
    <3>1. e <= Len(F) /\ \A i \in b + 1..e : F[i] = T[i]
      <4>1. \A i \in b + 1..e : i \in 1..c
        BY <1>2, <2>3, <2>5
      <4>2. e <= Len(F)
        <5> DEFINE w == Len(F)
        <5>1. c \in Nat /\ w \in Nat
          BY <1>2, <1>4
        <5>2. e \in Nat
          BY <2>3
        <5>3. e <= c /\ c <= w
          BY <1>3, <2>5
        <5> HIDE DEF w
        <5>4. e <= w
          BY <5>1, <5>2, <5>3
        <5> QED BY <5>4 DEF w
      <4> QED BY <1>3, <4>1, <4>2
    <3>2. /\ hexpos = Start(p, k) /\ file.text \in Seq(Units) /\ Start(p, k + 1) <= Len(file.text)
          /\ \A i \in hexpos + 1..Start(p, k + 1) : file.text[i] = Text(p)[i]
      BY <1>3, <3>1 DEF b, e, F, T
    <3>3. IsRecord(p[k + 1]) /\ Faces(p[k + 1])
      BY <2>1, <3>2, Unaltered
    <3> QED BY <2>1, <3>3 DEF Reads
  <2>6. CASE ~ (e <= c)
    <3> HIDE DEF l, n, r, e
    <3>1. T[b + 4] = 0
      <4>1. 4 \in 1..l + 6
        BY <2>3
      <4> QED BY <2>3, <2>4, <4>1
    <3>2. At(b + 4) = 0
      <4> DEFINE x == b + 4
      <4>1. T[x] = 0 /\ 0 # Eol
        BY <3>1 DEF Eol
      <4> HIDE DEF x
      <4>2. CASE x \in 1..Len(F)
        <5>1. F[x] = 0
          BY <1>3, <1>4, <1>6, <4>1, <4>2
        <5> QED BY <1>5, <4>1, <4>2, <5>1 DEF x
      <4>3. CASE x \notin 1..Len(F)
        BY <1>5, <4>3 DEF x
      <4> QED BY <4>2, <4>3
    <3>3. \A i \in 1..c : i > b + 5 => T[i] # Eol
      <4> SUFFICES ASSUME NEW i \in 1..c, i > b + 5 PROVE T[i] # Eol
        OBVIOUS
      <4> DEFINE j == i - b
      <4>1. j \in 1..l + 5 /\ j \in 1..l + 6 /\ b + j = i
        BY <1>2, <2>3, <2>6
      <4> HIDE DEF j
      <4> QED BY <2>3, <2>4, <4>1
    <3> QED BY <1>7, <3>2, <3>3
  <2> QED BY <2>5, <2>6
<1> QED BY <1>8, <1>9

(* A record more is stored.                                                *)
LEMMA StoredStep ==
  ASSUME NEW p, IsProgram(p), NEW k \in 0..Len(p) - 1, Stored(p, k), Put(p[k + 1])
  PROVE  Stored(p, k + 1)'
<1> DEFINE m == k + 1
<1>1. m \in Nat /\ \A i \in 1..m : i = m \/ i \in 1..k
  OBVIOUS
<1> SUFFICES ASSUME NEW i \in 1..m, NEW x \in DOMAIN p[i].data
             PROVE  LET a == p[i].addr + x - 1
                    IN  \/ \E later \in i + 1..m : a \in Cells(p[later])
                        \/ a \in DOMAIN hexcode' /\ hexcode'[a] = p[i].data[x]
  BY DEF Stored
<1> DEFINE a == p[i].addr + x - 1
<1>2. CASE i = m
  BY <1>2 DEF Put
<1>3. CASE i \in 1..k
  <2>1. CASE a \in Cells(p[m])
    <3>1. m \in i + 1..m
      BY <1>1, <1>3
    <3> HIDE DEF a, m
    <3> QED BY <2>1, <3>1 DEF a
  <2>2. CASE a \notin Cells(p[m])
    <3>1. \/ \E later \in i + 1..k : a \in Cells(p[later])
          \/ a \in DOMAIN hexcode /\ hexcode[a] = p[i].data[x]
      BY <1>3 DEF Stored
    <3> HIDE DEF a
    <3>2. \A later \in i + 1..k : later \in i + 1..m
      BY <1>3
    <3>3. a \in DOMAIN hexcode => a \in DOMAIN hexcode' /\ hexcode'[a] = hexcode[a]
      BY <2>2 DEF Put
    <3> HIDE DEF m
    <3> QED BY <3>1, <3>2, <3>3 DEF a
  <2> QED BY <2>1, <2>2
<1> QED BY <1>1, <1>2, <1>3

LEMMA RecordStep ==
  ASSUME NEW p, IsProgram(p), file.program = p, FileIs(p), damage # "frame", Record,
         NEW k \in 0..Len(p), hexpos = Start(p, k)
  PROVE  Reads(p, k) \/ Ends(p, k) \/ Refuses
<1> DEFINE T == Text(p)
<1>1. CASE file.text = T
  BY <1>1, UndamagedStep
<1>2. ASSUME damage # "none",
             NEW q \in DOMAIN T \ FramingUnits(T), NEW x \in Bytes,
             T[q] # Eol, x # T[q], file.text = [T EXCEPT ![q] = x]
      PROVE  Reads(p, k) \/ Ends(p, k) \/ Refuses
  BY <1>2, AlteredStep
<1>3. ASSUME damage # "none", NEW c \in 0..Len(T) - 1, NEW half \in BOOLEAN,
             file.text = Cut(T, c, half)
      PROVE  Reads(p, k) \/ Ends(p, k) \/ Refuses
  BY <1>3, CutStep
<1> QED BY <1>1, <1>2, <1>3 DEF FileIs

Reached(p) == \E k \in 0..Len(p) : hexpos = Start(p, k) /\ Stored(p, k)

(***************************************************************************)
(* While a file is read whose lengths and types are right, load_obj stands *)
(* at the start of a record, or of the end record, and what comes before   *)
(* is in code memory; it stops with a refusal only in a damaged file.      *)
(***************************************************************************)
HexInv ==
  /\ result \in {Reading, 0, -1, -2, -3, -4, -5}
  /\ result \in {-3, -4, -5} => damage # "none"
  /\ result = Reading => file.program \in Programs /\ FileIs(file.program)
  /\ result = Reading /\ damage # "frame" => Reached(file.program)
  /\ result = 0 /\ damage # "frame" => Whole

LEMMA ProgramsAre ==
  ASSUME NEW p \in Programs
  PROVE  IsProgram(p)
<1>1. \A r \in Records : IsRecord(r)
  <2> DEFINE A == 0..65279
             S == [addr : A, data : Seq(Bytes)]
  <2>1. \A a \in A : a \in Nat /\ a <= 65279
    BY SMTT(40)
  <2>2. Records = {r \in S : Len(r.data) <= 255}
    BY DEF Records
  <2> HIDE DEF A
  <2> QED BY <2>1, <2>2 DEF IsRecord
<1>2. p \in Seq(Records)
  BY HexAssumption
<1>3. Len(p) \in Nat /\ \A i \in 1..Len(p) : p[i] \in Records
  BY <1>2
<1> QED BY <1>1, <1>3 DEF IsProgram

(***************************************************************************)
(* HexInv holds of load_obj whatever files are loaded one after another.   *)
(***************************************************************************)
THEOREM HexInvariant == HexSpec => []HexInv
<1>1. HexInit => HexInv
  <2> SUFFICES ASSUME HexInit PROVE HexInv
    OBVIOUS
  <2>1. result = -1 /\ -1 # Reading
    BY DEF HexInit, Reading
  <2> QED BY <2>1 DEF HexInv
<1>2. HexInv /\ [HexNext]_hexvars => HexInv'
  <2> SUFFICES ASSUME HexInv, [HexNext]_hexvars PROVE HexInv'
    OBVIOUS
  <2>1. CASE UNCHANGED hexvars
    <3>1. /\ file' = file /\ damage' = damage /\ hexpos' = hexpos /\ hexcode' = hexcode
          /\ result' = result
      BY <2>1 DEF hexvars
    <3>2. FileIs(file.program) => FileIs(file.program)'
      BY <3>1 DEF FileIs
    <3>3. Reached(file.program) => Reached(file.program)'
      BY <3>1 DEF Reached, Stored
    <3>4. Whole => Whole'
      BY <3>1 DEF Whole, Stored
    <3> QED BY <3>1, <3>2, <3>3, <3>4 DEF HexInv
  <2>2. CASE LoadOther
    BY <2>2 DEF LoadOther, HexInv, Reading
  <2>3. CASE Load
    <3>1. PICK p \in Programs :
            LET text == Text(p)
            IN  \/ Opened(p, text) /\ damage' = "none"
                \/ \E i \in {j \in DOMAIN text : text[j] # Eol}, b \in DamageBytes :
                     /\ b # text[i]
                     /\ Opened(p, [text EXCEPT ![i] = b])
                     /\ damage' = IF i \in FramingUnits(text) THEN "frame" ELSE "byte"
                \/ \E n \in 0..(Len(text) - 1), half \in BOOLEAN :
                     Opened(p, Cut(text, n, half)) /\ damage' = "cut"
      BY <2>3 DEF Load
    <3> DEFINE T == Text(p)
    <3>2. file'.program = p /\ hexpos' = 0 /\ result' = Reading /\ FileIs(p)'
      <4>1. CASE Opened(p, T) /\ damage' = "none"
        BY <4>1 DEF Opened, FileIs
      <4>2. ASSUME NEW i \in {j \in DOMAIN T : T[j] # Eol}, NEW b \in DamageBytes,
                   b # T[i], Opened(p, [T EXCEPT ![i] = b]),
                   damage' = IF i \in FramingUnits(T) THEN "frame" ELSE "byte"
            PROVE  file'.program = p /\ hexpos' = 0 /\ result' = Reading /\ FileIs(p)'
        <5>1. b \in Bytes
          BY HexAssumption
        <5>2. /\ file'.program = p /\ hexpos' = 0 /\ result' = Reading
              /\ file'.text = [T EXCEPT ![i] = b]
          BY <4>2 DEF Opened
        <5> HIDE DEF T
        <5>3. CASE i \in FramingUnits(T)
          BY <4>2, <5>2, <5>3 DEF FileIs
        <5>4. CASE i \notin FramingUnits(T)
          BY <4>2, <5>1, <5>2, <5>4 DEF FileIs, T
        <5> QED BY <5>3, <5>4
      <4>3. ASSUME NEW n \in 0..Len(T) - 1, NEW half \in BOOLEAN,
                   Opened(p, Cut(T, n, half)), damage' = "cut"
            PROVE  file'.program = p /\ hexpos' = 0 /\ result' = Reading /\ FileIs(p)'
        BY <4>3 DEF Opened, FileIs
      <4> QED BY <3>1, <4>1, <4>2, <4>3
    <3>3. Reached(p)'
      <4>1. IsProgram(p)
        BY ProgramsAre
      <4>2. 0 \in 0..Len(p)
        BY <4>1 DEF IsProgram
      <4>3. Start(p, 0) = 0
        <5>1. Chunks(p)[0] = <<>> /\ Len(<<>>) = 0
          BY <4>1, ChunksOf
        <5> QED BY <5>1 DEF Start
      <4>4. Stored(p, 0)'
        BY DEF Stored
      <4> QED BY <3>2, <4>2, <4>3, <4>4 DEF Reached
    <3>4. Reading # 0 /\ Reading \notin {-3, -4, -5}
      BY DEF Reading
    <3> QED BY <3>2, <3>3, <3>4 DEF HexInv
  <2>4. CASE Record
    <3>1. PICK p : p = file.program
      OBVIOUS
    <3>2. p \in Programs /\ IsProgram(p) /\ FileIs(p) /\ result = Reading
      BY <2>4, <3>1, ProgramsAre DEF Record, HexInv
    <3>3. UNCHANGED <<file, damage, loads>> /\ (EndRecord \/ OtherRecord \/ DataRecord)
      BY <2>4 DEF Record
    <3>4. FileIs(p)' /\ file'.program = p
      BY <3>1, <3>2, <3>3 DEF FileIs
    <3>5. CASE damage = "frame"
      <4>1. result' \in {0, -3, -4, -5, Reading}
        <5>1. CASE EndRecord
          BY <5>1 DEF EndRecord, Returns
        <5>2. CASE OtherRecord
          BY <5>2 DEF OtherRecord, Returns
        <5>3. CASE DataRecord
          BY <3>2, <5>3 DEF DataRecord, Returns
        <5> QED BY <3>3, <5>1, <5>2, <5>3
      <4> QED BY <3>2, <3>3, <3>4, <3>5, <4>1 DEF HexInv
    <3>6. CASE damage # "frame"
      <4>1. PICK k \in 0..Len(p) : hexpos = Start(p, k) /\ Stored(p, k)
        BY <3>1, <3>2, <3>6 DEF HexInv, Reached
      <4>2. CASE Reads(p, k)
        <5> DEFINE r == p[k + 1]
        <5>1. k + 1 \in 1..Len(p) /\ IsRecord(r) /\ Faces(r)
          BY <4>2 DEF Reads
        <5>2. DataRecord
          BY <2>4, <5>1, FacesData
        <5>3. hexpos' = (hexpos + Len(r.data)) + 6 /\ result' = result /\ Put(r)
          BY <5>1, <5>2, ReadsRecord
        <5>4. Start(p, k + 1) = (hexpos + Len(r.data)) + 6
          <6>1. (k + 1) - 1 = k
            OBVIOUS
          <6> DEFINE m == k + 1
          <6>2. RecordIn(p, m) /\ m - 1 = k
            BY <3>2, <5>1, <6>1, RecordsLie
          <6> HIDE DEF m
          <6> QED BY <4>1, <6>2 DEF RecordIn, m
        <5>5. k \in 0..Len(p) - 1 /\ k + 1 \in 0..Len(p)
          BY <3>2, <5>1 DEF IsProgram
        <5>6. Stored(p, k + 1)'
          BY <3>2, <4>1, <5>3, <5>5, StoredStep
        <5>7. Reached(p)'
          BY <5>3, <5>4, <5>5, <5>6 DEF Reached
        <5>8. result' = Reading /\ Reading # 0 /\ Reading \notin {-3, -4, -5}
          BY <3>2, <5>3 DEF Reading
        <5> QED BY <3>2, <3>4, <5>7, <5>8 DEF HexInv
      <4>3. CASE Ends(p, k)
        <5>1. EndRecord
          BY <3>3, <4>3 DEF Ends, DataRecord, OtherRecord
        <5>2. result' = 0 /\ hexcode' = hexcode
          BY <5>1 DEF EndRecord, Returns
        <5>3. Stored(p, Len(p))'
          BY <4>1, <4>3, <5>2 DEF Ends, Stored
        <5>4. Whole'
          BY <3>4, <5>3 DEF Whole
        <5>5. 0 # Reading /\ 0 \notin {-3, -4, -5}
          BY DEF Reading
        <5> QED BY <5>2, <5>4, <5>5 DEF HexInv
      <4>4. CASE Refuses
        <5>1. Reading \notin {-3, -4, -5} /\ 0 \notin {-3, -4, -5}
          BY DEF Reading
        <5> QED BY <3>3, <4>4, <5>1 DEF HexInv, Refuses
      <4> QED BY <2>4, <3>1, <3>2, <3>6, <4>1, <4>2, <4>3, <4>4, RecordStep
    <3> QED BY <3>5, <3>6
  <2> QED BY <2>1, <2>2, <2>3, <2>4 DEF HexNext
<1> QED BY <1>1, <1>2, PTL DEF HexSpec

(***************************************************************************)
(* A file that is whole is accepted, and one accepted has left its whole   *)
(* program in code memory: load_obj's checksums let no altered byte and no *)
(* cut by, lengths and types aside, in a file of any records.              *)
(***************************************************************************)
THEOREM LoadTrue == HexSpec => []LoadTellsTheTruth
<1>1. HexInv => LoadTellsTheTruth
  BY DEF HexInv, LoadTellsTheTruth
<1> QED BY <1>1, HexInvariant, PTL

-----------------------------------------------------------------------------
(***************************************************************************)
(* StepLoop, for ticks of any number of clocks, any costs and jumps, and   *)
(* hooks that switch the mode anywhere.                                    *)
(***************************************************************************)
Kinds == {"none", "plain", "hooked", "clocks", "counted", "countedplain"}

StepTypes ==
  /\ mode \in [instruction : BOOLEAN, cycles : BOOLEAN, hooks : BOOLEAN]
  /\ loop \in [kind : Kinds, left : Nat]
  /\ count \in [clocks : Nat, ticks : Nat, instructions : Nat, device : Nat]
  /\ count.device < TickClocks
  /\ pc \in Nat /\ posted \in Nat
  /\ asked \in [call : {"none", "ticks", "instructions"}, n : Nat, clocks : Nat, done : Nat,
                switched : BOOLEAN]

(***************************************************************************)
(* Ticks that ran and that the counters do not show yet.                   *)
(***************************************************************************)
Behind == IF loop.kind = "plain" THEN asked.n - loop.left ELSE 0

ClocksAgree ==
  /\ count.clocks + TickClocks * Behind = TickClocks * posted + count.device
  /\ ~mode.instruction => count.device = 0 /\ count.ticks + Behind = posted

(***************************************************************************)
(* How far each kind of loop has got with what was asked.                  *)
(***************************************************************************)
UnderWay ==
  /\ loop.kind = "none" /\ asked.call = "ticks" /\ ~asked.switched =>
       count.clocks - asked.clocks >= TickClocks * asked.n
  /\ loop.kind = "plain" => /\ asked.call = "ticks" /\ loop.left <= asked.n
                            /\ count.clocks = asked.clocks
  /\ loop.kind = "clocks" => /\ mode.instruction
                             /\ loop.left = asked.clocks + TickClocks * asked.n
  /\ loop.kind = "hooked" /\ ~asked.switched =>
       /\ ~mode.instruction /\ loop.left <= asked.n
       /\ count.clocks = asked.clocks + TickClocks * (asked.n - loop.left)
  /\ loop.kind \in {"counted", "countedplain"} => asked.call = "instructions"

StepInv == StepTypes /\ ClocksAgree /\ UnderWay

LEMMA Sizes ==
  /\ TickClocks \in Nat \ {0} /\ BudgetPer \in Nat /\ Costs \subseteq Nat /\ Lengths \subseteq Nat
  /\ Requests \subseteq Nat /\ PcSize \in Nat \ {0} /\ PcSize > 1
  /\ \A o \in Offsets : o \in Int /\ o \in 1 - PcSize..PcSize - 1
BY StepAssumption

LEMMA StepInvInit == StepInit => StepInv
<1> SUFFICES ASSUME StepInit PROVE StepInv
  OBVIOUS
<1>1. /\ mode = [instruction |-> FALSE, cycles |-> FALSE, hooks |-> FALSE]
      /\ loop = [kind |-> "none", left |-> 0]
      /\ count = [clocks |-> 0, ticks |-> 0, instructions |-> 0, device |-> 0]
      /\ pc = 0 /\ posted = 0
      /\ asked = [call |-> "none", n |-> 0, clocks |-> 0, done |-> 0, switched |-> FALSE]
  BY DEF StepInit
<1>2. StepTypes
  BY <1>1, Sizes DEF StepTypes, Kinds
<1>3. ClocksAgree
  BY <1>1, Sizes DEF ClocksAgree, Behind
<1> QED BY <1>1, <1>2, <1>3 DEF StepInv, UnderWay

LEMMA CallKeeps ==
  ASSUME StepInv, NEW n \in Requests, NEW call \in {"ticks", "instructions"}, Call(call, n)
  PROVE  StepInv'
<1>1. StepTypes /\ ClocksAgree /\ n \in Nat /\ loop.kind = "none"
  BY Sizes DEF StepInv, Call, Rest
<1>2. /\ asked' = [call |-> call, n |-> n, clocks |-> count.clocks, done |-> count.instructions,
                   switched |-> FALSE]
      /\ loop' = LoopFor(call, n)
      /\ mode' = mode /\ count' = count /\ pc' = pc /\ posted' = posted
  BY DEF Call
<1>3. /\ count.clocks \in Nat /\ count.instructions \in Nat /\ mode.instruction \in BOOLEAN
      /\ mode.hooks \in BOOLEAN
      /\ TickClocks * n \in Nat /\ n * BudgetPer \in Nat /\ TickClocks * 0 = 0 /\ n - n = 0
  BY <1>1, Sizes DEF StepTypes
<1>4. /\ asked' \in [call : {"none", "ticks", "instructions"}, n : Nat, clocks : Nat, done : Nat,
                     switched : BOOLEAN]
      /\ asked'.call = call /\ asked'.n = n /\ asked'.clocks = count.clocks
      /\ asked'.switched = FALSE
  BY <1>2, <1>3, <1>1
<1>5. CASE call = "ticks" /\ mode.instruction
  <2>1. loop' = [kind |-> "clocks", left |-> count.clocks + TickClocks * n]
    BY <1>2, <1>5 DEF LoopFor
  <2>2. loop' \in [kind : Kinds, left : Nat] /\ loop'.kind = "clocks"
        /\ loop'.left = count.clocks + TickClocks * n
    BY <2>1, <1>3 DEF Kinds
  <2> QED BY <1>1, <1>2, <1>3, <1>4, <1>5, <2>2
          DEF StepInv, StepTypes, ClocksAgree, UnderWay, Behind
<1>6. CASE call = "ticks" /\ ~mode.instruction /\ mode.hooks
  <2>1. loop' = [kind |-> "hooked", left |-> n]
    BY <1>2, <1>6 DEF LoopFor
  <2>2. loop' \in [kind : Kinds, left : Nat] /\ loop'.kind = "hooked" /\ loop'.left = n
    BY <2>1, <1>1 DEF Kinds
  <2> QED BY <1>1, <1>2, <1>3, <1>4, <1>6, <2>2
          DEF StepInv, StepTypes, ClocksAgree, UnderWay, Behind
<1>7. CASE call = "ticks" /\ ~mode.instruction /\ ~mode.hooks
  <2>1. loop' = [kind |-> "plain", left |-> n]
    BY <1>2, <1>7 DEF LoopFor
  <2>2. loop' \in [kind : Kinds, left : Nat] /\ loop'.kind = "plain" /\ loop'.left = n
    BY <2>1, <1>1 DEF Kinds
  <2> QED BY <1>1, <1>2, <1>3, <1>4, <1>7, <2>2
          DEF StepInv, StepTypes, ClocksAgree, UnderWay, Behind
<1>8. CASE call = "instructions"
  <2>1. \E k \in {"counted", "countedplain"} : loop' = [kind |-> k, left |-> n * BudgetPer]
    BY <1>2, <1>8 DEF LoopFor
  <2>2. loop' \in [kind : Kinds, left : Nat] /\ loop'.kind \in {"counted", "countedplain"}
    BY <2>1, <1>3 DEF Kinds
  <2> QED BY <1>1, <1>2, <1>3, <1>4, <1>8, <2>2
          DEF StepInv, StepTypes, ClocksAgree, UnderWay, Behind
<1> QED BY <1>3, <1>5, <1>6, <1>7, <1>8

(***************************************************************************)
(* A turn of the loop counts down, unless clocks are what ends it.         *)
(***************************************************************************)
LEMMA TurnKeeps ==
  ASSUME StepTypes, ~Rest, MoreToDo, loop' = Turn
  PROVE  /\ loop' \in [kind : Kinds, left : Nat] /\ loop'.kind = loop.kind
         /\ loop.kind # "none"
         /\ loop.kind = "clocks" => loop' = loop
         /\ loop.kind # "clocks" => loop.left > 0 /\ loop'.left = loop.left - 1
<1>1. loop \in [kind : Kinds, left : Nat] /\ loop.kind # "none"
  BY DEF StepTypes, Rest
<1>2. CASE loop.kind = "clocks"
  BY <1>1, <1>2 DEF Turn
<1>3. CASE loop.kind # "clocks"
  <2>1. loop.left > 0
    BY <1>3 DEF MoreToDo, Counted
  <2>2. loop' = [loop EXCEPT !.left = @ - 1]
    BY <1>3 DEF Turn
  <2>3. loop.left - 1 \in Nat
    BY <1>1, <2>1
  <2> QED BY <1>1, <1>3, <2>1, <2>2, <2>3
<1> QED BY <1>2, <1>3

Counts == [clocks : Nat, ticks : Nat, instructions : Nat, device : Nat]

LEMMA CountsSet ==
  ASSUME NEW c \in Counts, NEW k \in Nat, NEW t \in Nat, NEW n \in Nat, NEW d \in Nat
  PROVE  /\ LET e == [c EXCEPT !.instructions = n, !.ticks = t, !.clocks = k]
            IN  e \in Counts /\ e.clocks = k /\ e.ticks = t /\ e.device = c.device
         /\ LET e == [c EXCEPT !.clocks = k, !.device = d, !.instructions = n]
            IN  e \in Counts /\ e.clocks = k /\ e.device = d
BY DEF Counts

LEMMA TicksSet ==
  ASSUME NEW c \in Counts, NEW k \in Nat, NEW t \in Nat
  PROVE  LET e == [c EXCEPT !.ticks = t, !.clocks = k]
         IN  e \in Counts /\ e.clocks = k /\ e.ticks = t /\ e.device = c.device
BY DEF Counts

LEMMA TickStepKeeps ==
  ASSUME StepInv, NEW whole \in BOOLEAN, TickStep(whole)
  PROVE  StepInv'
<1> DEFINE n == IF whole THEN count.instructions + 1 ELSE count.instructions
<1>1. /\ StepTypes /\ ClocksAgree /\ UnderWay /\ ~Rest /\ MoreToDo /\ ByTick
      /\ loop' = Turn /\ posted' = posted + 1 /\ mode' = mode /\ pc' = pc /\ asked' = asked
  BY DEF StepInv, TickStep
<1>2. /\ count \in [clocks : Nat, ticks : Nat, instructions : Nat, device : Nat]
      /\ posted \in Nat /\ asked.n \in Nat /\ asked.clocks \in Nat /\ loop.left \in Nat /\ n \in Nat
      /\ TickClocks \in Nat /\ loop.kind \in Kinds
  BY <1>1, Sizes DEF StepTypes
<1>3. /\ loop' \in [kind : Kinds, left : Nat] /\ loop'.kind = loop.kind /\ loop.kind # "none"
      /\ loop.kind = "clocks" => loop' = loop
      /\ loop.kind # "clocks" => loop.left > 0 /\ loop'.left = loop.left - 1
  BY <1>1, TurnKeeps
<1> HIDE DEF n
<1>4. TickClocks * (posted + 1) = TickClocks * posted + TickClocks
  BY <1>2
<1>5. CASE loop.kind = "plain"
  <2>1. count' = [count EXCEPT !.instructions = n]
    BY <1>5 DEF TickStep, n
  <2>2. /\ count' \in [clocks : Nat, ticks : Nat, instructions : Nat, device : Nat]
        /\ count'.clocks = count.clocks /\ count'.ticks = count.ticks
        /\ count'.device = count.device
    BY <1>2, <2>1
  <2>3. Behind = asked.n - loop.left /\ Behind' = Behind + 1 /\ Behind \in Int
    BY <1>1, <1>2, <1>3, <1>5 DEF Behind
  <2>4. TickClocks * Behind' = TickClocks * Behind + TickClocks
    BY <1>2, <2>3
  <2>5. StepTypes'
    BY <1>1, <1>2, <1>3, <2>2 DEF StepTypes
  <2>6. ClocksAgree'
    <3>1. TickClocks * Behind \in Int /\ TickClocks * posted \in Int
      BY <1>2, <2>3
    <3> HIDE DEF Behind
    <3> QED BY <1>1, <1>2, <1>4, <2>2, <2>3, <2>4, <3>1, SMTT(20) DEF ClocksAgree
  <2>7. UnderWay'
    BY <1>1, <1>2, <1>3, <1>5, <2>2 DEF UnderWay
  <2> QED BY <2>5, <2>6, <2>7 DEF StepInv
<1>6. CASE loop.kind # "plain"
  <2>1. count' = [count EXCEPT !.instructions = n, !.ticks = @ + 1, !.clocks = @ + TickClocks]
    BY <1>6 DEF TickStep, n
  <2>2. /\ count' \in [clocks : Nat, ticks : Nat, instructions : Nat, device : Nat]
        /\ count'.clocks = count.clocks + TickClocks /\ count'.ticks = count.ticks + 1
        /\ count'.device = count.device
    <3>1. count \in Counts /\ count.clocks + TickClocks \in Nat /\ count.ticks + 1 \in Nat
      BY <1>2 DEF Counts
    <3>2. count' = [count EXCEPT !.instructions = n, !.ticks = count.ticks + 1,
                                 !.clocks = count.clocks + TickClocks]
      BY <2>1
    <3> QED BY <1>2, <3>1, <3>2, CountsSet DEF Counts
  <2>3. Behind = 0 /\ Behind' = 0 /\ TickClocks * 0 = 0
    BY <1>2, <1>3, <1>6 DEF Behind
  <2>4. loop.kind # "clocks"
    BY <1>1, <1>6 DEF UnderWay, ByTick
  <2>5. StepTypes'
    BY <1>1, <1>2, <1>3, <2>2 DEF StepTypes
  <2>6. ClocksAgree'
    <3>1. TickClocks * posted \in Int
      BY <1>2
    <3> QED BY <1>1, <1>2, <1>4, <2>2, <2>3, <3>1 DEF ClocksAgree
  <2>7. UnderWay'
    <3>1. TickClocks * (asked.n - loop'.left) = TickClocks * (asked.n - loop.left) + TickClocks
      BY <1>2, <1>3, <2>4
    <3>2. TickClocks * (asked.n - loop.left) \in Int
      BY <1>2
    <3>3. loop'.kind = "hooked" /\ ~asked'.switched =>
            /\ ~mode'.instruction /\ loop'.left <= asked'.n
            /\ count'.clocks = asked'.clocks + TickClocks * (asked'.n - loop'.left)
      BY <1>1, <1>2, <1>3, <2>2, <2>4, <3>1, <3>2 DEF UnderWay
    <3> QED BY <1>1, <1>3, <1>6, <2>4, <3>3 DEF UnderWay
  <2> QED BY <2>5, <2>6, <2>7 DEF StepInv
<1> QED BY <1>5, <1>6

(***************************************************************************)
(* Clocks in instruction mode: each whole tick among them is posted, and   *)
(* what is left over is kept for the next.                                 *)
(***************************************************************************)
LEMMA TakesKeeps ==
  ASSUME StepInv, InMode, NEW clocks \in Nat, NEW done \in Nat, Takes(clocks, done),
         mode' = mode, asked' = asked, pc' \in Nat
  PROVE  StepInv'
<1> DEFINE z == count.device + clocks
           q == z \div TickClocks
           r == z % TickClocks
<1>1. /\ StepTypes /\ ClocksAgree /\ UnderWay /\ ~Rest /\ MoreToDo /\ ~ByTick
      /\ loop' = Turn /\ posted' = posted + q
      /\ count' = [Charge(count, clocks) EXCEPT !.instructions = @ + done]
  BY DEF StepInv, InMode, Takes
<1>2. /\ count \in [clocks : Nat, ticks : Nat, instructions : Nat, device : Nat]
      /\ posted \in Nat /\ TickClocks \in Nat \ {0} /\ z \in Nat
      /\ asked.n \in Nat /\ asked.clocks \in Nat /\ loop.left \in Nat
  BY <1>1, Sizes DEF StepTypes
<1>3. q \in Nat /\ r \in 0..TickClocks - 1 /\ z = TickClocks * q + r
  BY <1>2, Division
<1>4. /\ loop' \in [kind : Kinds, left : Nat] /\ loop'.kind = loop.kind /\ loop.kind # "none"
      /\ loop.kind = "clocks" => loop' = loop
  BY <1>1, TurnKeeps
<1>5. count' = [count EXCEPT !.clocks = @ + clocks, !.device = r, !.instructions = @ + done]
  BY <1>1, <1>2 DEF Charge
<1> HIDE DEF q, r
<1>6. /\ count' \in [clocks : Nat, ticks : Nat, instructions : Nat, device : Nat]
      /\ count'.clocks = count.clocks + clocks /\ count'.device = r
  <2>1. /\ count \in Counts /\ count.clocks + clocks \in Nat /\ r \in Nat
        /\ count.instructions + done \in Nat /\ count.ticks \in Nat
    BY <1>2, <1>3 DEF Counts
  <2>2. count' = [count EXCEPT !.clocks = count.clocks + clocks, !.device = r,
                               !.instructions = count.instructions + done]
    BY <1>5
  <2> QED BY <2>1, <2>2, CountsSet DEF Counts
<1>7. mode.instruction /\ loop.kind # "plain"
  BY <1>1 DEF ByTick
<1>8. StepTypes'
  BY <1>1, <1>2, <1>3, <1>4, <1>6 DEF StepTypes
<1>9. ClocksAgree'
  <2>1. TickClocks * (posted + q) = TickClocks * posted + TickClocks * q
    BY <1>2, <1>3
  <2>2. TickClocks * posted \in Int /\ TickClocks * q \in Int
    BY <1>2, <1>3
  <2>3. Behind = 0 /\ Behind' = 0 /\ TickClocks * 0 = 0
    BY <1>2, <1>4, <1>7 DEF Behind
  <2>4. mode'.instruction
    BY <1>7
  <2> QED BY <1>1, <1>2, <1>3, <1>6, <2>1, <2>2, <2>3, <2>4 DEF ClocksAgree
<1>10. UnderWay'
  BY <1>1, <1>4, <1>7 DEF UnderWay
<1> QED BY <1>8, <1>9, <1>10 DEF StepInv

LEMMA ReturnKeeps ==
  ASSUME StepInv, Return
  PROVE  StepInv'
<1>1. /\ StepTypes /\ ClocksAgree /\ UnderWay /\ ~MoreToDo /\ loop.kind # "none"
      /\ loop' = [kind |-> "none", left |-> 0]
      /\ mode' = mode /\ pc' = pc /\ posted' = posted /\ asked' = asked
  BY DEF StepInv, Return, Rest
<1>2. /\ count \in Counts /\ count.clocks \in Nat /\ count.ticks \in Nat /\ count.device \in Nat
      /\ posted \in Nat /\ asked.n \in Nat /\ asked.clocks \in Nat /\ loop.left \in Nat
      /\ TickClocks \in Nat /\ TickClocks * 0 = 0 /\ TickClocks * asked.n \in Nat
      /\ loop.kind \in Kinds
  BY <1>1, Sizes DEF StepTypes, Counts
<1>3. loop' \in [kind : Kinds, left : Nat] /\ loop'.kind = "none" /\ Behind' = 0
  BY <1>1 DEF Kinds, Behind
<1>4. CASE loop.kind = "plain"
  <2>1. loop.left = 0
    BY <1>1, <1>2, <1>4 DEF MoreToDo, Counted
  <2>2. Behind = asked.n
    BY <1>2, <1>4, <2>1 DEF Behind
  <2>3. /\ count' \in Counts /\ count'.clocks = count.clocks + TickClocks * asked.n
        /\ count'.ticks = count.ticks + asked.n /\ count'.device = count.device
    <3> DEFINE k == count.clocks + TickClocks * asked.n
               t == count.ticks + asked.n
    <3>1. k \in Nat /\ t \in Nat
      BY <1>2
    <3>2. count' = [count EXCEPT !.ticks = t, !.clocks = k]
      BY <1>4 DEF Return
    <3>3. count' \in Counts /\ count'.clocks = k /\ count'.ticks = t /\ count'.device = count.device
      <4> HIDE DEF k, t
      <4> QED BY <1>2, <3>1, <3>2, TicksSet DEF Counts
    <3> QED BY <3>3
  <2>4. StepTypes'
    BY <1>1, <1>3, <2>3 DEF StepTypes, Counts
  <2>5. ClocksAgree'
    BY <1>1, <1>2, <1>3, <2>2, <2>3 DEF ClocksAgree
  <2>6. UnderWay'
    BY <1>1, <1>2, <1>3, <1>4, <2>3 DEF UnderWay
  <2> QED BY <2>4, <2>5, <2>6 DEF StepInv
<1>5. CASE loop.kind # "plain"
  <2>1. count' = count
    BY <1>5 DEF Return
  <2>2. Behind = 0
    BY <1>5 DEF Behind
  <2>3. StepTypes'
    BY <1>1, <1>3, <2>1 DEF StepTypes
  <2>4. ClocksAgree'
    BY <1>1, <1>2, <1>3, <2>1, <2>2 DEF ClocksAgree
  <2>5. CASE loop.kind = "clocks"
    <3>1. ~(count.clocks < loop.left)
      BY <1>1, <2>5 DEF MoreToDo, Counted
    <3>2. loop.left = asked.clocks + TickClocks * asked.n
      BY <1>1, <2>5 DEF UnderWay
    <3>3. count.clocks - asked.clocks >= TickClocks * asked.n
      BY <1>2, <3>1, <3>2
    <3>4. UnderWay'
      BY <1>1, <1>3, <2>1, <3>3 DEF UnderWay
    <3> QED BY <2>3, <2>4, <3>4 DEF StepInv
  <2>6. CASE loop.kind = "hooked"
    <3>1. loop.left = 0
      BY <1>1, <1>2, <2>6 DEF MoreToDo, Counted
    <3>2. ~asked.switched => count.clocks = asked.clocks + TickClocks * asked.n
      BY <1>1, <1>2, <2>6, <3>1 DEF UnderWay
    <3>3. ~asked.switched => count.clocks - asked.clocks >= TickClocks * asked.n
      BY <1>2, <3>2
    <3>4. UnderWay'
      BY <1>1, <1>3, <2>1, <3>3 DEF UnderWay
    <3> QED BY <2>3, <2>4, <3>4 DEF StepInv
  <2>7. CASE loop.kind \in {"counted", "countedplain"}
    <3>1. UnderWay'
      BY <1>1, <1>3, <2>1, <2>7 DEF UnderWay
    <3> QED BY <2>3, <2>4, <3>1 DEF StepInv
  <2> QED BY <1>1, <1>2, <1>5, <2>5, <2>6, <2>7 DEF Kinds
<1> QED BY <1>4, <1>5

LEMMA SwitchKeeps ==
  ASSUME StepInv, NEW cycles \in BOOLEAN, NEW hooks \in BOOLEAN, Switch(cycles, hooks)
  PROVE  StepInv'
<1> DEFINE c == mode.cycles \/ cycles
           h == mode.hooks \/ hooks
           w == asked.switched \/ (~Rest /\ ~mode.instruction)
<1>1. /\ StepTypes /\ ClocksAgree /\ UnderWay
      /\ mode' = [instruction |-> TRUE, cycles |-> c, hooks |-> h]
      /\ asked' = [asked EXCEPT !.switched = w]
      /\ loop' = loop /\ count' = count /\ pc' = pc /\ posted' = posted
  BY DEF StepInv, Switch
<1>2. c \in BOOLEAN /\ h \in BOOLEAN /\ w \in BOOLEAN
  OBVIOUS
<1>3. ~w => ~asked.switched /\ (loop.kind = "none" \/ mode.instruction)
  BY DEF Rest
<1> HIDE DEF c, h, w
<1>4. /\ mode' \in [instruction : BOOLEAN, cycles : BOOLEAN, hooks : BOOLEAN]
      /\ mode'.instruction = TRUE
  BY <1>1, <1>2
<1>5. /\ asked' \in [call : {"none", "ticks", "instructions"}, n : Nat, clocks : Nat, done : Nat,
                     switched : BOOLEAN]
      /\ asked'.call = asked.call /\ asked'.n = asked.n /\ asked'.clocks = asked.clocks
      /\ asked'.switched = w
  BY <1>1, <1>2 DEF StepTypes
<1>6. Behind' = Behind
  BY <1>1, <1>5 DEF Behind
<1>7. StepTypes'
  BY <1>1, <1>4, <1>5 DEF StepTypes
<1>8. ClocksAgree'
  BY <1>1, <1>4, <1>6 DEF ClocksAgree
<1>9. UnderWay'
  BY <1>1, <1>3, <1>4, <1>5 DEF UnderWay
<1> QED BY <1>7, <1>8, <1>9 DEF StepInv

LEMMA InstallEndKeeps ==
  ASSUME StepInv, InstallEnd
  PROVE  StepInv'
<1>1. /\ StepTypes /\ ClocksAgree /\ UnderWay
      /\ mode' = [mode EXCEPT !.hooks = TRUE] /\ loop' = loop /\ count' = count /\ pc' = pc
      /\ posted' = posted /\ asked' = asked
  BY DEF StepInv, InstallEnd
<1>2. /\ mode' \in [instruction : BOOLEAN, cycles : BOOLEAN, hooks : BOOLEAN]
      /\ mode'.instruction = mode.instruction
  BY <1>1 DEF StepTypes
<1>3. StepTypes' /\ ClocksAgree' /\ UnderWay'
  BY <1>1, <1>2 DEF StepTypes, ClocksAgree, UnderWay, Behind
<1> QED BY <1>3 DEF StepInv

LEMMA SimResetKeeps ==
  ASSUME StepInv, SimReset
  PROVE  StepInv'
<1>1. /\ StepTypes /\ UnderWay /\ loop.kind = "none"
      /\ count' = [clocks |-> 0, ticks |-> 0, instructions |-> 0, device |-> 0]
      /\ pc' = 0 /\ posted' = 0 /\ asked' = [asked EXCEPT !.call = "none"]
      /\ mode' = mode /\ loop' = loop
  BY DEF StepInv, SimReset, Rest
<1>2. /\ asked' \in [call : {"none", "ticks", "instructions"}, n : Nat, clocks : Nat, done : Nat,
                     switched : BOOLEAN]
      /\ asked'.call = "none"
  BY <1>1 DEF StepTypes
<1>3. TickClocks * 0 = 0 /\ 0 < TickClocks /\ Behind' = 0
  BY <1>1, Sizes DEF Behind
<1>4. StepTypes'
  BY <1>1, <1>2, <1>3 DEF StepTypes
<1>5. ClocksAgree'
  BY <1>1, <1>3 DEF ClocksAgree
<1>6. UnderWay'
  BY <1>1, <1>2 DEF UnderWay
<1> QED BY <1>4, <1>5, <1>6 DEF StepInv

-----------------------------------------------------------------------------
(* An instruction in instruction mode.                                     *)

Target(offset, len, jumps) ==
  IF jumps THEN (pc + len + offset) % PcSize ELSE (pc + len) % PcSize

(***************************************************************************)
(* The host tells a jump taken from one that is not by where it lands,     *)
(* which for an offset of 0 needs the patched operand.                     *)
(***************************************************************************)
LEMMA JumpsSeen ==
  ASSUME StepTypes, NEW cond \in BOOLEAN, NEW jumps \in BOOLEAN, NEW offset \in Offsets,
         NEW len \in Lengths
  PROVE  LET e == Executed(cond, offset, len, jumps)
         IN  /\ e.pc = Target(offset, len, jumps) /\ e.pc \in Nat
             /\ mode.cycles /\ cond => (e.taken <=> jumps)
<1> DEFINE next  == (pc + len) % PcSize
           patch == mode.cycles /\ cond /\ offset = 0
           by    == IF patch THEN 1 ELSE offset
           to    == IF jumps THEN (next + by) % PcSize ELSE next
           taken == IF patch THEN to = (next + 1) % PcSize ELSE to # next
<1>1. /\ pc \in Nat /\ len \in Nat /\ PcSize \in Nat \ {0} /\ PcSize > 1
      /\ offset \in Int /\ offset \in 1 - PcSize..PcSize - 1
      /\ pc + len \in Int /\ 1 \in 1 - PcSize..PcSize - 1
  BY Sizes DEF StepTypes
<1>2. next \in 0..PcSize - 1
  BY <1>1, DivisionOfInt
<1>3. (next + offset) % PcSize = (pc + len + offset) % PcSize
  BY <1>1, WholeTurns
<1> HIDE DEF next
<1>4. (next + offset) % PcSize \in 0..PcSize - 1
  <2>1. next + offset \in Int
    BY <1>1, <1>2
  <2> QED BY <1>1, <2>1, DivisionOfInt
<1>5. (next + 1) % PcSize # next
  <2>1. 1 # 0
    OBVIOUS
  <2> QED BY <1>1, <1>2, <2>1, PartOfTurn
<1>6. offset # 0 => (next + offset) % PcSize # next
  BY <1>1, <1>2, PartOfTurn
<1>7. offset = 0 => (next + offset) % PcSize = next
  BY <1>1, <1>2
<1>8. Executed(cond, offset, len, jumps)
        = [pc |-> IF patch /\ taken THEN next ELSE to, taken |-> taken]
  BY DEF Executed, next
<1>9. patch => (taken <=> jumps)
  BY <1>5
<1>10. mode.cycles /\ cond => (taken <=> jumps)
  BY <1>6, <1>9
<1>11. (IF patch /\ taken THEN next ELSE to) = IF jumps THEN (next + offset) % PcSize ELSE next
  BY <1>7, <1>9
<1>12. Target(offset, len, jumps) = IF jumps THEN (next + offset) % PcSize ELSE next
  BY <1>3 DEF Target, next
<1> DEFINE p == IF patch /\ taken THEN next ELSE to
<1> HIDE DEF p, patch, taken, to
<1>13. Executed(cond, offset, len, jumps).pc = p /\ Executed(cond, offset, len, jumps).taken = taken
  BY <1>8 DEF p
<1>14. p = Target(offset, len, jumps) /\ p \in Nat
  BY <1>1, <1>2, <1>4, <1>11, <1>12 DEF p
<1> QED BY <1>10, <1>13, <1>14

LEMMA InstructionKeeps ==
  ASSUME StepInv, NEW cond \in BOOLEAN, NEW jumps \in BOOLEAN, NEW offset \in Offsets,
         NEW len \in Lengths, NEW clocks \in Costs, NEW more \in Nat,
         InstructionStep(cond, offset, len, jumps, clocks, more)
  PROVE  /\ StepInv' /\ pc' = ran'.to
         /\ ran'.cost = ran'.table + (IF ran'.cycles /\ ran'.cond /\ ran'.jumps THEN ran'.more ELSE 0)
<1> DEFINE e == Executed(cond, offset, len, jumps)
           c == IF mode.cycles /\ e.taken /\ cond THEN clocks + more ELSE clocks
<1>1. /\ StepTypes /\ InMode /\ pc' = e.pc /\ Takes(c, 1) /\ mode' = mode /\ asked' = asked
      /\ ran' = [cond |-> cond, jumps |-> jumps, cycles |-> mode.cycles,
                 to |-> IF jumps THEN (pc + len + offset) % PcSize ELSE (pc + len) % PcSize,
                 table |-> clocks, more |-> more, cost |-> c]
  BY DEF StepInv, InstructionStep
<1>2. /\ e.pc = Target(offset, len, jumps) /\ e.pc \in Nat
      /\ mode.cycles /\ cond => (e.taken <=> jumps)
  BY <1>1, JumpsSeen
<1> HIDE DEF e
<1>3. c \in Nat /\ clocks \in Nat /\ 1 \in Nat
  BY Sizes
<1>4. c = clocks + (IF mode.cycles /\ cond /\ jumps THEN more ELSE 0)
  BY <1>2, <1>3
<1> HIDE DEF c
<1>5. StepInv'
  BY <1>1, <1>2, <1>3, TakesKeeps
<1>6. /\ ran'.to = Target(offset, len, jumps) /\ ran'.cost = c /\ ran'.table = clocks
      /\ ran'.more = more /\ ran'.cycles = mode.cycles /\ ran'.cond = cond /\ ran'.jumps = jumps
  BY <1>1 DEF Target
<1> QED BY <1>1, <1>2, <1>4, <1>5, <1>6

Charged ==
  ran' # ran =>
    /\ pc' = ran'.to
    /\ ran'.cost = ran'.table + (IF ran'.cycles /\ ran'.cond /\ ran'.jumps THEN ran'.more ELSE 0)

LEMMA StepNextKeeps ==
  ASSUME StepInv, [StepNext]_stepvars
  PROVE  StepInv' /\ Charged
<1>1. ASSUME NEW n \in Requests, NEW call \in {"ticks", "instructions"}, Call(call, n)
      PROVE  StepInv' /\ Charged
  BY <1>1, CallKeeps DEF Call, Charged
<1>2. ASSUME NEW whole \in BOOLEAN, TickStep(whole) PROVE StepInv' /\ Charged
  BY <1>2, TickStepKeeps DEF TickStep, Charged
<1>3. ASSUME NEW c \in Costs, WaitStep(c) PROVE StepInv' /\ Charged
  <2>1. c \in Nat /\ 0 \in Nat /\ pc \in Nat
    BY Sizes DEF StepInv, StepTypes
  <2>2. InMode /\ Takes(c, 0) /\ mode' = mode /\ pc' = pc /\ asked' = asked /\ ran' = ran
    BY <1>3 DEF WaitStep
  <2> QED BY <2>1, <2>2, TakesKeeps DEF Charged
<1>4. ASSUME NEW c \in Costs, EnterStep(c) PROVE StepInv' /\ Charged
  <2>1. c \in Nat /\ 0 \in Nat /\ 3 % PcSize \in Nat
    BY Sizes, Division
  <2>2. InMode /\ Takes(c, 0) /\ mode' = mode /\ pc' = 3 % PcSize /\ asked' = asked /\ ran' = ran
    BY <1>4 DEF EnterStep
  <2> QED BY <2>1, <2>2, TakesKeeps DEF Charged
<1>5. ASSUME NEW cond \in BOOLEAN, NEW jumps \in BOOLEAN, NEW offset \in Offsets,
             NEW len \in Lengths, NEW c \in Costs \ {0},
             InstructionStep(cond, offset, len, jumps, c, 1)
      PROVE  StepInv' /\ Charged
  BY <1>5, InstructionKeeps DEF Charged
<1>6. CASE Return
  BY <1>6, ReturnKeeps DEF Return, Charged
<1>7. ASSUME NEW cycles \in BOOLEAN, NEW hooks \in BOOLEAN, Switch(cycles, hooks)
      PROVE  StepInv' /\ Charged
  BY <1>7, SwitchKeeps DEF Switch, Charged
<1>8. CASE InstallEnd
  BY <1>8, InstallEndKeeps DEF InstallEnd, Charged
<1>9. CASE SimReset
  BY <1>9, SimResetKeeps DEF SimReset, Charged
<1>10. CASE UNCHANGED stepvars
  BY <1>10 DEF stepvars, StepInv, StepTypes, ClocksAgree, UnderWay, Behind, Charged
<1> QED BY <1>1, <1>2, <1>3, <1>4, <1>5, <1>6, <1>7, <1>8, <1>9, <1>10 DEF StepNext, RunStep

-----------------------------------------------------------------------------
(***************************************************************************)
(* Clocks and ticks agree up to what the loop under way has still to       *)
(* count, and the loop is as far as its counter says.                      *)
(***************************************************************************)
THEOREM StepInvariant == StepSpec => []StepInv
<1>1. StepInv /\ [StepNext]_stepvars => StepInv'
  BY StepNextKeeps
<1> QED BY <1>1, StepInvInit, PTL DEF StepSpec

(***************************************************************************)
(* Between calls the tick hooks ran once per tick's worth of clocks, the   *)
(* tick count says so, and a sim_step that no switch cut short ran what it *)
(* was asked for.                                                          *)
(***************************************************************************)
THEOREM TicksAgree == StepSpec => []TicksFollowClocks
<1>1. ASSUME StepInv, Rest PROVE TicksFollowClocks
  <2>1. /\ count.clocks \in Nat /\ count.device \in Nat /\ count.device < TickClocks
        /\ posted \in Nat /\ TickClocks \in Nat \ {0} /\ loop.kind = "none"
    BY <1>1, Sizes DEF StepInv, StepTypes, Rest
  <2>2. Behind = 0 /\ TickClocks * 0 = 0
    BY <2>1 DEF Behind
  <2>3. count.clocks = TickClocks * posted + count.device
    BY <1>1, <2>1, <2>2 DEF StepInv, ClocksAgree
  <2>4. TickCount = posted
    <3>1. CASE mode.instruction
      <4>1. count.clocks \div TickClocks = posted
        <5> DEFINE d == count.device
                   x == count.clocks
        <5>1. d \in 0..TickClocks - 1 /\ x \in Int /\ posted \in Int /\ x = TickClocks * posted + d
          BY <2>1, <2>3
        <5> HIDE DEF d, x
        <5>2. x \div TickClocks = posted
          BY <2>1, <5>1, Quotient
        <5> QED BY <5>2 DEF x
      <4> QED BY <3>1, <4>1 DEF TickCount
    <3>2. CASE ~mode.instruction
      BY <1>1, <2>1, <2>2, <3>2 DEF StepInv, StepTypes, ClocksAgree, TickCount
    <3> QED BY <3>1, <3>2
  <2> QED BY <1>1, <2>1, <2>3, <2>4 DEF StepInv, UnderWay, TicksFollowClocks
<1>2. StepInv => TicksFollowClocks
  BY <1>1 DEF TicksFollowClocks
<1> QED BY <1>2, StepInvariant, PTL

(***************************************************************************)
(* A conditional jump is charged its taken clocks exactly when it jumps,   *)
(* for any offset of less than the program counter's range.                *)
(***************************************************************************)
THEOREM JumpsCharged == StepSpec => JumpsAreCharged
<1>1. StepInv /\ [StepNext]_stepvars => [Charged]_stepvars
  BY StepNextKeeps
<1> QED BY <1>1, StepInvariant, PTL DEF StepSpec, JumpsAreCharged, Charged

=============================================================================
