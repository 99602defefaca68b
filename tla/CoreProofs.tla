----------------------------- MODULE CoreProofs -----------------------------
(***************************************************************************)
(* What holds of Core for every RAM size, firmware and set of constants.   *)
(***************************************************************************)
EXTENDS Core, Numbers, SequenceTheorems, TLAPS

(***************************************************************************)
(* Two bytes make an address and an address is made of two bytes.          *)
(***************************************************************************)
LEMMA AddrOfBytes ==
  ASSUME NEW h \in Byte, NEW l \in Byte
  PROVE  h * ByteBase + l \in Addr
<1> DEFINE B == ByteBase
<1>1. B \in Nat /\ B > 0 /\ h \in Nat /\ l \in Nat /\ h <= B - 1 /\ l <= B - 1
  BY CoreAssumption DEF Byte
<1>2. h * B <= (B - 1) * B
  BY <1>1
<1>3. (B - 1) * B = B * B - B
  BY <1>1
<1>4. h * B \in Nat /\ B * B \in Nat
  BY <1>1
<1> HIDE DEF B
<1>5. h * B + l \in 0..B * B - 1
  BY <1>1, <1>2, <1>3, <1>4
<1> QED BY <1>5 DEF Addr, B

LEMMA BytesOfAddr ==
  ASSUME NEW a \in Addr
  PROVE  Low(a) \in Byte /\ High(a) \in Byte
<1> DEFINE B == ByteBase
<1>1. B \in Nat /\ B > 0 /\ a \in Nat /\ a < B * B
  BY CoreAssumption DEF Addr
<1>2. a \div B \in Nat /\ a % B \in 0..B - 1 /\ a = B * (a \div B) + (a % B)
  BY <1>1
<1>3. a \div B < B
  <2>1. SUFFICES ASSUME a \div B >= B PROVE FALSE
    BY <1>1, <1>2
  <2>2. B * (a \div B) >= B * B
    BY <1>1, <1>2, <2>1
  <2> QED BY <1>1, <1>2, <2>2
<1> QED BY <1>1, <1>2, <1>3 DEF Low, High, Byte
(***************************************************************************)
(* The stack operations stay in Memory and leave SP where they say.        *)
(***************************************************************************)
LEMMA StackTypes ==
  ASSUME NEW m \in Memory, NEW v \in Byte
  PROVE  /\ Pushed(m, v) \in Memory
         /\ Popped(m) \in Memory
         /\ TopByte(m) \in Byte
<1>1. /\ (m.sp + 1) % (2 * Half) \in SPs
      /\ (m.sp - 1) % (2 * Half) \in SPs
  BY CoreAssumption DEF Memory, SPs
<1>2. Pushed(m, v) \in Memory
  BY <1>1 DEF Pushed, Memory
<1>3. Popped(m) \in Memory
  BY <1>1 DEF Popped, Memory
<1>4. TopByte(m) \in Byte
  BY CoreAssumption DEF TopByte, Stored, Memory, Byte
<1> QED BY <1>2, <1>3, <1>4

LEMMA AddrStackTypes ==
  ASSUME NEW m \in Memory, NEW a \in Addr
  PROVE  /\ PushedAddr(m, a) \in Memory
         /\ Popped(Popped(m)) \in Memory
         /\ TopAddr(m) \in Addr
<1>1. Low(a) \in Byte /\ High(a) \in Byte
  BY BytesOfAddr
<1>2. Pushed(m, Low(a)) \in Memory /\ Popped(m) \in Memory /\ TopByte(m) \in Byte
  BY <1>1, StackTypes
<1>3. PushedAddr(m, a) \in Memory
  BY <1>1, <1>2, StackTypes DEF PushedAddr
<1>4. Popped(Popped(m)) \in Memory /\ TopByte(Popped(m)) \in Byte
  BY <1>1, <1>2, StackTypes
<1>5. TopAddr(m) \in Addr
  BY <1>2, <1>4, AddrOfBytes DEF TopAddr
<1> QED BY <1>3, <1>4, <1>5

(***************************************************************************)
(* The polling chain, one source at a time: after the sources S have been  *)
(* looked at, the choice c is something if and only if one of S is         *)
(* pending, high if and only if a high one of S is, and it beats every     *)
(* other pending member of S in priority or, that being equal, in rank.    *)
(***************************************************************************)
Beats(s, t) ==
  \/ s \in ip /\ t \notin ip
  \/ (s \in ip <=> t \in ip) /\ Rank[s] < Rank[t]

ChoiceOf(c, S) ==
  /\ c \in [dest : Source \cup {"none"}, lo : BOOLEAN, hi : BOOLEAN]
  /\ c.lo <=> \E s \in S : s \in Pending
  /\ c.hi <=> \E s \in S : s \in Pending /\ s \in ip
  /\ c.lo => /\ c.dest \in S /\ c.dest \in Pending
             /\ \A t \in S : t \in Pending /\ t # c.dest => Beats(c.dest, t)
  /\ c.hi <=> c.lo /\ c.dest \in ip

LEMMA PollStep ==
  ASSUME NEW S \in SUBSET Source, NEW s \in Source \ S, NEW c, ChoiceOf(c, S),
         \A t \in S : Rank[t] < Rank[s]
  PROVE  ChoiceOf(Poll(c, s), S \cup {s})
<1> DEFINE d == Poll(c, s)
<1>0. c.hi \in BOOLEAN /\ c.lo \in BOOLEAN
  BY DEF ChoiceOf
<1>1. CASE ~(s \in Pending /\ ~c.hi)
  <2>1. d = c
    BY <1>0, <1>1, Zenon DEF Poll
  <2>2. CASE s \notin Pending
    BY <2>1, <2>2 DEF ChoiceOf
  <2>3. CASE s \in Pending /\ c.hi
    BY <2>1, <2>3 DEF ChoiceOf, Beats
  <2> QED BY <1>1, <2>2, <2>3
<1>2. CASE s \in Pending /\ ~c.hi /\ c.lo /\ s \notin ip
  <2>1. d.dest = c.dest /\ d.lo /\ ~d.hi
        /\ d \in [dest : Source \cup {"none"}, lo : BOOLEAN, hi : BOOLEAN]
    BY <1>0, <1>2 DEF Poll, ChoiceOf
  <2>2. c.dest \in S /\ c.dest \in Pending /\ c.dest \notin ip
    BY <1>2 DEF ChoiceOf
  <2>3. Beats(c.dest, s)
    BY <1>2, <2>2 DEF Beats
  <2> QED BY <1>2, <2>1, <2>2, <2>3 DEF ChoiceOf
<1>3. CASE s \in Pending /\ ~c.hi /\ ~(c.lo /\ s \notin ip)
  <2>1. d.dest = s /\ d.lo = TRUE /\ d.hi = (s \in ip)
        /\ d \in [dest : Source \cup {"none"}, lo : BOOLEAN, hi : BOOLEAN]
    BY <1>3 DEF Poll
  <2>2. \A t \in S : t \in Pending => s \in ip /\ t \notin ip
    BY <1>3 DEF ChoiceOf
  <2>3. \A t \in S \cup {s} : t \in Pending /\ t # s => Beats(s, t)
    BY <2>2 DEF Beats
  <2> QED BY <1>3, <2>1, <2>2, <2>3 DEF ChoiceOf
<1> QED BY <1>1, <1>2, <1>3

LEMMA ChoiceIsMostUrgent == ChoiceOf(Choice, Source)
<1> DEFINE c0 == [dest |-> "none", lo |-> FALSE, hi |-> FALSE]
           c1 == Poll(c0, "INT0")
           c2 == Poll(c1, "TF0")
           c3 == Poll(c2, "INT1")
           c4 == Poll(c3, "TF1")
<1>0. ChoiceOf(c0, {})
  BY DEF ChoiceOf
<1> HIDE DEF c0
<1>1. ChoiceOf(c1, {"INT0"})
  <2>1. ChoiceOf(Poll(c0, "INT0"), {} \cup {"INT0"})
    BY <1>0, PollStep DEF Source
  <2> QED BY <2>1
<1> HIDE DEF c1
<1>2. ChoiceOf(c2, {"INT0", "TF0"})
  <2>1. ChoiceOf(Poll(c1, "TF0"), {"INT0"} \cup {"TF0"})
    BY <1>1, PollStep DEF Source, Rank
  <2> QED BY <2>1
<1> HIDE DEF c2
<1>3. ChoiceOf(c3, {"INT0", "TF0", "INT1"})
  <2>1. ChoiceOf(Poll(c2, "INT1"), {"INT0", "TF0"} \cup {"INT1"})
    BY <1>2, PollStep DEF Source, Rank
  <2> QED BY <2>1
<1> HIDE DEF c3
<1>4. ChoiceOf(c4, {"INT0", "TF0", "INT1", "TF1"})
  <2>1. ChoiceOf(Poll(c3, "TF1"), {"INT0", "TF0", "INT1"} \cup {"TF1"})
    BY <1>3, PollStep DEF Source, Rank
  <2> QED BY <2>1
<1> HIDE DEF c4
<1>5. ChoiceOf(Poll(c4, "SR"), Source)
  <2>1. ChoiceOf(Poll(c4, "SR"), {"INT0", "TF0", "INT1", "TF1"} \cup {"SR"})
    BY <1>4, PollStep DEF Source, Rank
  <2> QED BY <2>1 DEF Source
<1> QED BY <1>5 DEF Choice, c0, c1, c2, c3, c4

-----------------------------------------------------------------------------
LEMMA MarkedFrame ==
  ASSUME NEW f \in Frame, NEW b \in BOOLEAN
  PROVE  LET g == [f EXCEPT !.dirty = b]
         IN  g \in Frame /\ g.level = f.level /\ g.ret = f.ret /\ g.sp = f.sp
BY DEF Frame

(***************************************************************************)
(* Marking frames dirty changes nothing else about them.                   *)
(***************************************************************************)
LEMMA DirtiedFrames ==
  ASSUME frames \in Seq(Frame), NEW m, NEW exc, NEW hit
  PROVE  LET d == Dirtied(m, exc, hit)
         IN  /\ d \in Seq(Frame)
             /\ Len(d) = Len(frames)
             /\ DOMAIN d = DOMAIN frames
             /\ \A i \in DOMAIN frames : /\ d[i].level = frames[i].level
                                        /\ d[i].ret = frames[i].ret
                                        /\ d[i].sp = frames[i].sp
<1> DEFINE mark(i) == frames[i].dirty \/ exc # {} \/ m.sp < frames[i].sp
                        \/ hit \in {frames[i].sp, frames[i].sp - 1}
           one(i) == [frames[i] EXCEPT !.dirty = mark(i)]
           d == Dirtied(m, exc, hit)
<1>1. d = [i \in DOMAIN frames |-> one(i)]
  BY DEF Dirtied
<1>2. \A i \in DOMAIN frames : mark(i) \in BOOLEAN
  OBVIOUS
<1> HIDE DEF mark
<1>3. \A i \in DOMAIN frames :
        /\ one(i) \in Frame
        /\ one(i).level = frames[i].level
        /\ one(i).ret = frames[i].ret
        /\ one(i).sp = frames[i].sp
  <2>1. SUFFICES ASSUME NEW i \in DOMAIN frames
                 PROVE  /\ one(i) \in Frame
                        /\ one(i).level = frames[i].level
                        /\ one(i).ret = frames[i].ret
                        /\ one(i).sp = frames[i].sp
    OBVIOUS
  <2>2. frames[i] \in Frame
    OBVIOUS
  <2>3. mark(i) \in BOOLEAN
    BY <1>2
  <2> QED BY <2>2, <2>3, MarkedFrame
<1> HIDE DEF one
<1>4. DOMAIN frames = 1..Len(frames) /\ Len(frames) \in Nat
  OBVIOUS
<1>5. d \in Seq(Frame) /\ Len(d) = Len(frames) /\ DOMAIN d = DOMAIN frames
  BY <1>1, <1>3, <1>4
<1> HIDE DEF d
<1> QED BY <1>1, <1>3, <1>5 DEF d

LEMMA TimerTickType ==
  ASSUME NEW r \in SUBSET Source, TimerTick(r)
  PROVE  req' \in SUBSET Source
BY CoreAssumption DEF TimerTick, Source

LEMMA AfterType ==
  ASSUME pc \in Addr
  PROVE  After \subseteq Addr
<1>1. ByteBase * ByteBase \in Nat /\ ByteBase * ByteBase > 0
  BY CoreAssumption
<1> QED BY <1>1, CoreAssumption DEF After, Addr

(***************************************************************************)
(* An instruction that Leaves a memory and reports a stack fault at most.  *)
(***************************************************************************)
LEMMA LeavesType ==
  ASSUME TypeOK, NEW m \in Memory, NEW exc \in SUBSET Exception, NEW hit,
         Leaves(m, exc, hit)
  PROVE  /\ mem' \in Memory /\ excs' \in SUBSET Exception
         /\ ticked' \in BOOLEAN /\ executed' \in {"none", "op", "reti"}
         /\ frames' \in Seq(Frame)
<1>1. frames' \in Seq(Frame)
  BY DirtiedFrames DEF Leaves, TypeOK
<1> QED BY <1>1 DEF Leaves

LEMMA StackFaultType == \A b \in BOOLEAN : StackFault(b) \in SUBSET Exception
BY DEF StackFault, Exception

(***************************************************************************)
(* The initial state is well typed and every step keeps it so.             *)
(***************************************************************************)
LEMMA TypeInit == Init => TypeOK
<1> SUFFICES ASSUME Init PROVE TypeOK
  OBVIOUS
<1>1. pc \in Addr
  <2>1. ByteBase * ByteBase \in Nat /\ ByteBase * ByteBase > 0
    BY CoreAssumption
  <2> QED BY <2>1 DEF Init, Addr
<1>2. mem \in Memory
  BY CoreAssumption DEF Init, Memory, SPs, Byte
<1>3. saved \in [0..1 -> [sp : SPs, ctx : Context]]
  BY CoreAssumption DEF Init, SPs
<1>4. frames \in Seq(Frame)
  BY DEF Init
<1>5. delay \in {0, 1, 2, 3} /\ active \in 0..3 /\ waited \in Nat /\ ctx \in Context
  BY CoreAssumption DEF Init
<1>6. /\ ie \in SUBSET (Source \cup {"EA"}) /\ ip \in SUBSET Source
      /\ req \in SUBSET Source /\ pcon \in SUBSET {"IDL", "PD"}
      /\ excs \in SUBSET Exception
  BY DEF Init
<1>7. ticked \in BOOLEAN
  BY Zenon DEF Init
<1>8. executed \in {"none", "op", "reti"} /\ served \in Source \cup {"none"}
  BY DEF Init
<1> QED BY <1>1, <1>2, <1>3, <1>4, <1>5, <1>6, <1>7, <1>8 DEF TypeOK

LEMMA TypeInstruction ==
  ASSUME TypeOK, Instruction
  PROVE  /\ pc' \in Addr /\ mem' \in Memory /\ delay' \in {0, 1, 2, 3}
         /\ active' \in 0..3 /\ ctx' \in Context
         /\ saved' = saved
         /\ ie' \in SUBSET (Source \cup {"EA"}) /\ ip' \in SUBSET Source
         /\ req' \in SUBSET Source /\ pcon' \in SUBSET {"IDL", "PD"}
         /\ excs' \in SUBSET Exception /\ ticked' \in BOOLEAN
         /\ executed' \in {"none", "op", "reti"} /\ frames' \in Seq(Frame)
<1> USE CoreAssumption DEF TypeOK
<1>0. /\ After \subseteq Addr
      /\ {} \in SUBSET Exception
      /\ Popped(mem) \in Memory /\ Popped(Popped(mem)) \in Memory
      /\ TopAddr(mem) \in Addr
      /\ Writes => pc' \in Addr /\ ctx' \in Context /\ delay' \in {0, 1, 2, 3}
  BY AfterType, StackTypes, AddrStackTypes DEF Byte, Writes
<1>1. CASE Run
  BY <1>0, <1>1, LeavesType, TimerTickType DEF Run
<1>2. CASE Store
  <2>1. PICK a \in Cell, v \in Byte :
          Leaves([mem EXCEPT !.ram[a] = v], {}, a)
    BY <1>2 DEF Store
  <2>2. [mem EXCEPT !.ram[a] = v] \in Memory
    BY DEF Memory
  <2> QED BY <1>0, <1>2, <2>1, <2>2, LeavesType, TimerTickType DEF Store
<1>3. CASE SetSP
  <2>1. PICK s \in SPs : Leaves([mem EXCEPT !.sp = s], {}, -1)
    BY <1>3 DEF SetSP
  <2>2. [mem EXCEPT !.sp = s] \in Memory
    BY DEF Memory
  <2> QED BY <1>0, <1>3, <2>1, <2>2, LeavesType, TimerTickType DEF SetSP
<1>4. CASE Push
  <2>1. PICK v \in Byte : Leaves(Pushed(mem, v), StackFault(PushFaults(mem)), -1)
    BY <1>4 DEF Push
  <2>2. Pushed(mem, v) \in Memory /\ StackFault(PushFaults(mem)) \in SUBSET Exception
    BY StackTypes DEF StackFault, Exception
  <2> QED BY <1>0, <1>4, <2>1, <2>2, LeavesType, TimerTickType DEF Push
<1>5. CASE Pop
  <2> DEFINE m == Popped(mem)
             v == TopByte(mem)
             fault == StackFault(PopFaults(mem))
  <2>1. fault \in SUBSET Exception
    BY DEF StackFault, Exception
  <2>2. m \in Memory /\ v \in Byte /\ v % (2 * Half) \in SPs
    BY StackTypes DEF Byte, SPs
  <2>3. \/ Leaves(m, fault, -1) /\ ctx' \in Context
        \/ \E a \in 0..Half - 1 :
             Leaves([m EXCEPT !.ram[a] = v], fault, a) /\ UNCHANGED ctx
        \/ Leaves([m EXCEPT !.sp = v % (2 * Half)], fault, -1) /\ UNCHANGED ctx
    BY <1>5 DEF Pop
  <2> HIDE DEF m, v, fault
  <2>4. ctx' \in Context
    BY <2>3
  <2>5. /\ mem' \in Memory /\ excs' \in SUBSET Exception
        /\ ticked' \in BOOLEAN /\ executed' \in {"none", "op", "reti"}
        /\ frames' \in Seq(Frame)
    <3>1. CASE Leaves(m, fault, -1)
      BY <2>1, <2>2, <3>1, LeavesType
    <3>2. ASSUME NEW a \in 0..Half - 1, Leaves([m EXCEPT !.ram[a] = v], fault, a)
          PROVE  /\ mem' \in Memory /\ excs' \in SUBSET Exception
                 /\ ticked' \in BOOLEAN /\ executed' \in {"none", "op", "reti"}
                 /\ frames' \in Seq(Frame)
      <4>1. [m EXCEPT !.ram[a] = v] \in Memory
        BY <2>2 DEF Memory, Cell
      <4> QED BY <2>1, <3>2, <4>1, LeavesType
    <3>3. CASE Leaves([m EXCEPT !.sp = v % (2 * Half)], fault, -1)
      <4>1. [m EXCEPT !.sp = v % (2 * Half)] \in Memory
        BY <2>2 DEF Memory
      <4> QED BY <2>1, <3>3, <4>1, LeavesType
    <3> QED BY <2>3, <3>1, <3>2, <3>3
  <2> QED BY <1>0, <1>5, <2>4, <2>5, TimerTickType DEF Pop
<1>6. CASE Call
  <2>1. PICK n \in After :
          Leaves(PushedAddr(mem, n), StackFault(PushAddrFaults(mem)), -1)
    BY <1>6 DEF Call
  <2>2. /\ PushedAddr(mem, n) \in Memory
        /\ StackFault(PushAddrFaults(mem)) \in SUBSET Exception
    BY <1>0, AddrStackTypes DEF StackFault, Exception
  <2> QED BY <1>0, <1>6, <2>1, <2>2, LeavesType, TimerTickType DEF Call
<1>7. CASE Ret
  <2>1. StackFault(PopAddrFaults(mem)) \in SUBSET Exception
    BY DEF StackFault, Exception
  <2> QED BY <1>0, <1>7, <2>1, LeavesType, TimerTickType DEF Ret
<1>8. CASE Reti
  <2>1. StackFault(PopAddrFaults(mem)) \in SUBSET Exception
    BY DEF StackFault, Exception
  <2>2. Mismatch \in SUBSET Exception
    BY DEF Mismatch, Exception
  <2>3. ReturnActive \in 0..3
    BY DEF ReturnActive
  <2>4. frames' \in Seq(Frame)
    <3> DEFINE fs == Dirtied(mem', excs' \cap {"STACK"}, -1)
    <3>1. fs \in Seq(Frame)
      BY DirtiedFrames
    <3>2. SubSeq(fs, 1, Len(fs) - 1) \in Seq(Frame)
      <4> HIDE DEF fs
      <4>1. Len(fs) \in Nat
        BY <3>1
      <4> QED BY <3>1, <4>1
    <3> QED BY <1>8, <3>2 DEF Reti
  <2> QED BY <1>0, <1>8, <2>1, <2>2, <2>3, <2>4, TimerTickType DEF Reti
<1>9. CASE WriteIE
  BY <1>0, <1>9, LeavesType, TimerTickType DEF WriteIE
<1>10. CASE WriteIP
  BY <1>0, <1>10, LeavesType, TimerTickType DEF WriteIP
<1>11. CASE WriteTCON
  <2>1. PICK flags \in SUBSET TconFlag : TimerTick((req \ TconFlag) \cup flags)
    BY <1>11 DEF WriteTCON
  <2>2. (req \ TconFlag) \cup flags \in SUBSET Source
    BY DEF TconFlag
  <2> QED BY <1>0, <1>11, <2>1, <2>2, LeavesType, TimerTickType DEF WriteTCON
<1>12. CASE WritePCON
  BY <1>0, <1>12, LeavesType, TimerTickType DEF WritePCON
<1> QED BY <1>1, <1>2, <1>3, <1>4, <1>5, <1>6, <1>7, <1>8, <1>9, <1>10, <1>11,
           <1>12 DEF Instruction

LEMMA EntryTypes ==
  ASSUME TypeOK, Accepted
  PROVE  /\ Choice.dest \in Source /\ Choice.dest \in Pending
         /\ Lvl \in 0..1 /\ EntryActive \in 1..3
         /\ Vector[Choice.dest] \in Addr
<1>1. Choice.dest \in Source /\ Choice.dest \in Pending
  BY ChoiceIsMostUrgent DEF ChoiceOf, Accepted
<1>2. Lvl \in 0..1 /\ EntryActive \in 1..3
  BY DEF Lvl, EntryActive, Accepted, TypeOK
<1> QED BY <1>1, <1>2, CoreAssumption DEF Addr

LEMMA TypeEntry ==
  ASSUME TypeOK, EnterInterrupt
  PROVE  /\ pc' \in Addr /\ mem' \in Memory /\ delay' = 1
         /\ active' \in 0..3 /\ ctx' = ctx
         /\ saved' \in [0..1 -> [sp : SPs, ctx : Context]]
         /\ ie' = ie /\ ip' = ip
         /\ req' \in SUBSET Source /\ pcon' \in SUBSET {"IDL", "PD"}
         /\ excs' \in SUBSET Exception /\ ticked' \in BOOLEAN
         /\ executed' = "none" /\ frames' \in Seq(Frame)
         /\ served' \in Source
<1>1. Choice.dest \in Source /\ Lvl \in 0..1 /\ EntryActive \in 1..3 /\ Vector[Choice.dest] \in Addr
  BY EntryTypes DEF EnterInterrupt
<1>2. mem' \in Memory /\ mem'.sp \in SPs
  <2>1. mem' \in Memory
    BY AddrStackTypes DEF EnterInterrupt, TypeOK
  <2> QED BY <2>1 DEF Memory
<1>3. excs' \in SUBSET Exception
  BY DEF EnterInterrupt, StackFault, Exception
<1>4. saved' \in [0..1 -> [sp : SPs, ctx : Context]]
  BY <1>1, <1>2 DEF EnterInterrupt, TypeOK
<1>5. frames' \in Seq(Frame)
  <2> DEFINE d == Dirtied(mem', excs', -1)
             f == [level |-> Lvl, ret |-> pc, sp |-> mem'.sp, dirty |-> excs' # {}]
  <2>1. d \in Seq(Frame)
    BY DirtiedFrames DEF TypeOK
  <2>2. f \in Frame
    <3>1. (excs' # {}) \in BOOLEAN
      OBVIOUS
    <3> DEFINE b == excs' # {}
    <3> HIDE DEF b
    <3>2. [level |-> Lvl, ret |-> pc, sp |-> mem'.sp, dirty |-> b] \in Frame
      BY <1>1, <1>2, <3>1 DEF Frame, TypeOK, b
    <3> QED BY <3>2 DEF b
  <2>3. frames' = Append(d, f)
    BY Zenon DEF EnterInterrupt
  <2> HIDE DEF d, f
  <2> QED BY <2>1, <2>2, <2>3
<1>6. req' \in SUBSET Source
  <2>1. req \in SUBSET Source /\ req \ {Choice.dest} \in SUBSET Source
    BY DEF TypeOK
  <2> QED BY <2>1, TimerTickType DEF EnterInterrupt
<1>7. ticked' \in BOOLEAN
  BY Zenon DEF EnterInterrupt
<1> QED BY <1>1, <1>2, <1>3, <1>4, <1>5, <1>6, <1>7 DEF EnterInterrupt, TypeOK

LEMMA TypeNext == TypeOK /\ [Next]_vars => TypeOK'
<1> SUFFICES ASSUME TypeOK, [Next]_vars PROVE TypeOK'
  OBVIOUS
<1>1. CASE Tick
  <2>1. waited' \in Nat
    BY <1>1 DEF Tick, TypeOK
  <2>2. CASE EnterInterrupt
    BY <2>1, <2>2, TypeEntry DEF TypeOK
  <2>3. CASE Burn /\ served' = "none"
    <3>1. req' \in SUBSET Source
      BY <2>3, TimerTickType DEF Burn, TypeOK
    <3>2. ticked' \in BOOLEAN
      BY <2>3, Zenon DEF Burn
    <3>3. delay' \in {0, 1, 2, 3} /\ excs' \in SUBSET Exception
      BY <2>3 DEF Burn, TypeOK
    <3>4. executed' \in {"none", "op", "reti"} /\ served' \in Source \cup {"none"}
      BY <2>3 DEF Burn
    <3> QED BY <2>1, <2>3, <3>1, <3>2, <3>3, <3>4 DEF Burn, TypeOK
  <2>4. CASE PowerDown /\ served' = "none"
    <3>1. ticked' \in BOOLEAN
      BY <2>4, Zenon DEF PowerDown
    <3>2. executed' \in {"none", "op", "reti"} /\ served' \in Source \cup {"none"}
          /\ excs' \in SUBSET Exception
      BY <2>4 DEF PowerDown
    <3> QED BY <2>1, <2>4, <3>1, <3>2 DEF PowerDown, machine, TypeOK
  <2>5. CASE Idle /\ served' = "none"
    <3>1. req' \in SUBSET Source
      BY <2>5, TimerTickType DEF Idle, TypeOK
    <3>2. ticked' \in BOOLEAN
      BY <2>5, Zenon DEF Idle
    <3>3. executed' \in {"none", "op", "reti"} /\ served' \in Source \cup {"none"}
          /\ excs' \in SUBSET Exception
      BY <2>5 DEF Idle
    <3> QED BY <2>1, <2>5, <3>1, <3>2, <3>3 DEF Idle, TypeOK
  <2>6. CASE Instruction /\ served' = "none"
    <3>1. served' \in Source \cup {"none"}
      BY <2>6
    <3> QED BY <2>1, <2>6, <3>1, TypeInstruction DEF TypeOK
  <2> QED BY <1>1, <2>2, <2>3, <2>4, <2>5, <2>6 DEF Tick
<1>2. ASSUME NEW wipe \in BOOLEAN, Reset(wipe) PROVE TypeOK'
  <2>1. pc' \in Addr
    <3>1. ByteBase * ByteBase \in Nat /\ ByteBase * ByteBase > 0
      BY CoreAssumption
    <3> QED BY <1>2, <3>1 DEF Reset, Addr
  <2>2. mem' \in Memory
    <3>1. [a \in Cell |-> 0] \in [Cell -> Byte] /\ mem.ram \in [Cell -> Byte]
      BY CoreAssumption DEF TypeOK, Memory, Byte
    <3> QED BY <1>2, <3>1, CoreAssumption DEF Reset, Memory, SPs
  <2>3. delay' \in {0, 1, 2, 3} /\ active' \in 0..3 /\ waited' \in Nat /\ ctx' \in Context
        /\ saved' \in [0..1 -> [sp : SPs, ctx : Context]] /\ frames' \in Seq(Frame)
    BY <1>2, CoreAssumption DEF Reset, TypeOK
  <2>4. /\ ie' \in SUBSET (Source \cup {"EA"}) /\ ip' \in SUBSET Source
        /\ req' \in SUBSET Source /\ pcon' \in SUBSET {"IDL", "PD"}
        /\ excs' \in SUBSET Exception
    BY <1>2 DEF Reset
  <2>5. ticked' \in BOOLEAN
    BY <1>2, Zenon DEF Reset
  <2>6. executed' \in {"none", "op", "reti"} /\ served' \in Source \cup {"none"}
    BY <1>2 DEF Reset
  <2> QED BY <2>1, <2>2, <2>3, <2>4, <2>5, <2>6 DEF TypeOK
<1>3. CASE InjectRx
  <2>1. ticked' \in BOOLEAN
    BY <1>3, Zenon DEF InjectRx
  <2>2. req' \in SUBSET Source /\ excs' \in SUBSET Exception
        /\ executed' \in {"none", "op", "reti"} /\ served' \in Source \cup {"none"}
    BY <1>3 DEF InjectRx, TypeOK, Source
  <2> QED BY <1>3, <2>1, <2>2 DEF InjectRx, TypeOK
<1>4. CASE UNCHANGED vars
  BY <1>4 DEF vars, machine, TypeOK
<1> QED BY <1>1, <1>2, <1>3, <1>4 DEF Next

(***************************************************************************)
(* Whatever the firmware does and whenever the host resets or injects, the *)
(* machine's registers keep the ranges of the C fields they stand for.     *)
(***************************************************************************)
THEOREM TypeCorrect == Spec => []TypeOK
BY TypeInit, TypeNext, PTL DEF Spec

-----------------------------------------------------------------------------
(***************************************************************************)
(* mInterruptActive, the services in progress and the saved registers go   *)
(* together.                                                               *)
(***************************************************************************)
ServiceInv ==
  /\ active = 0 => Len(frames) = 0
  /\ active = 1 => Len(frames) = 1 /\ frames[1].level = 0
  /\ active = 2 => Len(frames) = 1 /\ frames[1].level = 1
  /\ active = 3 => Len(frames) = 2 /\ frames[1].level = 0 /\ frames[2].level = 1
  /\ \A i \in DOMAIN frames : saved[frames[i].level].sp = frames[i].sp

LEMMA DirtyKeepsServices ==
  ASSUME TypeOK, ServiceInv, UNCHANGED <<active, saved>>,
         NEW m, NEW exc, NEW hit, frames' = Dirtied(m, exc, hit)
  PROVE  ServiceInv'
<1>1. /\ frames' \in Seq(Frame) /\ Len(frames') = Len(frames)
      /\ DOMAIN frames' = DOMAIN frames
      /\ \A i \in DOMAIN frames : /\ frames'[i].level = frames[i].level
                                 /\ frames'[i].sp = frames[i].sp
  BY DirtiedFrames DEF TypeOK
<1>2. DOMAIN frames = 1..Len(frames) /\ Len(frames) \in Nat
  BY DEF TypeOK
<1>3. \A i \in DOMAIN frames' : saved'[frames'[i].level].sp = frames'[i].sp
  BY <1>1 DEF ServiceInv
<1> QED BY <1>1, <1>2, <1>3 DEF ServiceInv, TypeOK

LEMMA EntryKeepsServices ==
  ASSUME TypeOK, ServiceInv, EnterInterrupt
  PROVE  ServiceInv'
<1> DEFINE d == Dirtied(mem', excs', -1)
           f == [level |-> Lvl, ret |-> pc, sp |-> mem'.sp, dirty |-> excs' # {}]
           n == Len(frames)
<1>1. /\ d \in Seq(Frame) /\ Len(d) = n /\ n \in Nat
      /\ DOMAIN frames = 1..n
      /\ \A i \in 1..n : /\ d[i].level = frames[i].level
                        /\ d[i].sp = frames[i].sp
  BY DirtiedFrames DEF TypeOK
<1>2. frames' = Append(d, f)
  BY Zenon DEF EnterInterrupt
<1>3. f.level = Lvl /\ f.sp = mem'.sp
  OBVIOUS
<1> HIDE DEF d, f
<1>4. /\ Len(frames') = n + 1 /\ DOMAIN frames' = 1..(n + 1)
      /\ \A i \in 1..n : frames'[i] = d[i]
      /\ frames'[n + 1] = f
  BY <1>1, <1>2
<1>5. Lvl \in 0..1 /\ saved[0] \in [sp : SPs, ctx : Context] /\ saved' = [saved EXCEPT ![Lvl] = [sp |-> mem'.sp, ctx |-> ctx]]
  BY EntryTypes DEF EnterInterrupt, TypeOK
<1>6. /\ active \in {0, 1} /\ active' \in 1..3
      /\ active = 0 => active' = Lvl + 1 /\ n = 0
      /\ active = 1 => active' = 3 /\ Lvl = 1 /\ n = 1 /\ frames[1].level = 0
  BY DEF EnterInterrupt, Accepted, EntryActive, Lvl, TypeOK, ServiceInv
<1>7. saved'[Lvl].sp = mem'.sp /\ \A l \in 0..1 : l # Lvl => saved'[l] = saved[l]
  BY <1>5 DEF TypeOK
<1>8. \A i \in 1..n : saved'[frames[i].level].sp = frames[i].sp
  BY <1>1, <1>5, <1>6, <1>7 DEF ServiceInv
<1>9. \A i \in DOMAIN frames' : saved'[frames'[i].level].sp = frames'[i].sp
  BY <1>1, <1>3, <1>4, <1>7, <1>8
<1>10. /\ active' = 1 => Len(frames') = 1 /\ frames'[1].level = 0
       /\ active' = 2 => Len(frames') = 1 /\ frames'[1].level = 1
       /\ active' = 3 => Len(frames') = 2 /\ frames'[1].level = 0 /\ frames'[2].level = 1
  <2>1. CASE active = 0
    BY <2>1, <1>3, <1>4, <1>5, <1>6
  <2>2. CASE active = 1
    <3>1. n = 1 /\ active' = 3 /\ Lvl = 1 /\ frames[1].level = 0
      BY <2>2, <1>6
    <3> HIDE DEF n
    <3>2. frames'[1] = d[1] /\ frames'[2] = f /\ Len(frames') = 2
      BY <3>1, <1>4
    <3>3. d[1].level = 0
      BY <3>1, <1>1
    <3> QED BY <3>1, <3>2, <3>3, <1>3
  <2> QED BY <1>6, <2>1, <2>2
<1> QED BY <1>6, <1>9, <1>10 DEF ServiceInv

LEMMA RetiKeepsServices ==
  ASSUME TypeOK, ServiceInv, Reti
  PROVE  ServiceInv'
<1> DEFINE d == Dirtied(mem', excs' \cap {"STACK"}, -1)
           n == Len(frames)
<1>1. /\ d \in Seq(Frame) /\ Len(d) = n /\ n \in Nat
      /\ DOMAIN frames = 1..n
      /\ \A i \in 1..n : /\ d[i].level = frames[i].level
                        /\ d[i].sp = frames[i].sp
  BY DirtiedFrames DEF TypeOK
<1>2. frames' = SubSeq(d, 1, n - 1)
  BY <1>1 DEF Reti
<1> HIDE DEF d
<1>3. /\ active' = ReturnActive /\ saved' = saved /\ active \in 0..3
  BY DEF Reti, TypeOK
<1>4. CASE n = 0
  <2>1. active = 0 /\ active' = 0
    BY <1>3, <1>4 DEF ServiceInv, ReturnActive
  <2>2. frames' = <<>>
    BY <1>1, <1>2, <1>4
  <2> QED BY <2>1, <2>2 DEF ServiceInv
<1>5. CASE n > 0
  <2>1. /\ Len(frames') = n - 1 /\ DOMAIN frames' = 1..(n - 1)
        /\ \A i \in 1..(n - 1) : frames'[i] = d[i]
    BY <1>1, <1>2, <1>5
  <2>2. \A i \in DOMAIN frames' : saved'[frames'[i].level].sp = frames'[i].sp
    BY <1>1, <1>3, <2>1 DEF ServiceInv
  <2>3. \/ active \in {1, 2} /\ active' = 0 /\ n = 1
        \/ active = 3 /\ active' = 1 /\ n = 2 /\ frames[1].level = 0
    BY <1>3, <1>5 DEF ServiceInv, ReturnActive
  <2> QED BY <1>1, <2>1, <2>2, <2>3 DEF ServiceInv
<1> QED BY <1>1, <1>4, <1>5

(***************************************************************************)
(* Every other instruction at most marks the frames dirty.                 *)
(***************************************************************************)
LEMMA OtherInstructions ==
  ASSUME Instruction, ~Reti
  PROVE  /\ UNCHANGED <<active, saved>>
         /\ executed' = "op"
         /\ \E m, exc, hit : frames' = Dirtied(m, exc, hit)
BY DEF Instruction, Run, Store, SetSP, Push, Pop, Call, Ret, WriteIE, WriteIP,
       WriteTCON, WritePCON, Leaves

LEMMA ServiceInit == Init => ServiceInv
BY DEF Init, ServiceInv

LEMMA ServiceNext == TypeOK /\ ServiceInv /\ [Next]_vars => ServiceInv'
<1> SUFFICES ASSUME TypeOK, ServiceInv, [Next]_vars PROVE ServiceInv'
  OBVIOUS
<1>1. CASE EnterInterrupt
  BY <1>1, EntryKeepsServices
<1>2. CASE Reti
  BY <1>2, RetiKeepsServices
<1>3. CASE Instruction /\ ~Reti
  BY <1>3, OtherInstructions, DirtyKeepsServices
<1>4. CASE Burn \/ PowerDown \/ Idle \/ InjectRx \/ UNCHANGED vars
  BY <1>4 DEF Burn, PowerDown, Idle, InjectRx, vars, machine, ServiceInv
<1>5. CASE \E wipe \in BOOLEAN : Reset(wipe)
  BY <1>5 DEF Reset, ServiceInv
<1> QED BY <1>1, <1>2, <1>3, <1>4, <1>5 DEF Next, Tick

THEOREM ServiceCorrect == Spec => [](TypeOK /\ ServiceInv)
<1>1. Init => TypeOK /\ ServiceInv
  BY TypeInit, ServiceInit
<1>2. TypeOK /\ ServiceInv /\ [Next]_vars => (TypeOK /\ ServiceInv)'
  BY TypeNext, ServiceNext
<1> QED BY <1>1, <1>2, PTL DEF Spec

-----------------------------------------------------------------------------
(***************************************************************************)
(* mInterruptActive encodes the nesting of the services in progress for    *)
(* every firmware: it is a faithful stand-in for the stack of levels that  *)
(* the hardware is said to keep.                                           *)
(***************************************************************************)
THEOREM ActiveFaithful == Spec => []ActiveEncodesServices
<1>1. TypeOK /\ ServiceInv => ActiveEncodesServices
  <2> SUFFICES ASSUME TypeOK, ServiceInv PROVE ActiveEncodesServices
    OBVIOUS
  <2>1. /\ DOMAIN frames = 1..Len(frames) /\ Len(frames) \in Nat
        /\ active \in 0..3
    BY DEF TypeOK
  <2>2. CASE active = 0
    <3>1. Levels = <<>>
      BY <2>1, <2>2 DEF ServiceInv, Levels
    <3> QED BY <2>2, <3>1 DEF ActiveEncodesServices
  <2>3. CASE active = 1
    <3>1. Levels = <<0>>
      BY <2>1, <2>3 DEF ServiceInv, Levels
    <3> QED BY <2>3, <3>1 DEF ActiveEncodesServices
  <2>4. CASE active = 2
    <3>1. Levels = <<1>>
      BY <2>1, <2>4 DEF ServiceInv, Levels
    <3> QED BY <2>4, <3>1 DEF ActiveEncodesServices
  <2>5. CASE active = 3
    <3>1. Levels = <<0, 1>>
      BY <2>1, <2>5 DEF ServiceInv, Levels
    <3> QED BY <2>5, <3>1 DEF ActiveEncodesServices
  <2> QED BY <2>1, <2>2, <2>3, <2>4, <2>5
<1> QED BY <1>1, ServiceCorrect, PTL

(***************************************************************************)
(* A request that may be taken is accepted as soon as no cycle is owed:    *)
(* the test of mInterruptActive masks nothing it should let through.       *)
(***************************************************************************)
LEMMA TakeableIsAccepted ==
  ASSUME TypeOK, ServiceInv, Takeable
  PROVE  Accepted
<1>1. PICK s \in Pending : \A i \in DOMAIN frames : frames[i].level = 0 /\ s \in ip
  BY DEF Takeable
<1>2. s \in Source /\ DOMAIN frames = 1..Len(frames) /\ active \in 0..3
  BY <1>1 DEF Pending, TypeOK
<1>3. Choice.lo /\ (s \in ip => Choice.hi)
  BY <1>1, <1>2, ChoiceIsMostUrgent DEF ChoiceOf
<1>4. active \in {0, 1}
  <2>1. active # 2
    BY <1>1, <1>2 DEF ServiceInv
  <2>2. active # 3
    BY <1>1, <1>2 DEF ServiceInv
  <2> QED BY <1>2, <2>1, <2>2
<1>5. active = 1 => s \in ip
  BY <1>1, <1>2 DEF ServiceInv
<1> QED BY <1>3, <1>4, <1>5 DEF Accepted

(***************************************************************************)
(* While a request waits, only cycles already owed are burnt.              *)
(***************************************************************************)
LatencyInv == waited + delay <= 3

LEMMA LatencyNext == TypeOK /\ ServiceInv /\ LatencyInv /\ [Next]_vars => LatencyInv'
<1> SUFFICES ASSUME TypeOK, ServiceInv, LatencyInv, [Next]_vars PROVE LatencyInv'
  OBVIOUS
<1>0. delay' \in 0..3 /\ waited \in Nat
  <2>1. TypeOK'
    BY TypeNext
  <2> QED BY <2>1 DEF TypeOK
<1>1. CASE Tick
  <2>1. CASE Burn /\ served' = "none"
    <3>1. delay \in 1..3 /\ delay' = delay - 1
      BY <2>1 DEF Burn, TypeOK
    <3>2. waited' \in {waited + 1, 0}
      BY <1>1 DEF Tick
    <3>3. waited + delay <= 3
      BY DEF LatencyInv
    <3>4. waited' + delay' <= 3
      <4> DEFINE w == waited'
                 d == delay'
      <4>1. d = delay - 1 /\ w \in {waited + 1, 0} /\ waited \in Nat /\ d \in Nat
        BY <1>0, <3>1, <3>2
      <4> HIDE DEF w, d
      <4>2. w + d <= 3
        BY <3>1, <3>3, <4>1
      <4> QED BY <4>2 DEF w, d
    <3> QED BY <3>4 DEF LatencyInv
  <2>2. CASE ~Takeable \/ EnterInterrupt
    <3>1. waited' = 0
      <4>1. CASE ~Takeable
        BY <1>1, <4>1 DEF Tick
      <4>2. CASE EnterInterrupt
        <5>1. served' # "none"
          BY <4>2, EntryTypes DEF EnterInterrupt, Source
        <5> QED BY <1>1, <5>1 DEF Tick
      <4> QED BY <2>2, <4>1, <4>2
    <3>2. waited' + delay' <= 3
      <4> DEFINE w == waited'
                 d == delay'
      <4>1. w = 0 /\ d \in 0..3
        BY <1>0, <3>1
      <4> HIDE DEF w, d
      <4>2. w + d <= 3
        BY <4>1
      <4> QED BY <4>2 DEF w, d
    <3> QED BY <3>2 DEF LatencyInv
  <2>3. PowerDown => ~Takeable
    BY DEF PowerDown, Takeable
  <2>4. Idle \/ Instruction => ~Takeable
    <3>1. Idle \/ Instruction => ~Accepted
      BY DEF Idle, Instruction, Run, Store, SetSP, Push, Pop, Call, Ret, Reti,
             WriteIE, WriteIP, WriteTCON, WritePCON, Executes
    <3> QED BY <3>1, TakeableIsAccepted
  <2> QED BY <1>1, <2>1, <2>2, <2>3, <2>4 DEF Tick
<1>2. CASE \E wipe \in BOOLEAN : Reset(wipe)
  BY <1>2 DEF Reset, LatencyInv
<1>3. CASE InjectRx \/ UNCHANGED vars
  BY <1>3 DEF InjectRx, vars, machine, LatencyInv
<1> QED BY <1>1, <1>2, <1>3 DEF Next

(***************************************************************************)
(* No acceptable request waits longer than the longest instruction takes,  *)
(* asleep in IDL or not, for every firmware.                               *)
(***************************************************************************)
THEOREM LatencyBounded == Spec => []BoundedLatency
<1>1. Init => LatencyInv
  BY DEF Init, LatencyInv
<1>2. TypeOK /\ LatencyInv => BoundedLatency
  BY DEF TypeOK, LatencyInv, BoundedLatency, MaxDelay
<1> QED BY <1>1, <1>2, ServiceCorrect, LatencyNext, PTL DEF Spec

(***************************************************************************)
(* The request a tick enters is the most urgent of the enabled ones.       *)
(***************************************************************************)
THEOREM MostUrgentServed == Spec => ServesMostUrgent
<1> DEFINE Urgent ==
      served' # "none" =>
        \A s \in (req \cap ie) \ {served'} :
          \/ served' \in ip /\ s \notin ip
          \/ (served' \in ip <=> s \in ip) /\ Rank[served'] < Rank[s]
<1>1. TypeOK /\ [Next]_vars => [Urgent]_vars
  <2> SUFFICES ASSUME TypeOK, Next, served' # "none" PROVE Urgent
    OBVIOUS
  <2>1. EnterInterrupt
    BY DEF Next, Tick, Reset, InjectRx
  <2>2. Choice.lo /\ served' = Choice.dest
    BY <2>1 DEF EnterInterrupt, Accepted
  <2>3. Choice.dest \in Pending /\ req \cap ie = Pending /\ Pending \subseteq Source
    <3>1. Choice.dest \in Pending
      BY <2>2, ChoiceIsMostUrgent DEF ChoiceOf
    <3> QED BY <3>1 DEF Pending, TypeOK
  <2>4. \A t \in Source : t \in Pending /\ t # Choice.dest => Beats(Choice.dest, t)
    BY <2>2, ChoiceIsMostUrgent DEF ChoiceOf
  <2> QED BY <2>2, <2>3, <2>4 DEF Beats
<1> QED BY <1>1, TypeCorrect, PTL DEF Spec, ServesMostUrgent

(***************************************************************************)
(* RETI compares SP with the snapshot of the service it ends, never with   *)
(* that of another one.                                                    *)
(***************************************************************************)
THEOREM RetiReports == Spec => RetiReportsItsOwnImbalance
<1> DEFINE Own ==
      (executed' = "reti" /\ frames # <<>>) =>
        (("IRET_SP" \in excs') <=> (frames[Len(frames)].sp # mem.sp))
<1>1. TypeOK /\ ServiceInv /\ [Next]_vars => [Own]_vars
  <2> SUFFICES ASSUME TypeOK, ServiceInv, Next, executed' = "reti", frames # <<>>
               PROVE  ("IRET_SP" \in excs') <=> (frames[Len(frames)].sp # mem.sp)
    OBVIOUS
  <2>1. Reti
    BY OtherInstructions DEF Next, Tick, EnterInterrupt, Burn, PowerDown, Idle,
                             Reset, InjectRx
  <2> DEFINE n == Len(frames)
             l == IF active > 1 THEN 1 ELSE 0
  <2>2. n \in Nat /\ n > 0 /\ DOMAIN frames = 1..n /\ active \in 0..3
    BY DEF TypeOK
  <2>3. active # 0 /\ frames[n].level = l
    BY <2>2 DEF ServiceInv
  <2>4. saved[l].sp = frames[n].sp
    BY <2>2, <2>3 DEF ServiceInv
  <2>5. "IRET_SP" \in Mismatch <=> saved[l].sp # mem.sp
    BY <2>3 DEF Mismatch
  <2>6. "IRET_SP" \in excs' <=> "IRET_SP" \in Mismatch
    BY <2>1 DEF Reti, StackFault
  <2> QED BY <2>4, <2>5, <2>6
<1> QED BY <1>1, ServiceCorrect, PTL DEF Spec, RetiReportsItsOwnImbalance

-----------------------------------------------------------------------------
(***************************************************************************)
(* Every step of the machine begins or ends a service, abandons them all   *)
(* or leaves them alone.                                                   *)
(***************************************************************************)
LEMMA LevelsSeq ==
  ASSUME TypeOK
  PROVE  /\ Levels \in Seq(0..1) /\ Len(Levels) = Len(frames)
         /\ DOMAIN Levels = 1..Len(frames) /\ Len(frames) \in Nat
<1>1. DOMAIN frames = 1..Len(frames) /\ Len(frames) \in Nat
  BY DEF TypeOK
<1>2. \A i \in 1..Len(frames) : frames[i] \in Frame
  BY <1>1 DEF TypeOK
<1>3. \A i \in 1..Len(frames) : frames[i].level \in 0..1
  BY <1>2 DEF Frame
<1> QED BY <1>1, <1>3 DEF Levels

LEMMA DirtyKeepsLevels ==
  ASSUME TypeOK, NEW m, NEW exc, NEW hit, frames' = Dirtied(m, exc, hit)
  PROVE  Levels' = Levels
<1>1. /\ DOMAIN frames' = DOMAIN frames
      /\ \A i \in DOMAIN frames : frames'[i].level = frames[i].level
  BY DirtiedFrames DEF TypeOK
<1> QED BY <1>1 DEF Levels

LEMMA EntryBegins ==
  ASSUME TypeOK, ServiceInv, EnterInterrupt
  PROVE  \E l \in 0..1 : Nested!Begin(l)
<1> DEFINE d == Dirtied(mem', excs', -1)
           f == [level |-> Lvl, ret |-> pc, sp |-> mem'.sp, dirty |-> excs' # {}]
           n == Len(frames)
<1>1. /\ d \in Seq(Frame) /\ Len(d) = n /\ n \in Nat /\ DOMAIN frames = 1..n
      /\ \A i \in 1..n : d[i].level = frames[i].level
  BY DirtiedFrames DEF TypeOK
<1>2. frames' = Append(d, f) /\ f.level = Lvl
  BY Zenon DEF EnterInterrupt
<1> HIDE DEF d, f
<1>3. /\ DOMAIN frames' = 1..(n + 1) /\ frames'[n + 1].level = Lvl
      /\ \A i \in 1..n : frames'[i].level = frames[i].level
  BY <1>1, <1>2
<1>4. Lvl \in 0..1
  BY EntryTypes DEF EnterInterrupt
<1>5. \A i \in DOMAIN Levels : Levels[i] < Lvl
  <2>1. \/ active = 0 /\ n = 0
        \/ active = 1 /\ n = 1 /\ frames[1].level = 0 /\ Lvl = 1
    BY DEF EnterInterrupt, Accepted, Lvl, TypeOK, ServiceInv
  <2> QED BY <1>1, <2>1 DEF Levels
<1>6. Levels' = Append(Levels, Lvl)
  <2> DEFINE L == Append(Levels, Lvl)
  <2>1. /\ L = [i \in 1..(n + 1) |-> L[i]] /\ L[n + 1] = Lvl
        /\ \A i \in 1..n : L[i] = Levels[i]
    <3>1. Levels \in Seq(0..1) /\ Len(Levels) = n /\ n \in Nat
      BY LevelsSeq
    <3>2. \A S \in Seq(0..1), l \in 0..1 :
            /\ Append(S, l) = [i \in 1..(Len(S) + 1) |-> Append(S, l)[i]]
            /\ Append(S, l)[Len(S) + 1] = l
            /\ \A i \in 1..Len(S) : Append(S, l)[i] = S[i]
      <4> TAKE S \in Seq(0..1), l \in 0..1
      <4> DEFINE A == Append(S, l)
      <4>1. /\ A \in Seq(0..1) /\ Len(A) = Len(S) + 1 /\ A[Len(S) + 1] = l
            /\ \A i \in 1..Len(S) : A[i] = S[i]
        BY AppendProperties
      <4> HIDE DEF A
      <4>2. A = [i \in 1..Len(A) |-> A[i]]
        BY <4>1
      <4> QED BY <4>1, <4>2 DEF A
    <3> QED BY <1>4, <3>1, <3>2
  <2>2. \A i \in 1..n : Levels[i] = frames[i].level
    BY <1>1 DEF Levels
  <2>3. Levels' = [i \in 1..(n + 1) |-> frames'[i].level]
    BY <1>3 DEF Levels
  <2>4. \A i \in 1..(n + 1) : frames'[i].level = L[i]
    BY <1>1, <1>3, <2>1, <2>2
  <2> HIDE DEF L
  <2>5. Levels' = L
    BY <2>1, <2>3, <2>4
  <2> QED BY <2>5 DEF L
<1> QED BY <1>4, <1>5, <1>6 DEF Nested!Begin

LEMMA RetiEnds ==
  ASSUME TypeOK, ServiceInv, Reti
  PROVE  Nested!End \/ Levels' = Levels
<1> DEFINE d == Dirtied(mem', excs' \cap {"STACK"}, -1)
           n == Len(frames)
<1>1. /\ d \in Seq(Frame) /\ Len(d) = n /\ n \in Nat /\ DOMAIN frames = 1..n
      /\ \A i \in 1..n : d[i].level = frames[i].level
  BY DirtiedFrames DEF TypeOK
<1>2. frames' = SubSeq(d, 1, n - 1)
  BY <1>1 DEF Reti
<1> HIDE DEF d
<1>3. CASE n = 0
  <2>1. frames' = <<>> /\ frames = <<>>
    BY <1>1, <1>2, <1>3 DEF TypeOK
  <2> QED BY <2>1 DEF Levels
<1>4. CASE n > 0
  <2>1. /\ DOMAIN frames' = 1..(n - 1)
        /\ \A i \in 1..(n - 1) : frames'[i].level = frames[i].level
    BY <1>1, <1>2, <1>4
  <2>2. Levels \in Seq(0..1) /\ Len(Levels) = n
    BY LevelsSeq
  <2> DEFINE L == SubSeq(Levels, 1, n - 1)
  <2>3. /\ L = [i \in 1..(n - 1) |-> L[i]]
        /\ \A i \in 1..(n - 1) : L[i] = Levels[i]
    BY <1>1, <1>4, <2>2
  <2>4. \A i \in 1..(n - 1) : Levels[i] = frames[i].level
    BY <1>1 DEF Levels
  <2>5. Levels' = [i \in 1..(n - 1) |-> frames'[i].level]
    BY <2>1 DEF Levels
  <2>6. Levels' = L
    BY <2>1, <2>3, <2>4, <2>5
  <2>7. Levels # <<>>
    BY <1>4, <2>2
  <2> QED BY <2>2, <2>6, <2>7 DEF Nested!End
<1> QED BY <1>1, <1>3, <1>4

(***************************************************************************)
(* tick() and reset() implement two-level nested service: mInterruptActive *)
(* and the tests of handle_interrupts() never let a service interrupt one  *)
(* of its own or of a higher level.                                        *)
(***************************************************************************)
THEOREM CoreImplementsNesting == Spec => ImplementsNesting
<1>1. Init => Nested!Init
  <2>1. Init => Levels = <<>>
    BY DEF Init, Levels
  <2> QED BY <2>1 DEF Nested!Init
<1>2. TypeOK /\ ServiceInv /\ [Next]_vars => [Nested!Next]_Levels
  <2> SUFFICES ASSUME TypeOK, ServiceInv, [Next]_vars
               PROVE  Nested!Next \/ Levels' = Levels
    OBVIOUS
  <2>1. CASE EnterInterrupt
    BY <2>1, EntryBegins DEF Nested!Next, Nested!Level
  <2>2. CASE Reti
    BY <2>2, RetiEnds DEF Nested!Next
  <2>3. CASE Instruction /\ ~Reti
    BY <2>3, OtherInstructions, DirtyKeepsLevels
  <2>4. CASE Burn \/ PowerDown \/ Idle \/ InjectRx \/ UNCHANGED vars
    BY <2>4 DEF Burn, PowerDown, Idle, InjectRx, vars, machine, Levels
  <2>5. CASE \E wipe \in BOOLEAN : Reset(wipe)
    <3>1. Levels' = <<>>
      BY <2>5 DEF Reset, Levels
    <3> QED BY <3>1 DEF Nested!Next, Nested!Abandon
  <2> QED BY <2>1, <2>2, <2>3, <2>4, <2>5 DEF Next, Tick
<1> QED BY <1>1, <1>2, ServiceCorrect, PTL DEF Spec, ImplementsNesting, Nested!Spec

-----------------------------------------------------------------------------
(***************************************************************************)
(* A service that is not dirty still has its return address where its      *)
(* entry pushed it, and the stack has not gone below it.                   *)
(***************************************************************************)
FrameHeld(f, m) ==
  ~f.dirty => /\ f.sp \in Cell /\ f.sp >= 2 /\ f.sp <= m.sp
              /\ m.ram[f.sp] = High(f.ret) /\ m.ram[f.sp - 1] = Low(f.ret)

FramesHeld == \A i \in DOMAIN frames : FrameHeld(frames[i], mem)

(***************************************************************************)
(* A byte pushed without a fault lies above all that was on the stack.     *)
(***************************************************************************)
LEMMA PushedAbove ==
  ASSUME NEW m \in Memory, NEW v \in Byte, ~PushFaults(m)
  PROVE  LET n == Pushed(m, v)
         IN  /\ n \in Memory /\ n.sp = m.sp + 1 /\ n.sp \in Cell
             /\ n.ram[n.sp] = v
             /\ \A c \in Cell : c <= m.sp => n.ram[c] = m.ram[c]
<1> DEFINE s == (m.sp + 1) % (2 * Half)
<1>1. m.sp \in 0..2 * Half - 1 /\ Half \in Nat \ {0} /\ m.ram \in [Cell -> Byte]
  BY CoreAssumption DEF Memory, SPs
<1>2. s \in Cell /\ s # 0
  BY DEF PushFaults, Stored
<1>3. s = m.sp + 1
  BY <1>1, <1>2
<1>4. Pushed(m, v) = [sp |-> s, ram |-> [m.ram EXCEPT ![s] = v]]
  BY <1>2 DEF Pushed, Stored
<1>5. \A c \in Cell : c \in Int
  BY CoreAssumption DEF Cell
<1> HIDE DEF s
<1>6. [m.ram EXCEPT ![s] = v][s] = v /\ \A c \in Cell : c <= m.sp => [m.ram EXCEPT ![s] = v][c] = m.ram[c]
  BY <1>1, <1>2, <1>3, <1>5
<1> QED BY <1>2, <1>3, <1>4, <1>6, StackTypes

LEMMA PoppedFacts ==
  ASSUME NEW m \in Memory
  PROVE  /\ Popped(m) \in Memory /\ Popped(m).ram = m.ram
         /\ m.sp >= 1 => Popped(m).sp = m.sp - 1
         /\ TopByte(m) \in Byte
<1>1. Popped(m) \in Memory /\ TopByte(m) \in Byte
  BY StackTypes, CoreAssumption DEF Byte
<1>2. Popped(m).ram = m.ram /\ Popped(m).sp = (m.sp - 1) % (2 * Half)
  BY DEF Popped, Memory
<1>3. m.sp \in 0..2 * Half - 1 /\ 2 * Half \in Nat \ {0}
  BY CoreAssumption DEF Memory, SPs
<1>4. m.sp >= 1 => (m.sp - 1) % (2 * Half) = m.sp - 1
  BY <1>3
<1> QED BY <1>1, <1>2, <1>4

LEMMA PushedAddrAbove ==
  ASSUME NEW m \in Memory, NEW a \in Addr, ~PushAddrFaults(m)
  PROVE  LET n == PushedAddr(m, a)
         IN  /\ n.sp = m.sp + 2 /\ n.sp \in Cell
             /\ n.ram[n.sp] = High(a) /\ n.ram[n.sp - 1] = Low(a)
             /\ \A c \in Cell : c <= m.sp => n.ram[c] = m.ram[c]
<1> DEFINE k == Pushed(m, Low(a))
           n == Pushed(k, High(a))
<1>1. Low(a) \in Byte /\ High(a) \in Byte /\ Bad \in Byte
  BY BytesOfAddr, CoreAssumption DEF Byte
<1>2. ~PushFaults(m) /\ ~PushFaults(Pushed(m, Bad))
  BY DEF PushAddrFaults
<1>3. ~PushFaults(k)
  BY <1>2 DEF PushFaults, Pushed
<1>4. /\ k \in Memory /\ k.sp = m.sp + 1 /\ k.sp \in Cell /\ k.ram[k.sp] = Low(a)
      /\ \A c \in Cell : c <= m.sp => k.ram[c] = m.ram[c]
  BY <1>1, <1>2, PushedAbove
<1> HIDE DEF k
<1>5. /\ n \in Memory /\ n.sp = k.sp + 1 /\ n.sp \in Cell /\ n.ram[n.sp] = High(a)
      /\ \A c \in Cell : c <= k.sp => n.ram[c] = k.ram[c]
  BY <1>1, <1>3, <1>4, PushedAbove
<1>6. n = PushedAddr(m, a)
  BY DEF PushedAddr, k
<1> HIDE DEF n
<1>7. m.sp \in Int /\ \A c \in Cell : c \in Int
  BY CoreAssumption DEF Memory, SPs, Cell
<1>8. n.sp = m.sp + 2 /\ n.sp - 1 = k.sp
  BY <1>4, <1>5, <1>7
<1>9. n.ram[n.sp - 1] = Low(a)
  BY <1>4, <1>5, <1>7, <1>8
<1>10. \A c \in Cell : c <= m.sp => n.ram[c] = m.ram[c]
  BY <1>4, <1>5, <1>7
<1> QED BY <1>5, <1>6, <1>8, <1>9, <1>10

(***************************************************************************)
(* Frames stay held where what is written is above the stack, or marks     *)
(* what it hits.                                                           *)
(***************************************************************************)
LEMMA DirtiedHeld ==
  ASSUME TypeOK, FramesHeld, NEW m \in Memory, NEW exc, NEW hit,
         exc = {} => \A a \in Cell : a <= mem.sp /\ a # hit => m.ram[a] = mem.ram[a]
  PROVE  \A i \in DOMAIN frames : FrameHeld(Dirtied(m, exc, hit)[i], m)
<1> SUFFICES ASSUME NEW i \in DOMAIN frames PROVE FrameHeld(Dirtied(m, exc, hit)[i], m)
  OBVIOUS
<1> DEFINE f == frames[i]
           b == f.dirty \/ exc # {} \/ m.sp < f.sp \/ hit \in {f.sp, f.sp - 1}
           g == [f EXCEPT !.dirty = b]
<1>1. f \in Frame /\ FrameHeld(f, mem)
  BY DEF TypeOK, FramesHeld
<1>2. Dirtied(m, exc, hit)[i] = g
  BY DEF Dirtied
<1>3. b \in BOOLEAN
  OBVIOUS
<1>4. g.dirty = b /\ g.sp = f.sp /\ g.ret = f.ret
  <2> HIDE DEF b
  <2> QED BY <1>1, <1>3 DEF Frame
<1>5. ASSUME ~b PROVE FrameHeld(g, m)
  <2>1. ~f.dirty /\ exc = {} /\ ~(m.sp < f.sp) /\ hit # f.sp /\ hit # f.sp - 1
    BY <1>5
  <2>2. f.sp \in Cell /\ f.sp >= 2 /\ f.sp <= mem.sp /\ f.sp - 1 \in Cell /\ f.sp - 1 <= mem.sp
    BY <1>1, <2>1, CoreAssumption, SMTT(20) DEF FrameHeld, Cell, TypeOK, Memory, SPs
  <2>3. m.ram[f.sp] = mem.ram[f.sp] /\ m.ram[f.sp - 1] = mem.ram[f.sp - 1]
    BY <2>1, <2>2
  <2>4. f.sp <= m.sp
    BY <1>1, <2>1, CoreAssumption DEF Memory, SPs, Frame
  <2> HIDE DEF f, g, b
  <2> QED BY <1>1, <1>4, <2>1, <2>2, <2>3, <2>4 DEF FrameHeld
<1>6. b => FrameHeld(g, m)
  <2> HIDE DEF f, b, g
  <2> QED BY <1>4 DEF FrameHeld
<1> QED BY <1>2, <1>5, <1>6

LEMMA LeavesHeld ==
  ASSUME TypeOK, FramesHeld, NEW m \in Memory, NEW exc, NEW hit, Leaves(m, exc, hit),
         exc = {} => \A a \in Cell : a <= mem.sp /\ a # hit => m.ram[a] = mem.ram[a]
  PROVE  FramesHeld'
<1>1. mem' = m /\ frames' = Dirtied(m, exc, hit)
  BY DEF Leaves
<1>2. DOMAIN frames' = DOMAIN frames
  BY <1>1, DirtiedFrames DEF TypeOK
<1> QED BY <1>1, <1>2, DirtiedHeld DEF FramesHeld

(***************************************************************************)
(* Each instruction but RETI writes above the stack, where it says, or     *)
(* nothing.                                                                *)
(***************************************************************************)
LEMMA InstructionHeld ==
  ASSUME TypeOK, FramesHeld, Instruction, ~Reti
  PROVE  FramesHeld'
<1>0. mem \in Memory /\ mem.ram \in [Cell -> Byte]
  BY DEF TypeOK, Memory
<1>1. CASE Run \/ WriteIE \/ WriteIP \/ WriteTCON \/ WritePCON
  <2>1. Leaves(mem, {}, -1)
    BY <1>1 DEF Run, WriteIE, WriteIP, WriteTCON, WritePCON
  <2> QED BY <1>0, <2>1, LeavesHeld
<1>2. CASE Store
  <2>1. PICK a \in Cell, v \in Byte : Leaves([mem EXCEPT !.ram[a] = v], {}, a)
    BY <1>2 DEF Store
  <2> DEFINE m == [mem EXCEPT !.ram[a] = v]
  <2>2. m \in Memory /\ \A c \in Cell : c # a => m.ram[c] = mem.ram[c]
    BY <1>0 DEF Memory
  <2> HIDE DEF m
  <2> QED BY <2>1, <2>2, LeavesHeld DEF m
<1>3. CASE SetSP
  <2>1. PICK s \in SPs : Leaves([mem EXCEPT !.sp = s], {}, -1)
    BY <1>3 DEF SetSP
  <2> DEFINE m == [mem EXCEPT !.sp = s]
  <2>2. m \in Memory /\ \A c \in Cell : m.ram[c] = mem.ram[c]
    BY <1>0 DEF Memory
  <2> HIDE DEF m
  <2> QED BY <2>1, <2>2, LeavesHeld DEF m
<1>4. CASE Push
  <2>1. PICK v \in Byte : Leaves(Pushed(mem, v), StackFault(PushFaults(mem)), -1)
    BY <1>4 DEF Push
  <2>2. Pushed(mem, v) \in Memory
    BY <1>0, StackTypes
  <2>3. StackFault(PushFaults(mem)) = {} =>
          \A c \in Cell : c <= mem.sp => Pushed(mem, v).ram[c] = mem.ram[c]
    BY <1>0, PushedAbove DEF StackFault
  <2> QED BY <2>1, <2>2, <2>3, LeavesHeld
<1>5. CASE Pop
  <2> DEFINE m == Popped(mem)
             v == TopByte(mem)
             fault == StackFault(PopFaults(mem))
  <2>1. m \in Memory /\ m.ram = mem.ram /\ v \in Byte /\ v % (2 * Half) \in SPs
    <3>1. m \in Memory /\ v \in Byte /\ m.ram = mem.ram
      BY <1>0, PoppedFacts
    <3>2. 2 * Half \in Nat \ {0}
      BY CoreAssumption
    <3> HIDE DEF m, v
    <3>3. v % (2 * Half) \in 0..2 * Half - 1
      BY <3>1, <3>2, CoreAssumption DEF Byte
    <3> QED BY <3>1, <3>3 DEF SPs
  <2>2. \/ Leaves(m, fault, -1)
        \/ \E a \in 0..Half - 1 : Leaves([m EXCEPT !.ram[a] = v], fault, a)
        \/ Leaves([m EXCEPT !.sp = v % (2 * Half)], fault, -1)
    BY <1>5 DEF Pop
  <2> HIDE DEF m, v, fault
  <2>3. CASE Leaves(m, fault, -1)
    BY <2>1, <2>3, LeavesHeld
  <2>4. ASSUME NEW a \in 0..Half - 1, Leaves([m EXCEPT !.ram[a] = v], fault, a)
        PROVE  FramesHeld'
    <3> DEFINE n == [m EXCEPT !.ram[a] = v]
    <3>1. n \in Memory /\ \A c \in Cell : c # a => n.ram[c] = mem.ram[c]
      <4>1. a \in Cell
        BY CoreAssumption DEF Cell
      <4> QED BY <2>1, <4>1 DEF Memory
    <3>2. Leaves(n, fault, a)
      BY <2>4
    <3> HIDE DEF n
    <3> QED BY <3>1, <3>2, LeavesHeld
  <2>5. CASE Leaves([m EXCEPT !.sp = v % (2 * Half)], fault, -1)
    <3> DEFINE n == [m EXCEPT !.sp = v % (2 * Half)]
    <3>1. n \in Memory /\ n.ram = mem.ram
      BY <2>1 DEF Memory
    <3> HIDE DEF n
    <3> QED BY <2>5, <3>1, LeavesHeld DEF n
  <2> QED BY <2>2, <2>3, <2>4, <2>5
<1>6. CASE Call
  <2>1. PICK a \in After : Leaves(PushedAddr(mem, a), StackFault(PushAddrFaults(mem)), -1)
    BY <1>6 DEF Call
  <2>2. a \in Addr
    BY AfterType DEF TypeOK
  <2>3. PushedAddr(mem, a) \in Memory
    BY <1>0, <2>2, AddrStackTypes
  <2>4. StackFault(PushAddrFaults(mem)) = {} =>
          \A c \in Cell : c <= mem.sp => PushedAddr(mem, a).ram[c] = mem.ram[c]
    BY <1>0, <2>2, PushedAddrAbove DEF StackFault
  <2> QED BY <2>1, <2>3, <2>4, LeavesHeld
<1>7. CASE Ret
  <2>1. Leaves(Popped(Popped(mem)), StackFault(PopAddrFaults(mem)), -1)
    BY <1>7 DEF Ret
  <2>2. Popped(Popped(mem)) \in Memory /\ Popped(Popped(mem)).ram = mem.ram
    BY <1>0, PoppedFacts
  <2> QED BY <2>1, <2>2, LeavesHeld
<1> QED BY <1>1, <1>2, <1>3, <1>4, <1>5, <1>6, <1>7 DEF Instruction

LEMMA EntryHeld ==
  ASSUME TypeOK, FramesHeld, EnterInterrupt
  PROVE  FramesHeld'
<1> DEFINE d == Dirtied(mem', excs', -1)
           f == [level |-> Lvl, ret |-> pc, sp |-> mem'.sp, dirty |-> excs' # {}]
           n == Len(frames)
<1>1. /\ mem \in Memory /\ pc \in Addr /\ mem' = PushedAddr(mem, pc) /\ mem' \in Memory
      /\ excs' = StackFault(PushAddrFaults(mem))
  BY AddrStackTypes DEF TypeOK, EnterInterrupt
<1>2. excs' = {} => /\ mem'.sp = mem.sp + 2 /\ mem'.sp \in Cell
                    /\ mem'.ram[mem'.sp] = High(pc) /\ mem'.ram[mem'.sp - 1] = Low(pc)
                    /\ \A c \in Cell : c <= mem.sp => mem'.ram[c] = mem.ram[c]
  BY <1>1, PushedAddrAbove DEF StackFault
<1>3. \A i \in DOMAIN frames : FrameHeld(d[i], mem')
  BY <1>1, <1>2, DirtiedHeld
<1>4. d \in Seq(Frame) /\ Len(d) = n /\ n \in Nat /\ DOMAIN frames = 1..n
  BY DirtiedFrames DEF TypeOK
<1>5. frames' = Append(d, f)
  BY Zenon DEF EnterInterrupt
<1>6. FrameHeld(f, mem')
  <2>1. mem.sp \in Nat /\ mem'.sp \in Nat
    BY <1>1, CoreAssumption DEF Memory, SPs
  <2>2. CASE excs' = {}
    BY <1>2, <2>1, <2>2 DEF FrameHeld
  <2>3. CASE excs' # {}
    BY <2>3 DEF FrameHeld
  <2> QED BY <2>2, <2>3
<1> HIDE DEF d, f
<1>7. DOMAIN frames' = 1..n + 1 /\ frames'[n + 1] = f /\ \A i \in 1..n : frames'[i] = d[i]
  BY <1>4, <1>5
<1> QED BY <1>3, <1>4, <1>6, <1>7 DEF FramesHeld

LEMMA RetiHeld ==
  ASSUME TypeOK, FramesHeld, Reti
  PROVE  FramesHeld'
<1> DEFINE d == Dirtied(mem', excs' \cap {"STACK"}, -1)
           n == Len(frames)
<1>1. mem' = Popped(Popped(mem)) /\ mem' \in Memory /\ mem'.ram = mem.ram
  <2>1. Popped(Popped(mem)) \in Memory /\ Popped(Popped(mem)).ram = mem.ram
    BY PoppedFacts DEF TypeOK
  <2> QED BY <2>1 DEF Reti
<1>2. \A i \in DOMAIN frames : FrameHeld(d[i], mem')
  BY <1>1, DirtiedHeld
<1>3. d \in Seq(Frame) /\ Len(d) = n /\ n \in Nat /\ DOMAIN frames = 1..n
  BY DirtiedFrames DEF TypeOK
<1>4. frames' = SubSeq(d, 1, n - 1)
  BY <1>3 DEF Reti
<1> HIDE DEF d
<1>5. \A i \in DOMAIN frames' : i \in 1..n /\ frames'[i] = d[i]
  BY <1>3, <1>4
<1> QED BY <1>2, <1>3, <1>5 DEF FramesHeld

LEMMA HeldNext == TypeOK /\ FramesHeld /\ [Next]_vars => FramesHeld'
<1> SUFFICES ASSUME TypeOK, FramesHeld, [Next]_vars PROVE FramesHeld'
  OBVIOUS
<1>1. CASE EnterInterrupt
  BY <1>1, EntryHeld
<1>2. CASE Reti
  BY <1>2, RetiHeld
<1>3. CASE Instruction /\ ~Reti
  BY <1>3, InstructionHeld
<1>4. CASE Burn \/ PowerDown \/ Idle \/ InjectRx \/ UNCHANGED vars
  BY <1>4 DEF Burn, PowerDown, Idle, InjectRx, vars, machine, FramesHeld
<1>5. CASE \E wipe \in BOOLEAN : Reset(wipe)
  BY <1>5 DEF Reset, FramesHeld
<1> QED BY <1>1, <1>2, <1>3, <1>4, <1>5 DEF Next, Tick

(***************************************************************************)
(* While no handler is caught going below its frame, overwriting it or     *)
(* overflowing the stack, its return address stays where its entry left    *)
(* it, through every call and service above it.                            *)
(***************************************************************************)
THEOREM AddressesHeld == Spec => []FramesHeld
<1>1. Init => FramesHeld
  BY DEF Init, FramesHeld
<1> QED BY <1>1, HeldNext, TypeCorrect, PTL DEF Spec

(***************************************************************************)
(* A handler that kept to its part of the stack and left SP as it found it *)
(* returns to the very address it interrupted.                             *)
(***************************************************************************)
THEOREM ReturnsRight == Spec => ReturnsWhereInterrupted
<1> DEFINE Right ==
      (executed' = "reti" /\ frames # <<>> /\ excs' \cap {"STACK", "IRET_SP"} = {}
        /\ ~frames[Len(frames)].dirty)
      => pc' = frames[Len(frames)].ret
    Own ==
      (executed' = "reti" /\ frames # <<>>) =>
        (("IRET_SP" \in excs') <=> (frames[Len(frames)].sp # mem.sp))
<1>1. TypeOK /\ FramesHeld /\ [Next]_vars /\ [Own]_vars => [Right]_vars
  <2> SUFFICES ASSUME TypeOK, FramesHeld, Next, Own \/ UNCHANGED vars, ~UNCHANGED vars,
                      executed' = "reti", frames # <<>>, excs' \cap {"STACK", "IRET_SP"} = {},
                      ~frames[Len(frames)].dirty
               PROVE  pc' = frames[Len(frames)].ret
    OBVIOUS
  <2> DEFINE f == frames[Len(frames)]
             s == f.sp
  <2>1. Reti
    BY OtherInstructions DEF Next, Tick, EnterInterrupt, Burn, PowerDown, Idle, Reset, InjectRx
  <2>2. f \in Frame /\ FrameHeld(f, mem)
    BY DEF TypeOK, FramesHeld
  <2>3. s = mem.sp
    OBVIOUS
  <2>4. s \in Cell /\ s >= 2 /\ mem.ram[s] = High(f.ret) /\ mem.ram[s - 1] = Low(f.ret)
    BY <2>2 DEF FrameHeld
  <2>5. mem \in Memory /\ s \in 0..2 * Half - 1 /\ Half \in Nat \ {0} /\ s - 1 \in Cell
    BY <2>3, <2>4, CoreAssumption DEF TypeOK, Memory, SPs, Cell
  <2>6. Popped(mem).sp = s - 1 /\ Popped(mem).ram = mem.ram
    BY <2>3, <2>4, <2>5, PoppedFacts
  <2>7. TopAddr(mem) = High(f.ret) * ByteBase + Low(f.ret)
    BY <2>3, <2>4, <2>5, <2>6 DEF TopAddr, TopByte, Stored
  <2>8. f.ret \in Nat /\ ByteBase \in Nat \ {0}
    BY <2>2, CoreAssumption DEF Frame, Addr
  <2>9. High(f.ret) * ByteBase + Low(f.ret) = f.ret
    <3> HIDE DEF f
    <3>1. f.ret \div ByteBase \in Nat /\ f.ret = ByteBase * (f.ret \div ByteBase) + (f.ret % ByteBase)
      BY <2>8, Division
    <3> QED BY <2>8, <3>1 DEF High, Low
  <2> QED BY <2>1, <2>7, <2>9 DEF Reti
<1> QED BY <1>1, AddressesHeld, TypeCorrect, RetiReports, PTL
        DEF Spec, RetiReportsItsOwnImbalance, ReturnsWhereInterrupted

=============================================================================
