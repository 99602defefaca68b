-------------------------------- MODULE Core --------------------------------
(***************************************************************************)
(* The machine-cycle engine of the emulator: tick(), handle_interrupts()   *)
(* and reset() of core.c, with the stack and return instructions of        *)
(* opcodes.c they meet.  One Tick is one call of tick(): it burns a cycle, *)
(* sleeps, enters an interrupt or executes one instruction.                *)
(*                                                                         *)
(* Firmware is unknown, so an instruction is any member of a class with    *)
(* any of the costs its handlers return.  Bytes are 0..ByteBase-1 and      *)
(* addresses are pairs of bytes; Half is the number of directly            *)
(* addressable RAM bytes (128 in the code, SP wraps at 2 * Half).          *)
(* timer_tick() is seen only through the request flags it may change; its  *)
(* own arithmetic is the subject of module Timers.                         *)
(***************************************************************************)
EXTENDS Integers, Sequences

CONSTANTS
  ByteBase,    \* number of values of a byte (256)
  Half,        \* bytes of lower RAM (128); SP takes 2 * Half values
  HasUpper,    \* mUpperData is allocated
  ResetSP,     \* SP after reset (7)
  Bad,         \* BAD_VALUE, what a read of absent RAM yields
  Vector,      \* address of each request's handler
  Firmware,    \* instruction classes the program uses
  IEValues,    \* values the program writes to IE
  IPValues,    \* values the program writes to IP
  TimerFlag,   \* requests the timers and the serial port raise
  Lengths,     \* instruction lengths: 1, 2 or 3 bytes
  Costs,       \* delays the handlers return: 0, 1, or 3 for MUL and DIV
  Context      \* values of ACC and of the PSW bits RETI compares; 0 at reset

Byte == 0..ByteBase - 1
Addr == 0..ByteBase * ByteBase - 1
SPs  == 0..2 * Half - 1
Cell == 0..(IF HasUpper THEN 2 * Half ELSE Half) - 1
Memory == [sp : SPs, ram : [Cell -> Byte]]

(* The request flags IE0, TF0, IE1, TF1 and serial_interrupt_trigger.      *)
Source   == {"INT0", "TF0", "INT1", "TF1", "SR"}
TconFlag  == Source \ {"SR"}          \* what a write to TCON may change

OpClass == {"Run", "Ret", "Reti", "Call", "Push", "Pop", "SetSP", "Store",
            "WriteIE", "WriteIP", "WriteTCON", "WritePCON"}
Exception == {"STACK", "IRET_SP", "IRET_CONTEXT"}

ASSUME CoreAssumption ==
  /\ ByteBase \in Nat \ {0}
  /\ Half \in Nat \ {0}
  /\ HasUpper \in BOOLEAN
  /\ ResetSP \in 0..2 * Half - 1
  /\ Bad \in 0..ByteBase - 1
  /\ Vector \in [Source -> 0..ByteBase * ByteBase - 1]
  /\ Firmware \subseteq OpClass
  /\ IEValues \subseteq SUBSET (Source \cup {"EA"})
  /\ IPValues \subseteq SUBSET Source
  /\ TimerFlag \subseteq {"TF0", "TF1", "SR"}
  /\ Lengths \subseteq 1..3
  /\ Costs \subseteq {0, 1, 3}
  /\ 0 \in Context

VARIABLES
  pc, mem,     \* mPC; [sp |-> SP, ram |-> internal RAM]
  delay,       \* mTickDelay
  active,      \* mInterruptActive: bit 0 a low, bit 1 a high service
  ctx,         \* ACC and PSW
  saved,       \* int_sp and int_a/int_psw, by level
  ie, ip,      \* enable bits (with "EA") and priority bits
  req,         \* the request flags that are set
  pcon,        \* IDL and PD bits of PCON
  excs,        \* exceptions the last step reported
  ticked,      \* what tick() returned: idle and power-down cycles count too
  executed,    \* "reti", "op" for any other, "none": the last step's (history)
  served,      \* the request the last step entered (history)
  frames,      \* the interrupt services in progress (history)
  waited       \* ticks an acceptable request has been waiting (history)

machine == <<pc, mem, delay, active, ctx, saved, ie, ip, req, pcon>>
vars    == <<machine, excs, ticked, executed, served, frames, waited>>

-----------------------------------------------------------------------------
(* push_to_stack and pop_from_stack: SP wraps, a byte aimed at absent RAM  *)
(* is lost (and read back as Bad), and both report EXCEPTION_STACK.        *)

Stored(s) == s \in Cell

Pushed(m, v) ==
  LET s == (m.sp + 1) % (2 * Half)
  IN  [sp |-> s, ram |-> IF Stored(s) THEN [m.ram EXCEPT ![s] = v] ELSE m.ram]

PushFaults(m) ==
  LET s == (m.sp + 1) % (2 * Half) IN ~Stored(s) \/ s = 0

TopByte(m)   == IF Stored(m.sp) THEN m.ram[m.sp] ELSE Bad
Popped(m)    == [m EXCEPT !.sp = (@ - 1) % (2 * Half)]
PopFaults(m) == ~Stored(m.sp) \/ m.sp = 0

Low(a)  == a % ByteBase
High(a) == a \div ByteBase

\* A call that pushes the high byte first.
PushedAddrSwapped(m, a) == Pushed(Pushed(m, High(a)), Low(a))

PushedAddr(m, a)  == Pushed(Pushed(m, Low(a)), High(a))
PushAddrFaults(m) == PushFaults(m) \/ PushFaults(Pushed(m, Bad))
TopAddr(m)        == TopByte(m) * ByteBase + TopByte(Popped(m))
PopAddrFaults(m)  == PopFaults(m) \/ PopFaults(Popped(m))

StackFault(faults) == IF faults THEN {"STACK"} ELSE {}

-----------------------------------------------------------------------------
(* The polling chain of handle_interrupts(): each source in turn may       *)
(* replace the choice so far, until a high-priority one has been found.    *)

Pending == IF "EA" \in ie THEN req \cap ie ELSE {}

\* A chain that lets a low-priority source displace the one found before it.
PollLast(c, s) ==
  IF s \in Pending /\ ~c.hi
  THEN [dest |-> s, lo |-> TRUE, hi |-> s \in ip]
  ELSE c

Poll(c, s) ==
  IF s \in Pending /\ ~c.hi
  THEN [dest |-> IF c.lo /\ s \notin ip THEN c.dest ELSE s,
        lo |-> TRUE, hi |-> s \in ip]
  ELSE c

Choice ==
  Poll(Poll(Poll(Poll(Poll([dest |-> "none", lo |-> FALSE, hi |-> FALSE],
    "INT0"), "TF0"), "INT1"), "TF1"), "SR")

\* A test of mInterruptActive that lets nothing interrupt a low service.
AcceptedOnlyIdle == active = 0 /\ Choice.lo

\* A test that lets a high request interrupt a high service.
AcceptedAnyHigh == Choice.lo /\ (active > 0 => Choice.hi)

Accepted ==
  /\ active <= 1
  /\ Choice.lo
  /\ active = 1 => Choice.hi

Lvl == IF Choice.hi THEN 1 ELSE 0

\* An entry that forgets the low service a high one interrupts.
EntryActiveOverwrites == IF Choice.hi THEN 2 ELSE 1

EntryActive == IF Choice.hi THEN active + 2 ELSE 1      \* |= 2, active <= 1

\* A RETI that ends every service in progress.
ReturnActiveClears == 0

ReturnActive == IF active > 1 THEN active - 2 ELSE 0    \* &= ~2

-----------------------------------------------------------------------------
(* History: a frame records the level of a service, the address it         *)
(* interrupted and the SP its handler started with; it is dirty once the   *)
(* handler has gone below that SP, overwritten the saved address, or a     *)
(* stack exception was reported.                                           *)

Dirtied(m, exc, hit) ==
  [i \in DOMAIN frames |->
     [frames[i] EXCEPT !.dirty =
        @ \/ exc # {} \/ m.sp < frames[i].sp
          \/ hit \in {frames[i].sp, frames[i].sp - 1}]]

(* Some enabled request outranks every service in progress and the CPU is  *)
(* not powered down.                                                       *)
Takeable ==
  /\ "PD" \notin pcon
  /\ \E s \in Pending : \A i \in DOMAIN frames : frames[i].level = 0 /\ s \in ip

(* timer_tick(), as far as the requests show it: it may raise its flags,   *)
(* and a serial bit clocked out by timer 1 clears TF1.                     *)
TimerTick(r) ==
  \E raise \in SUBSET TimerFlag, drop \in SUBSET ({"TF1"} \cap r) :
    req' = (r \ drop) \cup raise

-----------------------------------------------------------------------------
(* The five ways through tick().                                           *)

Burn ==        \* a cycle of an instruction or of an interrupt entry
  /\ delay > 0
  /\ delay' = delay - 1
  /\ TimerTick(req)
  /\ executed' = "none" /\ ticked' = FALSE /\ excs' = {}
  /\ UNCHANGED <<pc, mem, active, ctx, saved, ie, ip, pcon, frames>>

PowerDown ==   \* nothing runs, not even the timers
  /\ delay = 0 /\ "PD" \in pcon
  /\ executed' = "none" /\ ticked' = TRUE /\ excs' = {}
  /\ UNCHANGED <<machine, frames>>

Ready == delay = 0 /\ "PD" \notin pcon

EnterInterrupt ==
  /\ Ready /\ Accepted
  /\ pcon' = pcon \ {"IDL"}
  /\ mem' = PushedAddr(mem, pc)
  /\ excs' = StackFault(PushAddrFaults(mem))
  /\ pc' = Vector[Choice.dest]
  /\ delay' = 1
  /\ TimerTick(IF Choice.dest \in {"TF0", "TF1", "SR"}
               THEN req \ {Choice.dest} ELSE req)
  /\ active' = EntryActive
  /\ saved' = [saved EXCEPT ![Lvl] = [sp |-> mem'.sp, ctx |-> ctx]]
  /\ executed' = "none" /\ ticked' = FALSE /\ served' = Choice.dest
  /\ frames' = Append(Dirtied(mem', excs', -1),
                     [level |-> Lvl, ret |-> pc, sp |-> mem'.sp,
                      dirty |-> excs' # {}])
  /\ UNCHANGED <<ctx, ie, ip>>

Idle ==        \* IDL is set and no request is accepted
  /\ Ready /\ ~Accepted /\ "IDL" \in pcon
  /\ TimerTick(req)
  /\ executed' = "none" /\ ticked' = TRUE /\ excs' = {}
  /\ UNCHANGED <<pc, mem, delay, active, ctx, saved, ie, ip, pcon, frames>>

(* An instruction leaves memory m and reports exc; hit is the RAM cell it  *)
(* wrote, -1 if none.  It takes one cycle more than the delay it returns.  *)
Executes(c) == Ready /\ ~Accepted /\ "IDL" \notin pcon /\ c \in Firmware

After == {(pc + len) % (ByteBase * ByteBase) : len \in Lengths}

Leaves(m, exc, hit) ==
  /\ mem' = m
  /\ excs' = exc
  /\ executed' = "op" /\ ticked' = TRUE
  /\ frames' = Dirtied(m, exc, hit)

Run ==         \* arithmetic, moves, branches
  /\ Executes("Run")
  /\ pc' \in Addr /\ ctx' \in Context /\ delay' \in Costs
  /\ TimerTick(req)
  /\ Leaves(mem, {}, -1)
  /\ UNCHANGED <<active, saved, ie, ip, pcon>>

(* An instruction that writes a register or a RAM cell may be a move, an   *)
(* exchange with ACC or a branch on what it wrote (JBC, DJNZ).             *)
Writes ==
  /\ pc' \in Addr /\ ctx' \in Context /\ delay' \in Costs \ {3}

Store ==       \* into internal RAM
  /\ Executes("Store")
  /\ \E a \in Cell, v \in Byte :
       Leaves([mem EXCEPT !.ram[a] = v], {}, a)
  /\ Writes
  /\ TimerTick(req)
  /\ UNCHANGED <<active, saved, ie, ip, pcon>>

SetSP ==
  /\ Executes("SetSP")
  /\ \E s \in SPs : Leaves([mem EXCEPT !.sp = s], {}, -1)
  /\ Writes
  /\ TimerTick(req)
  /\ UNCHANGED <<active, saved, ie, ip, pcon>>

Push ==
  /\ Executes("Push")
  /\ \E v \in Byte :
       Leaves(Pushed(mem, v), StackFault(PushFaults(mem)), -1)
  /\ pc' \in After /\ delay' = 1
  /\ TimerTick(req)
  /\ UNCHANGED <<active, ctx, saved, ie, ip, pcon>>

Pop ==         \* into ACC or PSW, into lower RAM, or into SP itself
  /\ Executes("Pop")
  /\ LET m == Popped(mem)  v == TopByte(mem)  fault == StackFault(PopFaults(mem))
     IN  \/ Leaves(m, fault, -1) /\ ctx' \in Context
         \/ \E a \in 0..Half - 1 :
              Leaves([m EXCEPT !.ram[a] = v], fault, a) /\ UNCHANGED ctx
         \/ Leaves([m EXCEPT !.sp = v % (2 * Half)], fault, -1) /\ UNCHANGED ctx
  /\ pc' \in After /\ delay' = 1
  /\ TimerTick(req)
  /\ UNCHANGED <<active, saved, ie, ip, pcon>>

Call ==        \* ACALL, LCALL: next is the address after the instruction
  /\ Executes("Call")
  /\ \E next \in After :
       Leaves(PushedAddr(mem, next), StackFault(PushAddrFaults(mem)), -1)
  /\ pc' \in Addr /\ delay' = 1
  /\ TimerTick(req)
  /\ UNCHANGED <<active, ctx, saved, ie, ip, pcon>>

Ret ==
  /\ Executes("Ret")
  /\ Leaves(Popped(Popped(mem)), StackFault(PopAddrFaults(mem)), -1)
  /\ pc' = TopAddr(mem) /\ delay' = 1
  /\ TimerTick(req)
  /\ UNCHANGED <<active, ctx, saved, ie, ip, pcon>>

\* A RETI that always compares with the low level's saved registers.
MismatchLow ==
  IF active = 0 THEN {}
  ELSE (IF saved[0].sp # mem.sp THEN {"IRET_SP"} ELSE {}) \cup
       (IF saved[0].ctx # ctx THEN {"IRET_CONTEXT"} ELSE {})

Mismatch ==    \* what RETI reports of the service it ends
  LET s == saved[IF active > 1 THEN 1 ELSE 0]
  IN  IF active = 0 THEN {}
      ELSE (IF s.sp # mem.sp THEN {"IRET_SP"} ELSE {}) \cup
           (IF s.ctx # ctx THEN {"IRET_CONTEXT"} ELSE {})

Reti ==
  /\ Executes("Reti")
  /\ active' = ReturnActive
  /\ pc' = TopAddr(mem) /\ delay' = 1
  /\ mem' = Popped(Popped(mem))
  /\ excs' = Mismatch \cup StackFault(PopAddrFaults(mem))
  /\ frames' = LET fs == Dirtied(mem', excs' \cap {"STACK"}, -1)
               IN  SubSeq(fs, 1, Len(fs) - 1)
  /\ executed' = "reti" /\ ticked' = TRUE
  /\ TimerTick(req)
  /\ UNCHANGED <<ctx, saved, ie, ip, pcon>>

WriteIE ==
  /\ Executes("WriteIE")
  /\ ie' \in IEValues /\ Writes
  /\ TimerTick(req)
  /\ Leaves(mem, {}, -1)
  /\ UNCHANGED <<active, saved, ip, pcon>>

WriteIP ==
  /\ Executes("WriteIP")
  /\ ip' \in IPValues /\ Writes
  /\ TimerTick(req)
  /\ Leaves(mem, {}, -1)
  /\ UNCHANGED <<active, saved, ie, pcon>>

WriteTCON ==   \* also how IE0 and IE1 get set: no pin does it
  /\ Executes("WriteTCON")
  /\ \E flags \in SUBSET TconFlag : TimerTick((req \ TconFlag) \cup flags)
  /\ Writes
  /\ Leaves(mem, {}, -1)
  /\ UNCHANGED <<active, saved, ie, ip, pcon>>

WritePCON ==
  /\ Executes("WritePCON")
  /\ pcon' \in SUBSET {"IDL", "PD"} /\ Writes
  /\ TimerTick(req)
  /\ Leaves(mem, {}, -1)
  /\ UNCHANGED <<active, saved, ie, ip>>

-----------------------------------------------------------------------------
(* Between ticks the host may reset the CPU or inject a serial byte.       *)

Reset(wipe) ==
  /\ pc' = 0 /\ delay' = 0 /\ active' = 0 /\ ctx' = 0
  /\ mem' = [sp |-> ResetSP,
             ram |-> IF wipe THEN [a \in Cell |-> 0] ELSE mem.ram]
  /\ ie' = {} /\ ip' = {} /\ req' = {} /\ pcon' = {}
  /\ excs' = {} /\ executed' = "none" /\ ticked' = FALSE
  /\ served' = "none" /\ frames' = <<>> /\ waited' = 0
  /\ UNCHANGED saved

InjectRx ==    \* sim_uart_inject_rx: without ES it raises no request
  /\ "SR" \in ie
  /\ req' = req \cup {"SR"}
  /\ excs' = {} /\ executed' = "none" /\ ticked' = FALSE /\ served' = "none"
  /\ UNCHANGED <<pc, mem, delay, active, ctx, saved, ie, ip, pcon, frames, waited>>

Init ==
  /\ pc = 0 /\ delay = 0 /\ active = 0 /\ ctx = 0
  /\ mem = [sp |-> ResetSP, ram |-> [a \in Cell |-> 0]]
  /\ saved = [l \in 0..1 |-> [sp |-> 0, ctx |-> 0]]
  /\ ie = {} /\ ip = {} /\ req = {} /\ pcon = {}
  /\ excs = {} /\ executed = "none" /\ ticked = FALSE
  /\ served = "none" /\ frames = <<>> /\ waited = 0

Instruction ==
  \/ Run \/ Store \/ SetSP \/ Push \/ Pop \/ Call \/ Ret \/ Reti
  \/ WriteIE \/ WriteIP \/ WriteTCON \/ WritePCON

Tick ==
  /\ \/ EnterInterrupt
     \/ (Burn \/ PowerDown \/ Idle \/ Instruction) /\ served' = "none"
  /\ waited' = IF Takeable /\ served' = "none" /\ Takeable' THEN waited + 1 ELSE 0

Next == Tick \/ (\E wipe \in BOOLEAN : Reset(wipe)) \/ InjectRx

Spec == Init /\ [][Next]_vars

-----------------------------------------------------------------------------
(***************************************************************************)
(* The variables keep the ranges of the C fields they stand for.           *)
(***************************************************************************)
Frame == [level : 0..1, ret : Addr, sp : SPs, dirty : BOOLEAN]

TypeOK ==
  /\ pc \in Addr
  /\ mem \in Memory
  /\ delay \in {0, 1, 2, 3}
  /\ active \in 0..3
  /\ ctx \in Context
  /\ saved \in [0..1 -> [sp : SPs, ctx : Context]]
  /\ ie \in SUBSET (Source \cup {"EA"}) /\ ip \in SUBSET Source
  /\ req \in SUBSET Source
  /\ pcon \in SUBSET {"IDL", "PD"}
  /\ excs \in SUBSET Exception
  /\ ticked \in BOOLEAN
  /\ executed \in {"none", "op", "reti"}
  /\ served \in Source \cup {"none"}
  /\ frames \in Seq(Frame)
  /\ waited \in Nat

(***************************************************************************)
(* mInterruptActive says exactly which services are in progress: bit 0 for *)
(* a low one, bit 1 for a high one, whatever was entered, returned from or *)
(* nested before.                                                          *)
(***************************************************************************)
Levels == [i \in DOMAIN frames |-> frames[i].level]

ActiveEncodesServices ==
  Levels = CASE active = 0 -> <<>>
             [] active = 1 -> <<0>>
             [] active = 2 -> <<1>>
             [] active = 3 -> <<0, 1>>

(***************************************************************************)
(* tick() with its five paths implements two-level nested service.         *)
(***************************************************************************)
Nested == INSTANCE NestedService WITH services <- Levels
ImplementsNesting == Nested!Spec

(***************************************************************************)
(* A service's register snapshot outlives every service nested in it, so   *)
(* RETI compares SP with the right one: it reports IRET_SP if and only if  *)
(* the handler's SP is not the one the handler was entered with.           *)
(***************************************************************************)
RetiReportsItsOwnImbalance ==
  [][(executed' = "reti" /\ frames # <<>>) =>
       (("IRET_SP" \in excs') <=> (frames[Len(frames)].sp # mem.sp))]_vars

(***************************************************************************)
(* A handler that keeps to its part of the stack and leaves SP as it found *)
(* it returns to the very address it interrupted, however many services    *)
(* and calls came in between; if it returns elsewhere, the frame was       *)
(* damaged or an exception has been reported.                              *)
(***************************************************************************)
ReturnsWhereInterrupted ==
  [][(executed' = "reti" /\ frames # <<>> /\ excs' \cap {"STACK", "IRET_SP"} = {}
      /\ ~frames[Len(frames)].dirty)
     => pc' = frames[Len(frames)].ret]_vars

(***************************************************************************)
(* The polling chain always serves the most urgent request: no other       *)
(* enabled request is high when the one served is low, and among equals    *)
(* the one polled first wins.                                              *)
(***************************************************************************)
Rank == [INT0 |-> 1, TF0 |-> 2, INT1 |-> 3, TF1 |-> 4, SR |-> 5]

ServesMostUrgent ==
  [][served' # "none" =>
       \A s \in (req \cap ie) \ {served'} :
         \/ served' \in ip /\ s \notin ip
         \/ (served' \in ip <=> s \in ip) /\ Rank[served'] < Rank[s]]_vars

(***************************************************************************)
(* A request that may be served now (enabled, not masked by a service of   *)
(* its own or a higher level) is served, it or a more urgent one, within   *)
(* the longest instruction: it waits at most three ticks, asleep or not.   *)
(***************************************************************************)
MaxDelay == 3
BoundedLatency == waited <= MaxDelay

=============================================================================
