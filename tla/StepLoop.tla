------------------------------ MODULE StepLoop ------------------------------
(***************************************************************************)
(* The loops that run a simulation: sim_step and sim_step_instructions of  *)
(* sim/capi.c over tick mode and instruction mode (sim/plugin.c).  A hook  *)
(* may switch to instruction mode in the middle of any loop; begin hooks   *)
(* end a step as a wait of any length, zero too.  A tick is TickClocks     *)
(* clocks in both modes.                                                   *)
(***************************************************************************)
EXTENDS Integers

CONSTANTS
  TickClocks,       \* 12
  Costs,            \* clocks a wait, an interrupt entry or an instruction takes
  Lengths,          \* instruction lengths
  Offsets,          \* relative jump offsets
  PcSize,           \* 65536
  BudgetPer,        \* plugin steps sim_step_instructions allows for each (100)
  Requests,         \* ticks or instructions the caller asks for
  MaxClocks,        \* bound: a call starts only below this count
  MaxRun            \* bound: clocks no call that ends can exceed

ASSUME StepAssumption ==
  /\ TickClocks \in Nat \ {0} /\ BudgetPer \in Nat \ {0} /\ {MaxClocks, MaxRun} \subseteq Nat
  /\ Costs \subseteq Nat /\ Lengths \subseteq Nat /\ Requests \subseteq Nat \ {0}
  /\ PcSize \in Nat \ {0, 1} /\ Offsets \subseteq 1 - PcSize..PcSize - 1

VARIABLES
  mode,       \* instruction_mode, whether there are step hooks, have_cycles
  loop,       \* the loop under way and what is left of it
  count,      \* total_clocks, total_ticks, total_instructions, device_clocks
  pc,
  posted,     \* sim_post_tick calls since the reset (history)
  ran,        \* the last instruction: was it to jump, from where, what it cost
  asked       \* the call under way or done last (history)

stepvars == <<mode, loop, count, pc, posted, ran, asked>>

Rest == loop.kind = "none"

TickCount == IF mode.instruction THEN count.clocks \div TickClocks ELSE count.ticks

-----------------------------------------------------------------------------
(* The calls.                                                              *)

LoopFor(call, n) ==
  CASE call = "ticks" /\ mode.instruction -> [kind |-> "clocks", left |-> count.clocks + TickClocks * n]
    [] call = "ticks" /\ ~mode.instruction /\ mode.hooks -> [kind |-> "hooked", left |-> n]
    [] call = "ticks" /\ ~mode.instruction /\ ~mode.hooks -> [kind |-> "plain", left |-> n]
    [] call = "instructions" /\ (mode.instruction \/ mode.hooks) ->
         [kind |-> "counted", left |-> n * BudgetPer]
    [] OTHER -> [kind |-> "countedplain", left |-> n * BudgetPer]

Call(call, n) ==
  /\ Rest /\ count.clocks < MaxClocks
  /\ loop' = LoopFor(call, n)
  /\ asked' = [call |-> call, n |-> n, clocks |-> count.clocks, done |-> count.instructions,
               switched |-> FALSE]
  /\ UNCHANGED <<mode, count, pc, posted, ran>>

Counted == loop.kind \in {"counted", "countedplain"}

MoreToDo ==
  CASE loop.kind = "clocks" -> count.clocks < loop.left
    [] Counted -> count.instructions - asked.done < asked.n /\ loop.left > 0
    [] OTHER -> loop.left > 0

\* The budget counted in the plain loop only.
TurnCountedFree ==
  IF loop.kind \in {"clocks", "counted"} THEN loop ELSE [loop EXCEPT !.left = @ - 1]

Turn == IF loop.kind = "clocks" THEN loop ELSE [loop EXCEPT !.left = @ - 1]

(* The plain loop counts ticks and clocks only once it is over.            *)
Return ==
  /\ ~Rest /\ ~MoreToDo
  /\ loop' = [kind |-> "none", left |-> 0]
  /\ count' = IF loop.kind = "plain"
              THEN [count EXCEPT !.ticks = @ + asked.n, !.clocks = @ + TickClocks * asked.n]
              ELSE count
  /\ UNCHANGED <<mode, pc, posted, ran, asked>>

(* A plugin installs a hook or a cycle table, between or within steps.     *)
Switch(cycles, hooks) ==
  /\ ~(mode.instruction /\ (mode.cycles \/ ~cycles) /\ (mode.hooks \/ ~hooks))
  /\ mode' = [instruction |-> TRUE, cycles |-> mode.cycles \/ cycles, hooks |-> mode.hooks \/ hooks]
  /\ asked' = [asked EXCEPT !.switched = @ \/ (~Rest /\ ~mode.instruction)]
  /\ UNCHANGED <<loop, count, pc, posted, ran>>

InstallEnd ==        \* step hooks with nothing but an end
  /\ ~mode.hooks /\ mode' = [mode EXCEPT !.hooks = TRUE]
  /\ UNCHANGED <<loop, count, pc, posted, ran, asked>>

-----------------------------------------------------------------------------
(* The steps.                                                              *)

ByTick == loop.kind \in {"plain", "countedplain"} \/ ~mode.instruction

TickStep(whole) ==   \* tick, sim_post_tick; whole: an instruction ended
  /\ ~Rest /\ MoreToDo /\ ByTick /\ count.clocks <= MaxRun
  /\ posted' = posted + 1
  /\ LET n == IF whole THEN count.instructions + 1 ELSE count.instructions
     IN  count' = IF loop.kind = "plain" THEN [count EXCEPT !.instructions = n]
                  ELSE [count EXCEPT !.instructions = n, !.ticks = @ + 1, !.clocks = @ + TickClocks]
  /\ loop' = Turn
  /\ UNCHANGED <<mode, pc, ran, asked>>

\* The clocks left over dropped at each step.
ChargeRounded(c, clocks) ==
  [c EXCEPT !.clocks = @ + clocks, !.device = 0]

Charge(c, clocks) ==
  [c EXCEPT !.clocks = @ + clocks, !.device = (@ + clocks) % TickClocks]

Takes(clocks, instructions) ==
  /\ count' = [Charge(count, clocks) EXCEPT !.instructions = @ + instructions]
  /\ posted' = posted + (count.device + clocks) \div TickClocks
  /\ loop' = Turn

InMode == ~Rest /\ MoreToDo /\ ~ByTick /\ count.clocks <= MaxRun

WaitStep(clocks) ==  \* a begin hook ends the step
  /\ InMode /\ mode.hooks /\ Takes(clocks, 0)
  /\ UNCHANGED <<mode, pc, ran, asked>>

EnterStep(clocks) == \* an interrupt hook enters a vector
  /\ InMode /\ Takes(clocks, 0) /\ pc' = 3 % PcSize
  /\ UNCHANGED <<mode, ran, asked>>

\* A jump of offset 0 told by where it lands.
ExecutedUnpatched(cond, offset, len, jumps) ==
  LET next == (pc + len) % PcSize
      to   == IF jumps THEN (next + offset) % PcSize ELSE next
  IN  [pc |-> to, taken |-> to # next]

(* The PC afterwards and `taken`, with the operand patched to 1 for the    *)
(* call of a conditional jump to the next instruction.                     *)
Executed(cond, offset, len, jumps) ==
  LET next  == (pc + len) % PcSize
      patch == mode.cycles /\ cond /\ offset = 0
      to    == IF jumps THEN (next + (IF patch THEN 1 ELSE offset)) % PcSize ELSE next
      taken == IF patch THEN to = (next + 1) % PcSize ELSE to # next
  IN  [pc |-> IF patch /\ taken THEN next ELSE to, taken |-> taken]

InstructionStep(cond, offset, len, jumps, clocks, more) ==
  /\ InMode
  /\ LET e == Executed(cond, offset, len, jumps)
         c == IF mode.cycles /\ e.taken /\ cond THEN clocks + more ELSE clocks
     IN  /\ pc' = e.pc
         /\ Takes(c, 1)
         /\ ran' = [cond |-> cond, jumps |-> jumps, cycles |-> mode.cycles,
                    to |-> IF jumps THEN (pc + len + offset) % PcSize ELSE (pc + len) % PcSize,
                    table |-> clocks, more |-> more, cost |-> c]
  /\ UNCHANGED <<mode, asked>>

SimReset ==          \* sim_reset zeroes the counts, not the mode
  /\ Rest
  /\ count' = [clocks |-> 0, ticks |-> 0, instructions |-> 0, device |-> 0]
  /\ pc' = 0 /\ posted' = 0
  /\ asked' = [asked EXCEPT !.call = "none"]
  /\ UNCHANGED <<mode, loop, ran>>

StepInit ==
  /\ mode = [instruction |-> FALSE, cycles |-> FALSE, hooks |-> FALSE]
  /\ loop = [kind |-> "none", left |-> 0]
  /\ count = [clocks |-> 0, ticks |-> 0, instructions |-> 0, device |-> 0]
  /\ pc = 0 /\ posted = 0
  /\ ran = [cond |-> FALSE, jumps |-> FALSE, cycles |-> FALSE, to |-> 0, table |-> 0, more |-> 0,
            cost |-> 0]
  /\ asked = [call |-> "none", n |-> 0, clocks |-> 0, done |-> 0, switched |-> FALSE]

RunStep ==
  \/ \E whole \in BOOLEAN : TickStep(whole)
  \/ \E c \in Costs : WaitStep(c) \/ EnterStep(c)
  \/ \E cond, jumps \in BOOLEAN, offset \in Offsets, len \in Lengths, c \in Costs \ {0} :
       InstructionStep(cond, offset, len, jumps, c, 1)
  \/ Return

StepNext ==
  \/ \E n \in Requests, call \in {"ticks", "instructions"} : Call(call, n)
  \/ RunStep
  \/ \E cycles, hooks \in BOOLEAN : Switch(cycles, hooks)
  \/ InstallEnd
  \/ SimReset

StepSpec == StepInit /\ [][StepNext]_stepvars

StepFairness == WF_stepvars(RunStep)

-----------------------------------------------------------------------------
(***************************************************************************)
(* When no call is under way the tick hooks ran once per TickClocks clocks *)
(* since the reset, sim_get_tick_count counts them, in tick mode, across a *)
(* switch and after it; and a sim_step that no switch cut short ran what   *)
(* it was asked for.                                                       *)
(***************************************************************************)
TicksFollowClocks ==
  Rest =>
    /\ count.clocks = TickClocks * posted + count.device
    /\ TickCount = posted
    /\ asked.call = "ticks" /\ ~asked.switched =>
         count.clocks - asked.clocks >= TickClocks * asked.n

(***************************************************************************)
(* A conditional jump is charged its taken clocks exactly when it jumps,   *)
(* offset 0 included, and lands where it should.                           *)
(***************************************************************************)
JumpsAreCharged ==
  [][ran' # ran =>
       /\ pc' = ran'.to
       /\ ran'.cost = ran'.table + (IF ran'.cycles /\ ran'.cond /\ ran'.jumps THEN ran'.more ELSE 0)]_stepvars

(***************************************************************************)
(* sim_step_instructions returns, whatever the begin hooks answer: its     *)
(* budget of steps runs out.  (sim_step in instruction mode has none.)     *)
(***************************************************************************)
StepInstructionsEnd == Counted ~> Rest

=============================================================================
