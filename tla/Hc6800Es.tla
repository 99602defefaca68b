------------------------------ MODULE Hc6800Es ------------------------------
(***************************************************************************)
(* The board plugin of boards/hc6800_es_plugin.c: devices are created on   *)
(* demand by methods, before, between or during ticks; those that count    *)
(* time have a hook each in the host's table, which has room for MaxHooks  *)
(* and which other plugins fill too.  sim_post_tick walks the table.       *)
(***************************************************************************)
EXTENDS Integers, Sequences

CONSTANTS
  Timed,          \* devices with a tick hook: lcd, ds1302, servo, fan, iap
  Untimed,        \* digit display, xpt2046, enc28j60
  StartOver,      \* those board_reset starts over: lcd, digit display, iap
  PinsNamed,      \* those whose pins the caller names: servo, enc28j60, fan
  Fallible,       \* those whose creation may fail: iap
  MaxHooks,       \* MAX_PLUGIN_HOOKS
  MaxBoardTicks, MaxResets   \* bounds

ASSUME BoardAssumption ==
  /\ Timed \cap Untimed = {} /\ StartOver \cup PinsNamed \subseteq Timed \cup Untimed
  /\ Fallible \subseteq Timed /\ "other plugin" \notin Timed \cup Untimed
  /\ MaxHooks \in Nat /\ MaxBoardTicks \in Nat /\ MaxResets \in Nat

Devices == Timed \cup Untimed
Other == "other plugin"

VARIABLES
  board,      \* devices that exist; the hooks installed (the TICK_ bits)
  hooks,      \* the host's tick hook table, each entry a device or Other
  turn,       \* 0 between ticks, else the next hook of the tick under way
  steps,      \* steps each device has made since it started (its time)
  due,        \* ticks each device has been there for since it started (history)
  used        \* ticks and resets so far

boardvars == <<board, hooks, turn, steps, due, used>>

\* A hook installed at each try, whether or not it is there already.
NeedTickAgain(d) == IF Len(hooks) < MaxHooks THEN Append(hooks, d) ELSE hooks

NeedTick(d) ==       \* the table afterwards
  IF d \in board.ticks \/ Len(hooks) >= MaxHooks THEN hooks ELSE Append(hooks, d)

Hooked(d) == d \in board.ticks \/ Len(hooks) < MaxHooks

Create(d) ==
  /\ board' = [board EXCEPT !.there = @ \cup {d}, !.ticks = IF d \in Timed THEN @ \cup {d} ELSE @]
  /\ steps' = [steps EXCEPT ![d] = 0]
  /\ due' = [due EXCEPT ![d] = IF turn > 0 /\ \E i \in turn..Len(hooks') : hooks'[i] = d THEN 1 ELSE 0]

(* m_enable_*: a method call, between ticks or from another plugin's hook. *)
Callable == turn # 0 => turn \in 1..Len(hooks) /\ hooks[turn] = Other

EnableAgain(d) ==    \* OK at once
  /\ Callable /\ d \in board.there
  /\ UNCHANGED boardvars

EnableBadPins(d) ==  \* BAD_ARGS before anything is installed
  /\ Callable /\ d \in PinsNamed \ board.there
  /\ UNCHANGED boardvars

Enable(d) ==
  /\ Callable /\ d \notin board.there
  /\ d \in Timed => Hooked(d)
  /\ hooks' = IF d \in Timed THEN NeedTick(d) ELSE hooks
  /\ Create(d)
  /\ UNCHANGED <<turn, used>>

EnableHalf(d) ==     \* the hook is in, the model could not be made
  /\ Callable /\ d \in Fallible \ board.there /\ Hooked(d)
  /\ hooks' = NeedTick(d)
  /\ board' = [board EXCEPT !.ticks = @ \cup {d}]
  /\ UNCHANGED <<turn, steps, due, used>>

EnableFull(d) ==     \* no room for the hook: CALL_FAILED, nothing changes
  /\ Callable /\ d \in Timed \ board.there /\ ~Hooked(d)
  /\ UNCHANGED boardvars

OtherHooks ==        \* another plugin's on_tick
  /\ turn = 0 /\ Len(hooks) < MaxHooks
  /\ hooks' = Append(hooks, Other)
  /\ UNCHANGED <<board, turn, steps, due, used>>

StartTick ==
  /\ turn = 0 /\ used.ticks < MaxBoardTicks
  /\ turn' = 1
  /\ due' = [d \in Devices |-> IF d \in board.there THEN due[d] + 1 ELSE due[d]]
  /\ used' = [used EXCEPT !.ticks = @ + 1]
  /\ UNCHANGED <<board, hooks, steps>>

RunHook ==           \* the count is read again after each hook
  /\ turn \in 1..Len(hooks)
  /\ LET d == hooks[turn]
     IN  steps' = IF d \in board.there THEN [steps EXCEPT ![d] = @ + 1] ELSE steps
  /\ turn' = turn + 1
  /\ UNCHANGED <<board, hooks, due, used>>

EndTick ==
  /\ turn > Len(hooks)
  /\ turn' = 0
  /\ UNCHANGED <<board, hooks, steps, due, used>>

BoardReset ==        \* sim_reset: these start over, the others keep their state
  /\ turn = 0 /\ used.resets < MaxResets
  /\ LET over == StartOver \cap board.there
     IN  /\ steps' = [d \in Devices |-> IF d \in over THEN 0 ELSE steps[d]]
         /\ due' = [d \in Devices |-> IF d \in over THEN 0 ELSE due[d]]
  /\ used' = [used EXCEPT !.resets = @ + 1]
  /\ UNCHANGED <<board, hooks, turn>>

BoardInit ==
  /\ board = [there |-> {}, ticks |-> {}]
  /\ hooks = <<>> /\ turn = 0
  /\ steps = [d \in Devices |-> 0] /\ due = [d \in Devices |-> 0]
  /\ used = [ticks |-> 0, resets |-> 0]

BoardNext ==
  \/ \E d \in Devices : \/ EnableAgain(d) \/ EnableBadPins(d) \/ Enable(d)
                        \/ EnableHalf(d) \/ EnableFull(d)
  \/ OtherHooks \/ StartTick \/ RunHook \/ EndTick \/ BoardReset

BoardSpec == BoardInit /\ [][BoardNext]_boardvars

-----------------------------------------------------------------------------
(***************************************************************************)
(* Each timed device is stepped exactly once per tick, from the tick it is *)
(* enabled in on if its hook is still to run then, else from the next one, *)
(* however often the call failed or was repeated before.                   *)
(***************************************************************************)
DevicesTickOnce ==
  turn = 0 => \A d \in Timed \cap board.there : steps[d] = due[d]

=============================================================================
