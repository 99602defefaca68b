----------------------------- MODULE PluginHost -----------------------------
(***************************************************************************)
(* The plugin host of sim/plugin.c: loading, names, failed inits, the      *)
(* hooks on MOVX, opcodes and exceptions, reset and close.  An init is two *)
(* steps, and what a plugin installs in between stays when it fails.  A    *)
(* name is a sequence: <<"a", 2>> is "a#2", which is also a name a plugin  *)
(* may ask for.                                                            *)
(***************************************************************************)
EXTENDS Integers, Sequences

CONSTANTS
  Wanted,           \* names plugins ask for; <<>> for none
  MaxPlugins,       \* MAX_PLUGINS
  MaxXdataHooks,    \* MAX_XDATA_HOOKS
  MaxFilters,       \* MAX_PLUGIN_HOOKS, of exception filters
  Ranges,           \* what on_xdata is asked for: lo, hi, and whether rd and wr
  MaxInstalls,      \* bound: filters and ranges installed
  MaxExceptions,    \* MAX_EXCEPTIONS
  Filters,          \* what filters do: functions from Codes to Codes and Drop
  Codes, XramRange, \* exception codes; SIM_EXCEPTION_XRAM_RANGE
  Addresses,        \* MOVX addresses
  Opcodes           \* opcodes a plugin may replace

Drop == -1
CoreHandler == 0    \* the owner of what no plugin replaced

ASSUME HostAssumption ==
  /\ {MaxPlugins, MaxXdataHooks, MaxFilters, MaxInstalls, MaxExceptions} \subseteq Nat
  /\ Ranges \subseteq [lo : Addresses, hi : Addresses, rd : BOOLEAN, wr : BOOLEAN]
  /\ Codes \subseteq Nat /\ XramRange \in Codes /\ Addresses \subseteq Nat
  /\ Filters \subseteq [Codes -> Codes \cup {Drop}]
  /\ \A name \in Wanted : Len(name) \in Nat /\ name = [i \in 1..Len(name) |-> name[i]]

VARIABLES
  plugins,    \* the slots: name ("" is inert), whether its table is kept
  loading,    \* an init is running, in the last slot
  filters,    \* exc_hooks
  ranges,     \* xdata_hooks: lo, hi, whether rd and wr, owner
  ops,        \* ops[].fn, by owner
  handler,    \* cpu.op[]: whether op_trampoline
  xram,       \* xram_size, 0 for no limit
  dispatch,   \* cpu.xread and cpu.xwrite are on_xread and on_xwrite
  log,        \* exceptions, exception_count
  closing,    \* "open", then how far plugin_destroy_all got
  story       \* who must answer, as loads and installs said (history)

hostvars == <<plugins, loading, filters, ranges, ops, handler, xram, dispatch, log, closing, story>>

PluginSlots == 1..Len(plugins)
IsOpen == closing.phase = "open"

\* A slot whose code may still run: its init runs, or its table is kept.
Running(i) == IsOpen /\ ((loading /\ i = Len(plugins)) \/ plugins[i].kept)

-----------------------------------------------------------------------------
(* Names.                                                                  *)

Named(name) ==       \* plugin_named: the slot, 0 for none
  LET found == {i \in PluginSlots : plugins[i].name # <<>> /\ plugins[i].name = name}
  IN  IF found = {} THEN 0 ELSE CHOOSE i \in found : \A j \in found : i <= j

Numbered(base, n) == IF n = 1 THEN base ELSE Append(base, n)

\* Numbered without another look.
UniqueOnce(base) == IF Named(base) = 0 THEN base ELSE Numbered(base, 2)

(* The first of base, base#2, base#3, ... no other slot has.  (The loop    *)
(* writes each try into the slot itself.)                                  *)
Unique(base) ==
  LET free == {n \in 1..(Len(plugins) + 1) : Named(Numbered(base, n)) = 0}
  IN  Numbered(base, CHOOSE n \in free : \A m \in free : n <= m)

-----------------------------------------------------------------------------
(* Loading: attach, before, within and after aInit.                        *)

Attach ==            \* sim_add_plugin, sim_load_plugin
  /\ IsOpen /\ ~loading /\ Len(plugins) < MaxPlugins
  /\ plugins' = Append(plugins, [name |-> <<>>, kept |-> FALSE])
  /\ loading' = TRUE
  /\ UNCHANGED <<filters, ranges, ops, handler, xram, dispatch, log, closing, story>>

InitFails ==         \* an error, or another ABI: inert, the slot taken
  /\ IsOpen /\ loading
  /\ loading' = FALSE
  /\ UNCHANGED <<plugins, filters, ranges, ops, handler, xram, dispatch, log, closing, story>>

InitDone(wanted) ==
  LET base == IF wanted = <<>> THEN <<"plugin">> ELSE wanted
      name == Unique(base)
      me   == Len(plugins)
  IN  /\ IsOpen /\ loading
      /\ plugins' = [plugins EXCEPT ![me] = [name |-> name, kept |-> TRUE]]
      /\ loading' = FALSE
      /\ story' = [story EXCEPT !.names = @ \cup {<<name, me>>}]
      /\ UNCHANGED <<filters, ranges, ops, handler, xram, dispatch, log, closing>>

-----------------------------------------------------------------------------
(* What a plugin installs.                                                 *)

MayInstall == Len(filters) + Len(ranges) < MaxInstalls

OnException(i, f) ==
  /\ Running(i) /\ Len(filters) < MaxFilters /\ MayInstall
  /\ filters' = Append(filters, f)
  /\ UNCHANGED <<plugins, loading, ranges, ops, handler, xram, dispatch, log, closing, story>>

OnXdata(i, r) ==
  /\ Running(i) /\ Len(ranges) < MaxXdataHooks /\ r.lo <= r.hi /\ MayInstall
  /\ ranges' = Append(ranges, [range |-> r, owner |-> i])
  /\ dispatch' = TRUE
  /\ story' = [story EXCEPT !.serves =
                 [a \in Addresses |-> IF a \in r.lo..r.hi THEN [owner |-> i, rd |-> r.rd, wr |-> r.wr]
                                      ELSE @[a]]]
  /\ UNCHANGED <<plugins, loading, filters, ops, handler, xram, log, closing>>

SetOpcode(i, op) ==
  /\ Running(i)
  /\ ops' = [ops EXCEPT ![op] = i] /\ handler' = [handler EXCEPT ![op] = TRUE]
  /\ UNCHANGED <<plugins, loading, filters, ranges, xram, dispatch, log, closing, story>>

ClearOpcode(i, op) ==
  /\ Running(i) /\ ops[op] # CoreHandler
  /\ ops' = [ops EXCEPT ![op] = CoreHandler] /\ handler' = [handler EXCEPT ![op] = FALSE]
  /\ UNCHANGED <<plugins, loading, filters, ranges, xram, dispatch, log, closing, story>>

SetXramSize(size) ==
  /\ IsOpen /\ size # xram
  /\ xram' = size /\ dispatch' = (size # 0 \/ ranges # <<>>)
  /\ UNCHANGED <<plugins, loading, filters, ranges, ops, handler, log, closing, story>>

-----------------------------------------------------------------------------
(* The hooks at work.                                                      *)

Filtered(code) ==    \* plugin_filter_exception: until one drops it
  LET through[n \in 0..Len(filters)] ==
        IF n = 0 THEN code
        ELSE IF through[n - 1] < 0 THEN through[n - 1] ELSE filters[n][through[n - 1]]
  IN  through[Len(filters)]

Recorded(code) ==    \* sim_record_exception
  IF Filtered(code) >= 0 /\ Len(log) < MaxExceptions THEN Append(log, Filtered(code)) ELSE log

Raise(code) ==       \* the core's except callback, a plugin's raise
  /\ IsOpen
  /\ log' = Recorded(code) /\ log' # log
  /\ UNCHANGED <<plugins, loading, filters, ranges, ops, handler, xram, dispatch, closing, story>>

Holding(a) == {k \in 1..Len(ranges) : a \in ranges[k].range.lo..ranges[k].range.hi}

XdataHook(a) ==      \* the last, 0 for none
  LET hits == Holding(a)
  IN  IF hits = {} THEN 0 ELSE CHOOSE k \in hits : \A j \in hits : j <= k

Answers(a, reading) ==   \* who serves a MOVX: a plugin, or the array
  LET k == XdataHook(a)
  IN  IF dispatch /\ k # 0 /\ (IF reading THEN ranges[k].range.rd ELSE ranges[k].range.wr)
      THEN ranges[k].owner ELSE CoreHandler

Movx(a, reading) ==  \* on_xread, on_xwrite: past the chip's XRAM is recorded
  /\ IsOpen
  /\ Answers(a, reading) = CoreHandler /\ dispatch /\ xram # 0 /\ a >= xram
  /\ log' = Recorded(XramRange)
  /\ UNCHANGED <<plugins, loading, filters, ranges, ops, handler, xram, dispatch, closing, story>>

-----------------------------------------------------------------------------
(* Reset and close.                                                        *)

OpsAfterReset ==     \* op_setptrs, then plugin_apply_ops
  [op \in Opcodes |-> ops[op] # CoreHandler]

ResetCpu ==          \* sim_cpu_reset: host.reset_cpu
  /\ IsOpen
  /\ handler' = OpsAfterReset
  /\ UNCHANGED <<plugins, loading, filters, ranges, ops, xram, dispatch, log, closing, story>>

ResetAll ==          \* hooks, sizes and names stay
  /\ IsOpen /\ ~loading
  /\ handler' = OpsAfterReset /\ log' = <<>>
  /\ UNCHANGED <<plugins, loading, filters, ranges, ops, xram, dispatch, closing, story>>

SimClose ==             \* sim_close: destroyed last first, then unloaded
  /\ IsOpen /\ ~loading
  /\ closing' = [phase |-> "destroy", at |-> Len(plugins)]
  /\ UNCHANGED <<plugins, loading, filters, ranges, ops, handler, xram, dispatch, log, story>>

DestroyNext ==
  /\ closing.phase = "destroy" /\ closing.at > 0
  /\ closing' = [closing EXCEPT !.at = @ - 1]
  /\ story' = [story EXCEPT !.destroyed =
                 IF plugins[closing.at].kept THEN Append(@, closing.at) ELSE @]
  /\ UNCHANGED <<plugins, loading, filters, ranges, ops, handler, xram, dispatch, log>>

Unload ==
  /\ closing = [phase |-> "destroy", at |-> 0]
  /\ closing' = [phase |-> "closed", at |-> 0]
  /\ plugins' = <<>>
  /\ UNCHANGED <<loading, filters, ranges, ops, handler, xram, dispatch, log, story>>

HostInit ==
  /\ plugins = <<>> /\ loading = FALSE /\ filters = <<>> /\ ranges = <<>>
  /\ ops = [op \in Opcodes |-> CoreHandler] /\ handler = [op \in Opcodes |-> FALSE]
  /\ xram = 0 /\ dispatch = FALSE /\ log = <<>>
  /\ closing = [phase |-> "open", at |-> 0]
  /\ story = [names |-> {}, destroyed |-> <<>>,
              serves |-> [a \in Addresses |-> [owner |-> CoreHandler, rd |-> FALSE, wr |-> FALSE]]]

HostNext ==
  \/ Attach \/ InitFails \/ (\E wanted \in Wanted : InitDone(wanted))
  \/ \E i \in PluginSlots : \/ \E f \in Filters : OnException(i, f)
                      \/ \E r \in Ranges : OnXdata(i, r)
                      \/ \E op \in Opcodes : SetOpcode(i, op) \/ ClearOpcode(i, op)
  \/ \E size \in Addresses : SetXramSize(size)
  \/ \E code \in Codes : Raise(code)
  \/ \E a \in Addresses, reading \in BOOLEAN : Movx(a, reading)
  \/ ResetCpu \/ ResetAll \/ SimClose \/ DestroyNext \/ Unload

HostSpec == HostInit /\ [][HostNext]_hostvars

-----------------------------------------------------------------------------
(***************************************************************************)
(* While the simulation is open every name the host gave out finds the     *)
(* plugin it was given to, "a#2" asked for outright and slots of failed    *)
(* inits in between included; a MOVX is answered by the range installed    *)
(* last over its address, in either direction, an inert plugin's too; a    *)
(* replaced opcode runs its replacement after any reset; and closing       *)
(* destroys every plugin that loaded, once, the one loaded last first.     *)
(***************************************************************************)
NamesFindTheirPlugin ==
  IsOpen => \A e \in story.names : Named(e[1]) = e[2]

MovxFindsTheLatest ==
  \A a \in Addresses, reading \in BOOLEAN :
    LET s == story.serves[a]
    IN  Answers(a, reading) = IF (IF reading THEN s.rd ELSE s.wr) THEN s.owner ELSE CoreHandler

OpcodesStayReplaced == \A op \in Opcodes : handler[op] = (ops[op] # CoreHandler)

DestroyedLastFirst ==
  LET d == story.destroyed
  IN  /\ \A m, n \in DOMAIN d : m < n => d[n] < d[m]
      /\ closing.phase = "closed" => {d[n] : n \in DOMAIN d} = {e[2] : e \in story.names}

CallsFindTheirOwner ==
  NamesFindTheirPlugin /\ MovxFindsTheLatest /\ OpcodesStayReplaced /\ DestroyedLastFirst

=============================================================================
