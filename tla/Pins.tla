-------------------------------- MODULE Pins --------------------------------
(***************************************************************************)
(* Port pins as the host keeps them (sim/capi.c, sim/plugin.c): the latch, *)
(* the test's drives, devices that answer reads, and plugins that watch a  *)
(* pin and may drive another, or watch another, from inside the call: the  *)
(* notification is a recursion, its frames are the variable "calls".       *)
(***************************************************************************)
EXTENDS Integers, Sequences

CONSTANTS
  PortPins,         \* pins, <<register, bit>>
  DevicePins,       \* those a device model may answer for
  MaxStim,          \* MAX_STIM
  MaxWatch,         \* MAX_PIN_WATCH
  MaxChanges        \* bound: writes, drives and resets

ASSUME PinsAssumption ==
  /\ \A p \in PortPins : p[1] \in 0..127 /\ p[2] \in 0..7
  /\ DevicePins \subseteq PortPins
  /\ MaxStim \in Nat /\ MaxWatch \in Nat /\ MaxChanges \in Nat

VARIABLES
  latch,      \* the port registers
  stim,       \* stim[]: pin, active, value
  readers,    \* who composes a read of each register, in order of subscription
  device,     \* what the device puts on its pin, 2 for nothing
  watches,    \* pin_watch[]: pin, and the level it was told last
  calls,      \* plugin_pins_changed under way, innermost last
  unheard,    \* registers a software reset changed, not looked at since (history)
  changes

pinvars == <<latch, stim, readers, device, watches, calls, unheard, changes>>

Regs == {p[1] : p \in PortPins}

Entries(p) == {i \in 1..Len(stim) : stim[i].pin = p}
Driving(p) == {i \in Entries(p) : stim[i].active}

PinLevel(p) ==       \* sim_pin_level
  IF Driving(p) # {} THEN stim[CHOOSE i \in Driving(p) : \A j \in Driving(p) : i <= j].value
  ELSE latch[p]

\* A released drive whose value is still there for the CPU.
StimReadReleased(p, v) ==
  IF Entries(p) # {} THEN stim[CHOOSE i \in Entries(p) : TRUE].value ELSE v

StimRead(p, v) ==    \* on_stim_read over what the readers before it made
  IF Driving(p) = {} THEN v
  ELSE IF \E i \in Driving(p) : stim[i].value = 1 THEN 1 ELSE 0

CpuReads(p) ==       \* trampoline_read, one bit of it
  LET who == readers[p[1]]
      v[n \in 0..Len(who)] ==
        IF n = 0 THEN latch[p]
        ELSE IF who[n] = "test" THEN StimRead(p, v[n - 1])
        ELSE IF p \in DevicePins /\ device # 2 THEN device ELSE v[n - 1]
  IN  v[Len(who)]

-----------------------------------------------------------------------------
Watched(r) == \E i \in 1..Len(watches) : watches[i].pin[1] = r

Lowest(regs) == CHOOSE r \in regs : \A s \in regs : r <= s

\* The registers still to do, the lowest first, and the watch to look at next.
Frame(regs) == [regs |-> regs, at |-> 1, told |-> FALSE]

Notify(r) ==         \* plugin_pins_changed
  calls' = IF Watched(r) THEN Append(calls, Frame({r})) ELSE calls

Top == calls[Len(calls)]
Continue(f) == calls' = [calls EXCEPT ![Len(calls)] = f]

MayCall ==           \* the test between steps, a plugin from its callback
  calls = <<>> \/ (calls # <<>> /\ Top.told)

Changed == changes < MaxChanges /\ changes' = changes + 1

PortWrite(r, v) ==
  /\ calls = <<>> /\ Changed
  /\ latch' = [p \in PortPins |-> IF p[1] = r THEN v[p] ELSE latch[p]]
  /\ Notify(r)
  /\ unheard' = unheard \ {r}
  /\ UNCHANGED <<stim, readers, device, watches>>

DrivePin(p, v) ==    \* sim_drive_pin; 2 releases
  /\ MayCall /\ Changed
  /\ \/ /\ Entries(p) # {}
        /\ stim' = [i \in 1..Len(stim) |->
             IF i \in Entries(p) THEN [pin |-> p, active |-> v # 2, value |-> IF v = 1 THEN 1 ELSE 0]
             ELSE stim[i]]
        /\ Notify(p[1]) /\ unheard' = unheard \ {p[1]}
        /\ UNCHANGED readers
     \/ /\ Entries(p) = {} /\ v # 2 /\ Len(stim) < MaxStim
        /\ stim' = Append(stim, [pin |-> p, active |-> TRUE, value |-> v])
        /\ readers' = IF \E i \in 1..Len(readers[p[1]]) : readers[p[1]][i] = "test" THEN readers
                      ELSE [readers EXCEPT ![p[1]] = Append(@, "test")]
        /\ Notify(p[1]) /\ unheard' = unheard \ {p[1]}
     \/ /\ Entries(p) = {} /\ (v = 2 \/ Len(stim) >= MaxStim)
        /\ UNCHANGED <<stim, readers, calls, unheard>>
  /\ UNCHANGED <<latch, device, watches>>

OnPin(p) ==          \* h_on_pin
  /\ MayCall /\ Len(watches) < MaxWatch
  /\ watches' = Append(watches, [pin |-> p, level |-> PinLevel(p)])
  /\ UNCHANGED <<latch, stim, readers, device, calls, unheard, changes>>

\* A look at the latch, not at what drives the pin.
NextLatch(f) ==
  /\ ~f.told /\ f.at <= Len(watches)
  /\ LET w  == watches[f.at]
         lv == latch[w.pin]
         tell == w.pin[1] = Lowest(f.regs) /\ lv # w.level
     IN  /\ watches' = IF tell THEN [watches EXCEPT ![f.at].level = lv] ELSE watches
         /\ Continue([regs |-> f.regs, at |-> f.at + 1, told |-> tell])

NextWatch(f) ==      \* the loop looks at the next watch, and calls it if it must
  /\ ~f.told /\ f.at <= Len(watches)
  /\ LET w  == watches[f.at]
         lv == PinLevel(w.pin)
         tell == w.pin[1] = Lowest(f.regs) /\ lv # w.level
     IN  /\ watches' = IF tell THEN [watches EXCEPT ![f.at].level = lv] ELSE watches
         /\ Continue([regs |-> f.regs, at |-> f.at + 1, told |-> tell])

Look ==
  /\ calls # <<>> /\ NextWatch(Top)
  /\ UNCHANGED <<latch, stim, readers, device, unheard, changes>>

CallbackReturns ==
  /\ calls # <<>> /\ Top.told
  /\ Continue([Top EXCEPT !.told = FALSE])
  /\ UNCHANGED <<latch, stim, readers, device, watches, unheard, changes>>

LoopEnds ==
  /\ calls # <<>> /\ ~Top.told /\ Top.at > Len(watches)
  /\ LET rest == Top.regs \ {Lowest(Top.regs)}
     IN  IF rest # {} THEN Continue(Frame(rest)) ELSE calls' = SubSeq(calls, 1, Len(calls) - 1)
  /\ UNCHANGED <<latch, stim, readers, device, watches, unheard, changes>>

DeviceDrives(v) ==   \* no register is written: nobody is told
  /\ MayCall /\ device # v /\ device' = v
  /\ UNCHANGED <<latch, stim, readers, watches, calls, unheard, changes>>

DeviceAppears(r) ==  \* a device model subscribes
  /\ calls = <<>> /\ \A s \in Regs : \A i \in 1..Len(readers[s]) : readers[s][i] # "device"
  /\ \E p \in DevicePins : p[1] = r
  /\ readers' = [readers EXCEPT ![r] = Append(@, "device")]
  /\ UNCHANGED <<latch, stim, device, watches, calls, unheard, changes>>

High == [p \in PortPins |-> 1]

PinsCpuReset ==      \* h_reset_cpu: the ports go high, no watch is looked at
  /\ MayCall /\ Changed
  /\ latch' = High
  /\ unheard' = unheard \cup {r \in Regs : \E p \in PortPins : p[1] = r /\ latch[p] = 0}
  /\ UNCHANGED <<stim, readers, device, watches, calls>>

PinsSimReset ==      \* sim_reset, notify_all_pins: register after register
  /\ calls = <<>> /\ Changed
  /\ latch' = High
  /\ calls' = <<Frame(Regs)>>
  /\ unheard' = {}
  /\ UNCHANGED <<stim, readers, device, watches>>

PinsInit ==
  /\ latch = High /\ stim = <<>> /\ readers = [r \in Regs |-> <<>>] /\ device = 2
  /\ watches = <<>> /\ calls = <<>> /\ unheard = {} /\ changes = 0

PinsNext ==
  \/ \E r \in Regs : \E v \in [{p \in PortPins : p[1] = r} -> {0, 1}] : PortWrite(r, v)
  \/ \E p \in PortPins, v \in 0..2 : DrivePin(p, v)
  \/ \E p \in PortPins : OnPin(p)
  \/ Look \/ CallbackReturns \/ LoopEnds
  \/ \E v \in 0..2 : DeviceDrives(v)
  \/ \E r \in Regs : DeviceAppears(r)
  \/ PinsCpuReset \/ PinsSimReset

PinsSpec == PinsInit /\ [][PinsNext]_pinvars

-----------------------------------------------------------------------------
(***************************************************************************)
(* Once the outermost notification is over, every watcher was told last    *)
(* the level its pin has, although watchers drove pins and installed       *)
(* watches while others had still to be told.  Only the pins a software    *)
(* reset threw high, without a look at the watches, may differ.            *)
(***************************************************************************)
WatchersKnowTheLevel ==
  calls = <<>> => \A i \in 1..Len(watches) :
    watches[i].pin[1] \in unheard \/ watches[i].level = PinLevel(watches[i].pin)

(***************************************************************************)
(* Where no device answers, the CPU reads the level plugins are told, in   *)
(* the middle of any notification, through drives, releases and a full     *)
(* stimulus table.                                                         *)
(***************************************************************************)
CpuReadsThePin == \A p \in PortPins \ DevicePins : CpuReads(p) = PinLevel(p)

(***************************************************************************)
(* plugin.h:233, of on_pin: "Be told whenever pin_level() of that pin      *)
(* changes: by a write to the port, a drive or a reset."                   *)
(***************************************************************************)
ToldOfEveryChange ==
  calls = <<>> => \A i \in 1..Len(watches) : watches[i].level = PinLevel(watches[i].pin)

=============================================================================
