-------------------------------- MODULE Bus --------------------------------
(***************************************************************************)
(* sim/bus.c: the registry that finds a simulation's bus from the CPU the  *)
(* core's callbacks pass.  Simulations open and close in any order, memory *)
(* is given out again at the same address, and a look-up caches the bus it *)
(* found last.                                                             *)
(***************************************************************************)
EXTENDS Integers, Sequences

CONSTANTS
  Cpus,             \* addresses a struct em8051 may have
  FirstCap,         \* entries of the first registry (8)
  MaxOpens          \* bound: simulations opened

ASSUME BusAssumption == FirstCap \in Nat \ {0} /\ MaxOpens \in Nat

Null == 0                 \* buses are numbered from 1

VARIABLES
  registry,   \* g_registry, its length g_registry_cap
  last,       \* g_last
  bus,        \* the allocated buses, each with the CPU it is for
  opened,     \* simulations opened so far; a bus is the number of its opening
  heard       \* the bus the last trampoline ran and the CPU it ran for (history)

busvars == <<registry, last, bus, opened, heard>>

Live == DOMAIN bus

-----------------------------------------------------------------------------
(* The bus bus_for_cpu returns, and g_last afterwards.                     *)
Slots(c) == {i \in 1..Len(registry) : registry[i] # Null /\ bus[registry[i]] = c}

BusForCpu(c) ==
  CASE last # Null /\ bus[last] = c -> last
    [] (last = Null \/ bus[last] # c) /\ Slots(c) # {} ->
         registry[CHOOSE i \in Slots(c) : \A j \in Slots(c) : i <= j]
    [] OTHER -> Null

Empty == {i \in 1..Len(registry) : registry[i] = Null}

Registered(b) ==     \* the first free entry, else twice as many
  IF Empty # {}
  THEN [registry EXCEPT ![CHOOSE i \in Empty : \A j \in Empty : i <= j] = b]
  ELSE LET cap == IF registry = <<>> THEN FirstCap ELSE 2 * Len(registry)
       IN  [i \in 1..cap |-> CASE i <= Len(registry) -> registry[i]
                               [] i = Len(registry) + 1 -> b
                               [] OTHER -> Null]

Open(c) ==           \* bus_create
  /\ \A b \in Live : bus[b] # c
  /\ opened < MaxOpens
  /\ opened' = opened + 1
  /\ bus' = [b \in Live \cup {opened'} |-> IF b = opened' THEN c ELSE bus[b]]
  /\ registry' = Registered(opened')
  /\ UNCHANGED <<last, heard>>

OpenFails(c) ==      \* calloc, or realloc of a full registry: nothing is left
  /\ \A b \in Live : bus[b] # c
  /\ UNCHANGED busvars

\* The cached bus forgotten only with the registry.
LastWithoutKept(b) == IF Live = {b} THEN Null ELSE last

LastWithout(b) == IF last = b THEN Null ELSE last

Close(b) ==          \* bus_destroy
  /\ b \in Live
  /\ last' = LastWithout(b)
  /\ registry' = IF \A i \in 1..Len(registry) : registry[i] \in {Null, b} THEN <<>>
                 ELSE [i \in 1..Len(registry) |-> IF registry[i] = b THEN Null ELSE registry[i]]
  /\ bus' = [x \in Live \ {b} |-> bus[x]]
  /\ UNCHANGED <<opened, heard>>

Trampoline(c) ==     \* a register of c written or read
  /\ \E b \in Live : bus[b] = c
  /\ last' = BusForCpu(c)
  /\ heard' = <<last', c>>
  /\ UNCHANGED <<registry, bus, opened>>

BusInit ==
  /\ registry = <<>> /\ last = Null
  /\ bus = <<>> /\ opened = 0 /\ heard = <<Null, Null>>

BusNext ==
  \/ \E c \in Cpus : Open(c) \/ OpenFails(c) \/ Trampoline(c)
  \/ \E b \in Live : Close(b)

BusSpec == BusInit /\ [][BusNext]_busvars

-----------------------------------------------------------------------------
(***************************************************************************)
(* A register access of a simulation runs the subscribers of its own bus,  *)
(* whichever simulations were opened at its address, run or closed before: *)
(* no freed bus is cached or registered.                                   *)
(***************************************************************************)
AccessesFindTheirBus ==
  /\ last # Null => last \in Live
  /\ \A i \in 1..Len(registry) : registry[i] # Null => registry[i] \in Live
  /\ \A c \in Cpus : (\E b \in Live : bus[b] = c) => bus[BusForCpu(c)] = c

=============================================================================
