--------------------------- MODULE NestedService ---------------------------
(***************************************************************************)
(* What a two-level interrupt system promises, whatever its registers look *)
(* like: the services in progress form a stack of priority levels, a new   *)
(* service only starts above services of a strictly lower level, and the   *)
(* innermost service is the one that ends.  Nothing else changes the       *)
(* stack, except a reset, which abandons every service.                    *)
(***************************************************************************)
EXTENDS Naturals, Sequences

VARIABLE services    \* levels (0 low, 1 high) of the services in progress

Level == 0..1

Init == services = <<>>

Begin(l) ==
  /\ \A i \in DOMAIN services : services[i] < l
  /\ services' = Append(services, l)

End ==
  /\ services # <<>>
  /\ services' = SubSeq(services, 1, Len(services) - 1)

Abandon == services' = <<>>

Next == (\E l \in Level : Begin(l)) \/ End \/ Abandon

Spec == Init /\ [][Next]_services

-----------------------------------------------------------------------------
(***************************************************************************)
(* No service is ever interrupted by one of its own or of a lower level:   *)
(* at most two services nest, the outer one low and the inner one high.    *)
(***************************************************************************)
StrictlyNested ==
  \A i, j \in DOMAIN services : i < j => services[i] < services[j]

=============================================================================
