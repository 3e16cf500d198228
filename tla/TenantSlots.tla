----------------------------- MODULE TenantSlots -----------------------------
(***************************************************************************)
(* What the v2 publisher promises about the handler slot of a tenant: it   *)
(* moves between four states, and only along these arrows. A fatal error   *)
(* is always sat out before the tenant gets a new pusher, and a discarding *)
(* slot never resumes pushing by itself.                                   *)
(***************************************************************************)
CONSTANT Tenants

VARIABLE slot    \* tenant -> "none", "tenant", "delay" or "discard"

Arrows == { <<"none", "tenant">>,
            <<"tenant", "delay">>, <<"tenant", "discard">>, <<"tenant", "none">>,
            <<"delay", "tenant">>, <<"delay", "none">>,
            <<"discard", "none">> }

Init == slot = [t \in Tenants |-> "none"]

Move(t) == \E a \in Arrows : slot[t] = a[1] /\ slot' = [slot EXCEPT ![t] = a[2]]

Next == \E t \in Tenants : Move(t)

Spec == Init /\ [][Next]_slot
=============================================================================
