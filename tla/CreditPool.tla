----------------------------- MODULE CreditPool -----------------------------
(***************************************************************************)
(* What the ledger promises, without its counters: every credit of an      *)
(* account is in exactly one of five places, and moves only along the      *)
(* arrows drawn in include/creditfabric/ledger.hpp.                        *)
(*                                                                         *)
(*    available <-> protected                                              *)
(*    available --> outstanding --> spent                                  *)
(*    outstanding, spent --> available             (a return)              *)
(*    outstanding, spent --> stale                 (an era ends)           *)
(*    stale --> available, stale --> spent         (revalidation)          *)
(*                                                                         *)
(* No arrow leads back to outstanding except from available: a spent or a  *)
(* quarantined credit is never spendable again without passing through the *)
(* pool.  Only an operator's change of capacity creates or removes credit, *)
(* and it removes available credit only.                                   *)
(***************************************************************************)
EXTENDS Integers

VARIABLES available, reserved, outstanding, spent, stale

vars == <<available, reserved, outstanding, spent, stale>>

Init ==
  /\ available \in Nat \ {0}
  /\ reserved = 0 /\ outstanding = 0 /\ spent = 0 /\ stale = 0

Issue ==
  \E k \in 1..available :
    /\ available' = available - k
    /\ outstanding' = outstanding + k
    /\ UNCHANGED <<reserved, spent, stale>>

Consume ==
  \E k \in 1..outstanding :
    /\ outstanding' = outstanding - k
    /\ spent' = spent + k
    /\ UNCHANGED <<available, reserved, stale>>

\* A return takes outstanding credit only when no spent credit is left.
Return ==
  \E k \in 0..outstanding, s \in 0..spent :
    /\ k > 0 => s = spent
    /\ available' = available + k + s
    /\ outstanding' = outstanding - k
    /\ spent' = spent - s
    /\ UNCHANGED <<reserved, stale>>

Protect ==
  \E k \in 1..available :
    /\ available' = available - k
    /\ reserved' = reserved + k
    /\ UNCHANGED <<outstanding, spent, stale>>

Unprotect ==
  \E k \in 1..reserved :
    /\ available' = available + k
    /\ reserved' = reserved - k
    /\ UNCHANGED <<outstanding, spent, stale>>

Retire ==
  \E k \in 1..outstanding :
    /\ outstanding' = outstanding - k
    /\ stale' = stale + k
    /\ UNCHANGED <<available, reserved, spent>>

EndEra ==
  /\ stale' = stale + outstanding + spent
  /\ outstanding' = 0
  /\ spent' = 0
  /\ UNCHANGED <<available, reserved>>

RevalidateToReturned ==
  \E k \in 1..stale :
    /\ stale' = stale - k
    /\ available' = available + k
    /\ UNCHANGED <<reserved, outstanding, spent>>

RevalidateToConsumed ==
  \E k \in 1..stale :
    /\ stale' = stale - k
    /\ spent' = spent + k
    /\ UNCHANGED <<available, reserved, outstanding>>

SetCapacity ==
  /\ available' \in Nat
  /\ UNCHANGED <<reserved, outstanding, spent, stale>>

Next ==
  \/ Issue \/ Consume \/ Return \/ Protect \/ Unprotect
  \/ Retire \/ EndEra \/ RevalidateToReturned \/ RevalidateToConsumed
  \/ SetCapacity

Spec == Init /\ [][Next]_vars
=============================================================================
