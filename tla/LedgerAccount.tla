--------------------------- MODULE LedgerAccount ---------------------------
(***************************************************************************)
(* One account driven through LedgerPlan, the way engine.cpp drives it: a  *)
(* fresh plan over the committed counters, one mutator, and the plan's     *)
(* counters installed only when its status is still Ok.  A refused         *)
(* mutation changes nothing and is a stuttering step.                      *)
(***************************************************************************)
EXTENDS Ledger

CONSTANTS
  InitialCapacity,  \* AccountConfig::capacity
  MaxCapacity,      \* AccountConfig::max_capacity
  MinIssue,         \* CreditPolicy::min_issue
  MaxIssue,         \* CreditPolicy::max_issue_per_attempt
  AllowReturn,      \* CreditPolicy::allow_return
  AllowProtect,     \* CreditPolicy::allow_protect
  AllowGrowth       \* CreditPolicy::allow_capacity_growth

ASSUME ConfigAssumption ==
  /\ MaxCapacity \in U64
  /\ InitialCapacity \in 1..MaxCapacity
  /\ MinIssue \in U64
  /\ MaxIssue \in U64
  /\ {AllowReturn, AllowProtect, AllowGrowth} \subseteq BOOLEAN

VARIABLES capacity, totals

vars == <<capacity, totals>>

Init ==
  /\ capacity = InitialCapacity
  /\ totals = NoTotals

Plan == LedgerPlan(capacity, totals)

Install(plan) ==
  /\ plan.status = "Ok"
  /\ capacity' = plan.capacity
  /\ totals' = plan.totals

Issue(count) == Install(issue(Plan, count, MinIssue, MaxIssue))

Consume(count) == Install(consume(Plan, count))

Return(count) == AllowReturn /\ Install(give_back(Plan, count))

Protect(count) == Install(protect(Plan, count, AllowProtect))

Unprotect(count) == Install(unprotect(Plan, count))

Retire(count) == Install(retire_stale(Plan, count))

AdvanceEpoch == Install(quarantine_in_flight(Plan))

RevalidateToReturned(count) == Install(revalidate_to_returned(Plan, count))

RevalidateToConsumed(count) == Install(revalidate_to_consumed(Plan, count))

SetCapacity(new_capacity) ==
  Install(set_capacity(Plan, new_capacity, MaxCapacity, AllowGrowth))

Next ==
  \/ \E count \in U64 :
       \/ Issue(count) \/ Consume(count) \/ Return(count)
       \/ Protect(count) \/ Unprotect(count) \/ Retire(count)
       \/ RevalidateToReturned(count) \/ RevalidateToConsumed(count)
       \/ SetCapacity(count)
  \/ AdvanceEpoch

Spec == Init /\ [][Next]_vars

-----------------------------------------------------------------------------
\* Counters are words and the capacity is positive and within its policy.
TypeOK ==
  /\ capacity \in 1..MaxCapacity
  /\ totals \in CreditTotals

(***************************************************************************)
(* The two closure identities of include/creditfabric/ledger.hpp, over the *)
(* view that compute_view derives: capacity = available + protected +      *)
(* in_flight, and in_flight = outstanding + spent + stale.  An account     *)
(* whose counters stop reconciling shows an open view, which is excluded.  *)
(***************************************************************************)
Closure ==
  LET v == compute_view(capacity, totals) IN
  /\ v.closed
  /\ capacity = v.available + totals.protected_credits + v.in_flight
  /\ v.in_flight = v.outstanding + totals.spent + totals.stale
  /\ v.available >= 0 /\ v.outstanding >= 0

(***************************************************************************)
(* No credit is stranded by a counter at its limit: whatever has been      *)
(* issued, spent or quarantined, and however close issued and consumed are *)
(* to the end of the word, all live and spent credit can be handed back,   *)
(* all quarantined credit can be written back, and an era can end.         *)
(***************************************************************************)
NoStrandedCredit ==
  LET v == compute_view(capacity, totals) IN
  /\ v.in_flight > totals.stale =>
       give_back(Plan, v.in_flight - totals.stale).status = "Ok"
  /\ totals.stale > 0 => revalidate_to_returned(Plan, totals.stale).status = "Ok"
  /\ totals.protected_credits > 0 =>
       unprotect(Plan, totals.protected_credits).status = "Ok"
  /\ quarantine_in_flight(Plan).status = "Ok"

(***************************************************************************)
(* include/creditfabric/ledger.hpp says of the counter `consumed' that it  *)
(* "never gates authority": spendable credit can be spent, and quarantined *)
(* credit can be resolved as spent, whatever that counter holds.           *)
(***************************************************************************)
ConsumedNeverGates ==
  LET v == compute_view(capacity, totals) IN
  /\ v.outstanding > 0 => consume(Plan, v.outstanding).status = "Ok"
  /\ totals.stale > 0 => revalidate_to_consumed(Plan, totals.stale).status = "Ok"

(***************************************************************************)
(* The counters implement the pool: the ten mutators move credit only      *)
(* along the arrows of CreditPool, and never create, lose or duplicate it. *)
(***************************************************************************)
Pool == INSTANCE CreditPool WITH
  available   <- compute_view(capacity, totals).available,
  reserved    <- totals.protected_credits,
  outstanding <- compute_view(capacity, totals).outstanding,
  spent       <- totals.spent,
  stale       <- totals.stale

PoolSpec == Pool!Spec
=============================================================================
