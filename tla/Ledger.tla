------------------------------- MODULE Ledger -------------------------------
(***************************************************************************)
(* The accounting core of src/src/ledger.cpp as operators.                 *)
(*                                                                         *)
(* A LedgerPlan is a record [capacity, totals, status]: the counters of an *)
(* account, and the verdict so far.  Every mutator maps a plan to a plan;  *)
(* a refusal changes `status' alone.  Reasons are the strings of           *)
(* creditfabric::Reason.                                                   *)
(*                                                                         *)
(* MaxU64 stands for 2^64 - 1: counters are unsigned words, and every sum  *)
(* the code checks with add_overflow is checked here against MaxU64.       *)
(***************************************************************************)
EXTENDS Integers

CONSTANT MaxU64

ASSUME MaxU64Assumption == MaxU64 \in Nat \ {0}

U64 == 0..MaxU64

CreditTotals == [issued: U64, consumed: U64, returned: U64,
                 stale: U64, spent: U64, protected_credits: U64]

NoTotals == [issued |-> 0, consumed |-> 0, returned |-> 0,
             stale |-> 0, spent |-> 0, protected_credits |-> 0]

\* The verdicts of the ledger (creditfabric::Reason).
LedgerReason == {"Ok", "InvalidState", "CountOverflow", "CountZero", "PolicyRefused",
                 "InsufficientAvailable", "InsufficientOutstanding", "InsufficientProtected",
                 "NothingToRetire", "CapacityOutOfRange", "CapacityExceeded",
                 "CapacityShrinkViolation"}

\* Mutant: the carry of the word-sized addition goes unnoticed.
unchecked_add(a, b) == FALSE

add_overflow(a, b) == a + b > MaxU64

saturating_add(a, b) == IF add_overflow(a, b) THEN MaxU64 ELSE a + b

(***************************************************************************)
(* check_invariants: the first of the five tests that fails names the      *)
(* reason.                                                                 *)
(***************************************************************************)
check_invariants(capacity, totals) ==
  LET in_flight == totals.issued - totals.returned IN
  IF totals.returned > totals.issued THEN "InvalidState"
  ELSE IF add_overflow(totals.spent, totals.stale) THEN "CountOverflow"
  ELSE IF totals.spent + totals.stale > in_flight THEN "InvalidState"
  ELSE IF add_overflow(totals.protected_credits, in_flight) THEN "CountOverflow"
  ELSE IF totals.protected_credits + in_flight > capacity THEN "InvalidState"
  ELSE "Ok"

(***************************************************************************)
(* fill_derived and compute_view: the derived fields of CreditView.  A     *)
(* counter set that does not reconcile shows zeroes.                       *)
(***************************************************************************)
compute_view(capacity, totals) ==
  LET closed == check_invariants(capacity, totals) = "Ok"
      in_flight == totals.issued - totals.returned
  IN  [closed      |-> closed,
       in_flight   |-> IF closed THEN in_flight ELSE 0,
       outstanding |-> IF closed THEN in_flight - (totals.spent + totals.stale) ELSE 0,
       available   |-> IF closed THEN capacity - (totals.protected_credits + in_flight) ELSE 0]

-----------------------------------------------------------------------------

LedgerPlan(capacity, totals) ==
  [capacity |-> capacity, totals |-> totals, status |-> check_invariants(capacity, totals)]

view(plan) == compute_view(plan.capacity, plan.totals)

refuse(plan, reason) == [plan EXCEPT !.status = reason]

obligation_floor(plan) ==
  saturating_add(plan.totals.protected_credits,
                 IF plan.totals.returned <= plan.totals.issued
                   THEN plan.totals.issued - plan.totals.returned ELSE 0)

commit(plan, candidate) ==
  IF plan.status # "Ok" THEN plan
  ELSE IF check_invariants(plan.capacity, candidate) # "Ok"
    THEN refuse(plan, check_invariants(plan.capacity, candidate))
  ELSE [plan EXCEPT !.totals = candidate]

issue(plan, count, min_issue, max_issue) ==
  IF plan.status # "Ok" THEN plan
  ELSE IF count = 0 THEN refuse(plan, "CountZero")
  ELSE IF count < min_issue \/ count > max_issue THEN refuse(plan, "PolicyRefused")
  ELSE IF view(plan).available < count THEN refuse(plan, "InsufficientAvailable")
  ELSE IF add_overflow(plan.totals.issued, count) THEN refuse(plan, "CountOverflow")
  ELSE commit(plan, [plan.totals EXCEPT !.issued = @ + count])

consume(plan, count) ==
  IF plan.status # "Ok" THEN plan
  ELSE IF count = 0 THEN refuse(plan, "CountZero")
  ELSE IF view(plan).outstanding < count THEN refuse(plan, "InsufficientOutstanding")
  ELSE IF add_overflow(plan.totals.spent, count) THEN refuse(plan, "CountOverflow")
  ELSE IF add_overflow(plan.totals.consumed, count) THEN refuse(plan, "CountOverflow")
  ELSE commit(plan, [plan.totals EXCEPT !.spent = @ + count, !.consumed = @ + count])

\* Mutant: live credit is handed back while spent credit stays spent.
give_back_live_first(plan, count) ==
  IF plan.status # "Ok" THEN plan
  ELSE IF count = 0 THEN refuse(plan, "CountZero")
  ELSE IF view(plan).in_flight - plan.totals.stale < count
    THEN refuse(plan, "InsufficientOutstanding")
  ELSE commit(plan, [plan.totals EXCEPT !.returned = @ + count])

\* give_back takes spent credit before outstanding credit.
give_back(plan, count) ==
  LET v          == view(plan)
      returnable == v.in_flight - plan.totals.stale
      from_spent == IF plan.totals.spent < count THEN plan.totals.spent ELSE count
  IN  IF plan.status # "Ok" THEN plan
      ELSE IF count = 0 THEN refuse(plan, "CountZero")
      ELSE IF v.in_flight < count \/ returnable < count
        THEN refuse(plan, "InsufficientOutstanding")
      ELSE IF add_overflow(plan.totals.returned, count) THEN refuse(plan, "CountOverflow")
      ELSE commit(plan, [plan.totals EXCEPT !.spent = @ - from_spent, !.returned = @ + count])

protect(plan, count, allowed) ==
  IF plan.status # "Ok" THEN plan
  ELSE IF ~allowed THEN refuse(plan, "PolicyRefused")
  ELSE IF count = 0 THEN refuse(plan, "CountZero")
  ELSE IF view(plan).available < count THEN refuse(plan, "InsufficientAvailable")
  ELSE IF add_overflow(plan.totals.protected_credits, count) THEN refuse(plan, "CountOverflow")
  ELSE commit(plan, [plan.totals EXCEPT !.protected_credits = @ + count])

unprotect(plan, count) ==
  IF plan.status # "Ok" THEN plan
  ELSE IF count = 0 THEN refuse(plan, "CountZero")
  ELSE IF plan.totals.protected_credits < count THEN refuse(plan, "InsufficientProtected")
  ELSE commit(plan, [plan.totals EXCEPT !.protected_credits = @ - count])

retire_stale(plan, count) ==
  IF plan.status # "Ok" THEN plan
  ELSE IF count = 0 THEN refuse(plan, "CountZero")
  ELSE IF view(plan).outstanding < count THEN refuse(plan, "InsufficientOutstanding")
  ELSE IF add_overflow(plan.totals.stale, count) THEN refuse(plan, "CountOverflow")
  ELSE commit(plan, [plan.totals EXCEPT !.stale = @ + count])

\* Mutant: the end of an era leaves the credit in flight live.
quarantine_nothing(plan) == plan

\* Mutant: the spent credit that becomes stale is still counted as spent.
quarantine_keeping_spent(plan) ==
  LET amount == view(plan).in_flight - plan.totals.stale IN
  IF plan.status # "Ok" \/ amount = 0 THEN plan
  ELSE commit(plan, [plan.totals EXCEPT !.stale = @ + amount])

quarantine_in_flight(plan) ==
  LET amount == view(plan).in_flight - plan.totals.stale IN
  IF plan.status # "Ok" \/ amount = 0 THEN plan
  ELSE IF add_overflow(plan.totals.stale, amount) THEN refuse(plan, "CountOverflow")
  ELSE commit(plan, [plan.totals EXCEPT !.spent = 0, !.stale = @ + amount])

revalidate_to_returned(plan, count) ==
  IF plan.status # "Ok" THEN plan
  ELSE IF count = 0 THEN refuse(plan, "CountZero")
  ELSE IF plan.totals.stale < count THEN refuse(plan, "NothingToRetire")
  ELSE IF add_overflow(plan.totals.returned, count) THEN refuse(plan, "CountOverflow")
  ELSE commit(plan, [plan.totals EXCEPT !.stale = @ - count, !.returned = @ + count])

revalidate_to_consumed(plan, count) ==
  IF plan.status # "Ok" THEN plan
  ELSE IF count = 0 THEN refuse(plan, "CountZero")
  ELSE IF plan.totals.stale < count THEN refuse(plan, "NothingToRetire")
  ELSE IF add_overflow(plan.totals.spent, count) THEN refuse(plan, "CountOverflow")
  ELSE IF add_overflow(plan.totals.consumed, count) THEN refuse(plan, "CountOverflow")
  ELSE commit(plan, [plan.totals EXCEPT !.stale = @ - count, !.spent = @ + count,
                                        !.consumed = @ + count])

\* Mutant: a shrink ignores the credit that is already promised.
set_capacity_no_floor(plan, new_capacity, max_capacity, allow_growth) ==
  IF plan.status # "Ok" THEN plan
  ELSE IF new_capacity = 0 THEN refuse(plan, "CapacityOutOfRange")
  ELSE IF new_capacity > max_capacity THEN refuse(plan, "CapacityExceeded")
  ELSE IF new_capacity > plan.capacity /\ ~allow_growth THEN refuse(plan, "PolicyRefused")
  ELSE [plan EXCEPT !.capacity = new_capacity]

set_capacity(plan, new_capacity, max_capacity, allow_growth) ==
  IF plan.status # "Ok" THEN plan
  ELSE IF new_capacity = 0 THEN refuse(plan, "CapacityOutOfRange")
  ELSE IF new_capacity > max_capacity THEN refuse(plan, "CapacityExceeded")
  ELSE IF new_capacity > plan.capacity /\ ~allow_growth THEN refuse(plan, "PolicyRefused")
  ELSE IF new_capacity < obligation_floor(plan) THEN refuse(plan, "CapacityShrinkViolation")
  ELSE [plan EXCEPT !.capacity = new_capacity]
=============================================================================
