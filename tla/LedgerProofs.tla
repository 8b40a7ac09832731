---------------------------- MODULE LedgerProofs ----------------------------
(***************************************************************************)
(* The theorems about LedgerAccount, for every word size and every account *)
(* configuration.  The inductive invariant LedgerInv says on the stored    *)
(* counters what Closure says on the derived view: the mutators test the   *)
(* counters, so only the former is preserved step by step.                 *)
(***************************************************************************)
EXTENDS LedgerAccount, LedgerLemmas

LedgerInv == capacity \in 1..MaxCapacity /\ Sound(capacity, totals)

-----------------------------------------------------------------------------
\* Every operation works on a fresh plan over the committed counters.
LEMMA PlanIs == Plan = LedgerPlan(capacity, totals)
  BY DEF Plan

\* A step of Issue: its guard and its counters.
LEMMA IssueStep ==
  ASSUME LedgerInv, NEW count \in U64, Issue(count)
  PROVE  /\ count > 0 /\ count <= capacity - (totals.protected_credits + Flight(totals))
         /\ capacity' = capacity /\ totals' = AfterIssue(totals, count)
         /\ LedgerInv'
  <1>1. LET r == issue(Plan, count, MinIssue, MaxIssue) IN
          r.status = "Ok" /\ capacity' = r.capacity /\ totals' = r.totals
    BY DEF Issue, Install
  <1> QED BY <1>1, PlanIs, IssueEffect DEF LedgerInv

\* A step of Consume: its guard and its counters.
LEMMA ConsumeStep ==
  ASSUME LedgerInv, NEW count \in U64, Consume(count)
  PROVE  /\ count > 0 /\ count <= Flight(totals) - (totals.spent + totals.stale)
         /\ capacity' = capacity /\ totals' = AfterConsume(totals, count)
         /\ LedgerInv'
  <1>1. LET r == consume(Plan, count) IN
          r.status = "Ok" /\ capacity' = r.capacity /\ totals' = r.totals
    BY DEF Consume, Install
  <1> QED BY <1>1, PlanIs, ConsumeEffect DEF LedgerInv

\* A step of Return: its guard and its counters.
LEMMA ReturnStep ==
  ASSUME LedgerInv, NEW count \in U64, Return(count)
  PROVE  /\ count > 0 /\ count <= Flight(totals) - totals.stale
         /\ capacity' = capacity /\ totals' = AfterReturn(totals, count)
         /\ LedgerInv'
  <1>1. LET r == give_back(Plan, count) IN
          r.status = "Ok" /\ capacity' = r.capacity /\ totals' = r.totals
    BY DEF Return, Install
  <1> QED BY <1>1, PlanIs, GiveBackEffect DEF LedgerInv

\* A step of Protect: its guard and its counters.
LEMMA ProtectStep ==
  ASSUME LedgerInv, NEW count \in U64, Protect(count)
  PROVE  /\ count > 0 /\ count <= capacity - (totals.protected_credits + Flight(totals))
         /\ capacity' = capacity /\ totals' = AfterProtect(totals, count)
         /\ LedgerInv'
  <1>1. LET r == protect(Plan, count, AllowProtect) IN
          r.status = "Ok" /\ capacity' = r.capacity /\ totals' = r.totals
    BY DEF Protect, Install
  <1> QED BY <1>1, PlanIs, ProtectEffect, ConfigAssumption DEF LedgerInv

\* A step of Unprotect: its guard and its counters.
LEMMA UnprotectStep ==
  ASSUME LedgerInv, NEW count \in U64, Unprotect(count)
  PROVE  /\ count > 0 /\ count <= totals.protected_credits
         /\ capacity' = capacity /\ totals' = AfterUnprotect(totals, count)
         /\ LedgerInv'
  <1>1. LET r == unprotect(Plan, count) IN
          r.status = "Ok" /\ capacity' = r.capacity /\ totals' = r.totals
    BY DEF Unprotect, Install
  <1> QED BY <1>1, PlanIs, UnprotectEffect DEF LedgerInv

\* A step of Retire: its guard and its counters.
LEMMA RetireStep ==
  ASSUME LedgerInv, NEW count \in U64, Retire(count)
  PROVE  /\ count > 0 /\ count <= Flight(totals) - (totals.spent + totals.stale)
         /\ capacity' = capacity /\ totals' = AfterRetire(totals, count)
         /\ LedgerInv'
  <1>1. LET r == retire_stale(Plan, count) IN
          r.status = "Ok" /\ capacity' = r.capacity /\ totals' = r.totals
    BY DEF Retire, Install
  <1> QED BY <1>1, PlanIs, RetireStaleEffect DEF LedgerInv

\* A step of RevalidateToReturned: its guard and its counters.
LEMMA RevalidateToReturnedStep ==
  ASSUME LedgerInv, NEW count \in U64, RevalidateToReturned(count)
  PROVE  /\ count > 0 /\ count <= totals.stale
         /\ capacity' = capacity /\ totals' = AfterToReturned(totals, count)
         /\ LedgerInv'
  <1>1. LET r == revalidate_to_returned(Plan, count) IN
          r.status = "Ok" /\ capacity' = r.capacity /\ totals' = r.totals
    BY DEF RevalidateToReturned, Install
  <1> QED BY <1>1, PlanIs, ToReturnedEffect DEF LedgerInv

\* A step of RevalidateToConsumed: its guard and its counters.
LEMMA RevalidateToConsumedStep ==
  ASSUME LedgerInv, NEW count \in U64, RevalidateToConsumed(count)
  PROVE  /\ count > 0 /\ count <= totals.stale
         /\ capacity' = capacity /\ totals' = AfterToConsumed(totals, count)
         /\ LedgerInv'
  <1>1. LET r == revalidate_to_consumed(Plan, count) IN
          r.status = "Ok" /\ capacity' = r.capacity /\ totals' = r.totals
    BY DEF RevalidateToConsumed, Install
  <1> QED BY <1>1, PlanIs, ToConsumedEffect DEF LedgerInv

\* A step of AdvanceEpoch: all in-flight credit becomes stale.
LEMMA AdvanceEpochStep ==
  ASSUME LedgerInv, AdvanceEpoch
  PROVE  /\ capacity' = capacity /\ totals' = AfterQuarantine(totals)
         /\ LedgerInv'
  <1>1. LET r == quarantine_in_flight(Plan) IN
          capacity' = r.capacity /\ totals' = r.totals
    BY DEF AdvanceEpoch, Install
  <1> QED BY <1>1, PlanIs, QuarantineEffect DEF LedgerInv

\* A step of SetCapacity: the counters stay, the capacity covers them.
LEMMA SetCapacityStep ==
  ASSUME LedgerInv, NEW count \in U64, SetCapacity(count)
  PROVE  totals' = totals /\ LedgerInv'
  <1>1. LET r == set_capacity(Plan, count, MaxCapacity, AllowGrowth) IN
          r.status = "Ok" /\ capacity' = r.capacity /\ totals' = r.totals
    BY DEF SetCapacity, Install
  <1> QED BY <1>1, PlanIs, SetCapacityEffect, ConfigAssumption DEF LedgerInv

-----------------------------------------------------------------------------
\* A new account starts with no counters and reconciles.
LEMMA InitLedgerInv == Init => LedgerInv
  <1> SUFFICES ASSUME Init PROVE LedgerInv
    OBVIOUS
  <1>1. capacity \in 1..MaxCapacity /\ capacity \in U64
    BY ConfigAssumption, MaxU64Assumption DEF Init, U64
  <1>2. totals \in CreditTotals
    BY MaxU64Assumption DEF Init, NoTotals, CreditTotals, U64
  <1>3. check_invariants(capacity, totals) = "Ok"
    BY <1>1, <1>2, CheckMeaning DEF Init, NoTotals, U64
  <1> QED BY <1>1, <1>2, <1>3 DEF LedgerInv, Sound

\* Every installed plan keeps the counters reconciled.
LEMMA NextLedgerInv == LedgerInv /\ [Next]_vars => LedgerInv'
  <1> SUFFICES ASSUME LedgerInv, [Next]_vars PROVE LedgerInv'
    OBVIOUS
  <1>1. CASE UNCHANGED vars
    BY <1>1 DEF vars, LedgerInv
  <1> QED
    BY <1>1, IssueStep, ConsumeStep, ReturnStep, ProtectStep, UnprotectStep, RetireStep,
       RevalidateToReturnedStep, RevalidateToConsumedStep, SetCapacityStep, AdvanceEpochStep
    DEF Next

\* The counters of an account always reconcile.
THEOREM AlwaysLedgerInv == Spec => []LedgerInv
  BY InitLedgerInv, NextLedgerInv, PTL DEF Spec

-----------------------------------------------------------------------------
\* The derived view of a reconciled account, in its counters.
LEMMA ViewFacts ==
  ASSUME NEW c, NEW t, Sound(c, t)
  PROVE  LET v == compute_view(c, t) IN
         /\ v.closed
         /\ v.in_flight = Flight(t)
         /\ v.available = c - (t.protected_credits + Flight(t))
         /\ v.outstanding = Flight(t) - (t.spent + t.stale)
         /\ v.available \in Nat /\ v.outstanding \in Nat
         /\ t \in CreditTotals /\ c \in U64 /\ Flight(t) \in Nat
  <1>1. c \in U64 /\ t \in CreditTotals /\ check_invariants(c, t) = "Ok"
    BY DEF Sound
  <1>2. /\ t.returned <= t.issued
        /\ t.spent + t.stale <= Flight(t)
        /\ t.protected_credits + Flight(t) <= c
    BY <1>1, CheckMeaning DEF Flight
  <1>3. LET v == compute_view(c, t) IN
        /\ v.closed
        /\ v.in_flight = Flight(t)
        /\ v.available = c - (t.protected_credits + Flight(t))
        /\ v.outstanding = Flight(t) - (t.spent + t.stale)
    BY <1>1 DEF compute_view, Flight
  <1>4. /\ c - (t.protected_credits + Flight(t)) \in Nat
        /\ Flight(t) - (t.spent + t.stale) \in Nat
        /\ Flight(t) \in Nat
    BY <1>1, <1>2 DEF Flight, CreditTotals, U64
  <1> QED BY <1>1, <1>3, <1>4

\* The counters stay words and the capacity stays within its policy.
THEOREM TypeCorrect == Spec => []TypeOK
  <1>1. LedgerInv => TypeOK
    BY DEF LedgerInv, Sound, TypeOK
  <1> QED BY <1>1, AlwaysLedgerInv, PTL

(***************************************************************************)
(* Both closure identities hold after every operation: the view is never   *)
(* open, so no caller of compute_view sees the saturated zeroes.           *)
(***************************************************************************)
THEOREM ClosureHolds == Spec => []Closure
  <1>1. LedgerInv => Closure
    <2> SUFFICES ASSUME LedgerInv PROVE Closure
      OBVIOUS
    <2>1. totals \in CreditTotals /\ capacity \in U64
      BY ViewFacts DEF LedgerInv
    <2> QED BY <2>1, ViewFacts DEF Closure, LedgerInv, CreditTotals, U64
  <1> QED BY <1>1, AlwaysLedgerInv, PTL

-----------------------------------------------------------------------------
(***************************************************************************)
(* No counter at its limit strands credit: returning everything that is    *)
(* live or spent, writing back everything quarantined, releasing           *)
(* everything protected and ending an era are never refused.               *)
(***************************************************************************)
THEOREM NothingStranded == Spec => []NoStrandedCredit
  <1>1. LedgerInv => NoStrandedCredit
    <2> SUFFICES ASSUME LedgerInv PROVE NoStrandedCredit
      OBVIOUS
    <2> DEFINE t == totals
               all == Flight(t) - t.stale
    <2>1. PlanReady(capacity, t, Plan)
      BY PlanIs, PlanFacts DEF LedgerInv
    <2>2. compute_view(capacity, t).in_flight = Flight(t)
      BY ViewFacts DEF LedgerInv
    <2>3. ASSUME NEW u \in CreditTotals, check_invariants(capacity, u) = "Ok"
          PROVE  commit(Plan, u).status = "Ok"
      <3>1. commit(Plan, u) = [Plan EXCEPT !.totals = u]
        BY <2>1, <2>3 DEF commit, PlanReady
      <3> QED BY <2>1, <3>1 DEF PlanReady, SoundPlan
    <2>4. Flight(t) > t.stale => give_back(Plan, all).status = "Ok"
      <3> SUFFICES ASSUME Flight(t) > t.stale PROVE give_back(Plan, all).status = "Ok"
        OBVIOUS
      <3> DEFINE u == [t EXCEPT !.spent = @ - t.spent, !.returned = @ + all]
      <3>1. /\ all \in U64 /\ all > 0 /\ t.returned + all \in U64
            /\ t.spent - t.spent \in U64 /\ ~add_overflow(t.returned, all)
            /\ t.spent <= all
        BY <2>1, MaxU64Assumption DEF PlanReady, Flight, CreditTotals, U64, add_overflow
      <3>2. u \in CreditTotals
        BY <2>1, <3>1 DEF PlanReady, CreditTotals
      <3>3. /\ u.returned = t.returned + all /\ u.issued = t.issued /\ u.spent = t.spent - t.spent
            /\ u.stale = t.stale /\ u.protected_credits = t.protected_credits
        BY <2>1 DEF PlanReady, CreditTotals
      <3>4. check_invariants(capacity, u) = "Ok"
        <4>1. capacity \in U64
          BY <2>1 DEF PlanReady
        <4> HIDE DEF u
        <4> QED
          BY <2>1, <3>1, <3>2, <3>3, <4>1, CheckMeaning DEF PlanReady, Flight, CreditTotals, U64
      <3>5. (IF t.spent < all THEN t.spent ELSE all) = t.spent
        BY <2>1, <3>1 DEF PlanReady, CreditTotals, U64
      <3>6. /\ all # 0 /\ ~(view(Plan).in_flight < all)
            /\ ~(view(Plan).in_flight - t.stale < all)
        BY <2>1, <3>1 DEF PlanReady, CreditTotals, U64, Flight
      <3>7. give_back(Plan, all) = commit(Plan, u)
        <4> HIDE DEF all
        <4> QED BY <2>1, <3>1, <3>5, <3>6 DEF give_back, PlanReady
      <3> HIDE DEF u
      <3> QED BY <2>3, <3>2, <3>4, <3>7
    <2>5. t.stale > 0 => revalidate_to_returned(Plan, t.stale).status = "Ok"
      <3> SUFFICES ASSUME t.stale > 0
                   PROVE  revalidate_to_returned(Plan, t.stale).status = "Ok"
        OBVIOUS
      <3> DEFINE u == [t EXCEPT !.stale = @ - t.stale, !.returned = @ + t.stale]
      <3>1. /\ t.stale # 0 /\ ~(t.stale < t.stale) /\ ~add_overflow(t.returned, t.stale)
            /\ t.stale - t.stale \in U64 /\ t.returned + t.stale \in U64
        BY <2>1, MaxU64Assumption DEF PlanReady, Flight, CreditTotals, U64, add_overflow
      <3>2. u \in CreditTotals
        BY <2>1, <3>1 DEF PlanReady, CreditTotals
      <3>3. /\ u.returned = t.returned + t.stale /\ u.issued = t.issued /\ u.spent = t.spent
            /\ u.stale = t.stale - t.stale /\ u.protected_credits = t.protected_credits
        BY <2>1 DEF PlanReady, CreditTotals
      <3>4. check_invariants(capacity, u) = "Ok"
        <4>1. capacity \in U64
          BY <2>1 DEF PlanReady
        <4> HIDE DEF u
        <4> QED
          BY <2>1, <3>1, <3>2, <3>3, <4>1, CheckMeaning DEF PlanReady, Flight, CreditTotals, U64
      <3>5. revalidate_to_returned(Plan, t.stale) = commit(Plan, u)
        BY <2>1, <3>1 DEF revalidate_to_returned, PlanReady
      <3> HIDE DEF u
      <3> QED BY <2>3, <3>2, <3>4, <3>5
    <2>6. t.protected_credits > 0 => unprotect(Plan, t.protected_credits).status = "Ok"
      <3> SUFFICES ASSUME t.protected_credits > 0
                   PROVE  unprotect(Plan, t.protected_credits).status = "Ok"
        OBVIOUS
      <3> DEFINE u == [t EXCEPT !.protected_credits = @ - t.protected_credits]
      <3>1. /\ t.protected_credits # 0 /\ ~(t.protected_credits < t.protected_credits)
            /\ t.protected_credits - t.protected_credits \in U64
        BY <2>1, MaxU64Assumption DEF PlanReady, CreditTotals, U64
      <3>2. u \in CreditTotals
        BY <2>1, <3>1 DEF PlanReady, CreditTotals
      <3>3. /\ u.returned = t.returned /\ u.issued = t.issued /\ u.spent = t.spent
            /\ u.stale = t.stale
            /\ u.protected_credits = t.protected_credits - t.protected_credits
        BY <2>1 DEF PlanReady, CreditTotals
      <3>4. check_invariants(capacity, u) = "Ok"
        <4>1. capacity \in U64
          BY <2>1 DEF PlanReady
        <4> HIDE DEF u
        <4> QED
          BY <2>1, <3>1, <3>2, <3>3, <4>1, CheckMeaning DEF PlanReady, Flight, CreditTotals, U64
      <3>5. unprotect(Plan, t.protected_credits) = commit(Plan, u)
        BY <2>1, <3>1 DEF unprotect, PlanReady
      <3> HIDE DEF u
      <3> QED BY <2>3, <3>2, <3>4, <3>5
    <2>7. quarantine_in_flight(Plan).status = "Ok"
      BY PlanIs, QuarantineEffect DEF LedgerInv
    <2> QED BY <2>2, <2>4, <2>5, <2>6, <2>7 DEF NoStrandedCredit
  <1> QED BY <1>1, AlwaysLedgerInv, PTL

-----------------------------------------------------------------------------
(***************************************************************************)
(* Step simulation: each operation of the account is a step of CreditPool  *)
(* between the derived views before and after it.                          *)
(***************************************************************************)
LEMMA StepSimulation == LedgerInv /\ LedgerInv' /\ [Next]_vars => [Pool!Next]_Pool!vars
  <1> SUFFICES ASSUME LedgerInv, LedgerInv', [Next]_vars PROVE [Pool!Next]_Pool!vars
    OBVIOUS
  <1> DEFINE a == compute_view(capacity, totals).available
             o == compute_view(capacity, totals).outstanding
  <1>1. /\ a = capacity - (totals.protected_credits + Flight(totals))
        /\ o = Flight(totals) - (totals.spent + totals.stale)
        /\ a \in Nat /\ o \in Nat /\ totals \in CreditTotals /\ capacity \in U64
    BY ViewFacts DEF LedgerInv
  <1>2. /\ a' = capacity' - (totals'.protected_credits + Flight(totals'))
        /\ o' = Flight(totals') - (totals'.spent + totals'.stale)
        /\ a' \in Nat /\ o' \in Nat
    BY ViewFacts DEF LedgerInv
  <1> HIDE DEF a, o
  <1>3. ASSUME NEW count \in U64, Issue(count) PROVE Pool!Issue
    <2>1. /\ count > 0 /\ count <= capacity - (totals.protected_credits + Flight(totals))
          /\ capacity' = capacity /\ totals' = AfterIssue(totals, count)
      BY <1>3, IssueStep
    <2>2. /\ totals'.issued = totals.issued + count
          /\ totals'.returned = totals.returned
          /\ totals'.spent = totals.spent
          /\ totals'.stale = totals.stale
          /\ totals'.protected_credits = totals.protected_credits
      BY <1>1, <2>1 DEF AfterIssue, CreditTotals
    <2>3. /\ count \in 1..a
          /\ a' = a - count /\ o' = o + count
      BY <1>1, <1>2, <2>1, <2>2 DEF CreditTotals, U64, Flight
    <2> QED BY <2>2, <2>3 DEF Pool!Issue, a, o
  <1>4. ASSUME NEW count \in U64, Consume(count) PROVE Pool!Consume
    <2>1. /\ count > 0 /\ count <= Flight(totals) - (totals.spent + totals.stale)
          /\ capacity' = capacity /\ totals' = AfterConsume(totals, count)
      BY <1>4, ConsumeStep
    <2>2. /\ totals'.issued = totals.issued
          /\ totals'.returned = totals.returned
          /\ totals'.spent = totals.spent + count
          /\ totals'.stale = totals.stale
          /\ totals'.protected_credits = totals.protected_credits
      BY <1>1, <2>1 DEF AfterConsume, CreditTotals
    <2>3. /\ count \in 1..o
          /\ a' = a /\ o' = o - count
      BY <1>1, <1>2, <2>1, <2>2 DEF CreditTotals, U64, Flight
    <2> QED BY <2>2, <2>3 DEF Pool!Consume, a, o
  <1>5. ASSUME NEW count \in U64, Return(count) PROVE Pool!Return
    <2> DEFINE s == IF totals.spent < count THEN totals.spent ELSE count
    <2>1. /\ count > 0 /\ count <= Flight(totals) - totals.stale
          /\ capacity' = capacity /\ totals' = AfterReturn(totals, count)
      BY <1>5, ReturnStep
    <2>2. /\ totals'.spent = totals.spent - s /\ totals'.returned = totals.returned + count
          /\ totals'.issued = totals.issued /\ totals'.stale = totals.stale
          /\ totals'.protected_credits = totals.protected_credits
      BY <1>1, <2>1 DEF AfterReturn, CreditTotals
    <2>3. /\ s \in 0..totals.spent /\ count - s \in 0..o
          /\ count - s > 0 => s = totals.spent
          /\ a' = a + (count - s) + s /\ o' = o - (count - s)
      BY <1>1, <1>2, <2>1, <2>2 DEF CreditTotals, U64, Flight
    <2> QED BY <2>2, <2>3 DEF Pool!Return, a, o
  <1>6. ASSUME NEW count \in U64, Protect(count) PROVE Pool!Protect
    <2>1. /\ count > 0 /\ count <= capacity - (totals.protected_credits + Flight(totals))
          /\ capacity' = capacity /\ totals' = AfterProtect(totals, count)
      BY <1>6, ProtectStep
    <2>2. /\ totals'.issued = totals.issued
          /\ totals'.returned = totals.returned
          /\ totals'.spent = totals.spent
          /\ totals'.stale = totals.stale
          /\ totals'.protected_credits = totals.protected_credits + count
      BY <1>1, <2>1 DEF AfterProtect, CreditTotals
    <2>3. /\ count \in 1..a
          /\ a' = a - count /\ o' = o
      BY <1>1, <1>2, <2>1, <2>2 DEF CreditTotals, U64, Flight
    <2> QED BY <2>2, <2>3 DEF Pool!Protect, a, o
  <1>7. ASSUME NEW count \in U64, Unprotect(count) PROVE Pool!Unprotect
    <2>1. /\ count > 0 /\ count <= totals.protected_credits
          /\ capacity' = capacity /\ totals' = AfterUnprotect(totals, count)
      BY <1>7, UnprotectStep
    <2>2. /\ totals'.issued = totals.issued
          /\ totals'.returned = totals.returned
          /\ totals'.spent = totals.spent
          /\ totals'.stale = totals.stale
          /\ totals'.protected_credits = totals.protected_credits - count
      BY <1>1, <2>1 DEF AfterUnprotect, CreditTotals
    <2>3. /\ count \in 1..totals.protected_credits
          /\ a' = a + count /\ o' = o
      BY <1>1, <1>2, <2>1, <2>2 DEF CreditTotals, U64, Flight
    <2> QED BY <2>2, <2>3 DEF Pool!Unprotect, a, o
  <1>8. ASSUME NEW count \in U64, Retire(count) PROVE Pool!Retire
    <2>1. /\ count > 0 /\ count <= Flight(totals) - (totals.spent + totals.stale)
          /\ capacity' = capacity /\ totals' = AfterRetire(totals, count)
      BY <1>8, RetireStep
    <2>2. /\ totals'.issued = totals.issued
          /\ totals'.returned = totals.returned
          /\ totals'.spent = totals.spent
          /\ totals'.stale = totals.stale + count
          /\ totals'.protected_credits = totals.protected_credits
      BY <1>1, <2>1 DEF AfterRetire, CreditTotals
    <2>3. /\ count \in 1..o
          /\ a' = a /\ o' = o - count
      BY <1>1, <1>2, <2>1, <2>2 DEF CreditTotals, U64, Flight
    <2> QED BY <2>2, <2>3 DEF Pool!Retire, a, o
  <1>9. ASSUME NEW count \in U64, RevalidateToReturned(count) PROVE Pool!RevalidateToReturned
    <2>1. /\ count > 0 /\ count <= totals.stale
          /\ capacity' = capacity /\ totals' = AfterToReturned(totals, count)
      BY <1>9, RevalidateToReturnedStep
    <2>2. /\ totals'.issued = totals.issued
          /\ totals'.returned = totals.returned + count
          /\ totals'.spent = totals.spent
          /\ totals'.stale = totals.stale - count
          /\ totals'.protected_credits = totals.protected_credits
      BY <1>1, <2>1 DEF AfterToReturned, CreditTotals
    <2>3. /\ count \in 1..totals.stale
          /\ a' = a + count /\ o' = o
      BY <1>1, <1>2, <2>1, <2>2 DEF CreditTotals, U64, Flight
    <2> QED BY <2>2, <2>3 DEF Pool!RevalidateToReturned, a, o
  <1>10. ASSUME NEW count \in U64, RevalidateToConsumed(count) PROVE Pool!RevalidateToConsumed
    <2>1. /\ count > 0 /\ count <= totals.stale
          /\ capacity' = capacity /\ totals' = AfterToConsumed(totals, count)
      BY <1>10, RevalidateToConsumedStep
    <2>2. /\ totals'.issued = totals.issued
          /\ totals'.returned = totals.returned
          /\ totals'.spent = totals.spent + count
          /\ totals'.stale = totals.stale - count
          /\ totals'.protected_credits = totals.protected_credits
      BY <1>1, <2>1 DEF AfterToConsumed, CreditTotals
    <2>3. /\ count \in 1..totals.stale
          /\ a' = a /\ o' = o
      BY <1>1, <1>2, <2>1, <2>2 DEF CreditTotals, U64, Flight
    <2> QED BY <2>2, <2>3 DEF Pool!RevalidateToConsumed, a, o
  <1>11. ASSUME NEW count \in U64, SetCapacity(count) PROVE Pool!SetCapacity
    <2>1. totals' = totals
      BY <1>11, SetCapacityStep
    <2>2. a' \in Nat /\ o' = o
      BY <1>1, <1>2, <2>1
    <2> QED BY <2>1, <2>2 DEF Pool!SetCapacity, a, o
  <1>12. ASSUME AdvanceEpoch PROVE Pool!EndEra
    <2>1. capacity' = capacity /\ totals' = AfterQuarantine(totals)
      BY <1>12, AdvanceEpochStep
    <2>2. /\ totals'.issued = totals.issued /\ totals'.returned = totals.returned
          /\ totals'.spent = 0 /\ totals'.stale = Flight(totals)
          /\ totals'.protected_credits = totals.protected_credits
      BY <1>1, <2>1 DEF AfterQuarantine, CreditTotals
    <2>3. /\ a' = a /\ o' = 0
          /\ totals'.stale = totals.stale + o + totals.spent
      BY <1>1, <1>2, <2>1, <2>2 DEF CreditTotals, U64, Flight
    <2> QED BY <2>2, <2>3 DEF Pool!EndEra, a, o
  <1>13. CASE UNCHANGED vars
    BY <1>13 DEF vars, Pool!vars
  <1> QED
    BY <1>3, <1>4, <1>5, <1>6, <1>7, <1>8, <1>9, <1>10, <1>11, <1>12, <1>13
    DEF Next, Pool!Next

(***************************************************************************)
(* The counters implement the pool: whatever the sequence of operations,   *)
(* credit moves only along the arrows of CreditPool.                       *)
(***************************************************************************)
THEOREM Refinement == Spec => PoolSpec
  <1>1. Init => Pool!Init
    <2> SUFFICES ASSUME Init PROVE Pool!Init
      OBVIOUS
    <2>1. LedgerInv
      BY InitLedgerInv
    <2>2. Flight(totals) = 0 /\ totals = NoTotals /\ capacity \in Nat \ {0}
      BY ConfigAssumption, MaxU64Assumption DEF Init, NoTotals, Flight, U64
    <2>3. /\ compute_view(capacity, totals).available = capacity
          /\ compute_view(capacity, totals).outstanding = 0
      BY <2>1, <2>2, ViewFacts DEF LedgerInv, NoTotals
    <2> QED BY <2>2, <2>3 DEF Pool!Init, NoTotals
  <1> QED BY <1>1, AlwaysLedgerInv, StepSimulation, PTL DEF Spec, PoolSpec, Pool!Spec
=============================================================================
