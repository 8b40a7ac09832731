---------------------------- MODULE LedgerLemmas ----------------------------
(***************************************************************************)
(* What the mutators of LedgerPlan do, for every word size.  Each lemma    *)
(* takes an account whose counters reconcile and a mutation that was not   *)
(* refused, and gives the guard that let it through, the new counters, and *)
(* the fact that they reconcile again.                                     *)
(***************************************************************************)
EXTENDS Ledger, TLAPS

\* A plan over words whose counters reconcile whenever its status is Ok.
SoundPlan ==
  {p \in [capacity : U64, totals : CreditTotals, status : LedgerReason] :
     p.status = "Ok" => check_invariants(p.capacity, p.totals) = "Ok"}

-----------------------------------------------------------------------------
(***************************************************************************)
(* check_invariants in arithmetic: the order of its tests and the two      *)
(* overflow tests do not matter to what Ok means.                          *)
(***************************************************************************)
LEMMA CheckMeaning ==
  ASSUME NEW c \in U64, NEW t \in CreditTotals
  PROVE  check_invariants(c, t) = "Ok" <=>
           /\ t.returned <= t.issued
           /\ t.spent + t.stale <= t.issued - t.returned
           /\ t.protected_credits + (t.issued - t.returned) <= c
  BY MaxU64Assumption DEF check_invariants, add_overflow, CreditTotals, U64

\* Whatever check_invariants says, it says it with a reason.
LEMMA CheckReason ==
  ASSUME NEW c \in U64, NEW t \in CreditTotals
  PROVE  check_invariants(c, t) \in LedgerReason
  BY DEF check_invariants, LedgerReason

\* A plan over the counters of an account is sound: the constructor checks.
LEMMA FreshPlanSound ==
  ASSUME NEW c \in U64, NEW t \in CreditTotals
  PROVE  /\ LedgerPlan(c, t) \in SoundPlan
         /\ LedgerPlan(c, t).capacity = c
         /\ LedgerPlan(c, t).totals = t
  BY CheckReason DEF LedgerPlan, SoundPlan

\* A refusal leaves a plan sound, whatever the reason.
LEMMA RefuseSound ==
  ASSUME NEW p \in SoundPlan, NEW r \in LedgerReason, r # "Ok"
  PROVE  /\ refuse(p, r) \in SoundPlan
         /\ refuse(p, r).capacity = p.capacity
         /\ refuse(p, r).totals = p.totals
         /\ refuse(p, r).status = r
  BY DEF refuse, SoundPlan

\* LedgerPlan::commit re-verifies its candidate, so a plan it accepts is sound.
LEMMA CommitSound ==
  ASSUME NEW p \in SoundPlan, NEW t \in CreditTotals
  PROVE  /\ commit(p, t) \in SoundPlan
         /\ commit(p, t).capacity = p.capacity
  <1>0. p.capacity \in U64
    BY DEF SoundPlan
  <1>1. CASE p.status # "Ok"
    BY <1>1 DEF commit
  <1>2. CASE p.status = "Ok" /\ check_invariants(p.capacity, t) # "Ok"
    BY <1>0, <1>2, RefuseSound, CheckReason DEF commit
  <1>3. CASE p.status = "Ok" /\ check_invariants(p.capacity, t) = "Ok"
    BY <1>0, <1>3 DEF commit, SoundPlan
  <1> QED BY <1>1, <1>2, <1>3

\* What commit installs when it accepts: exactly the candidate.
LEMMA CommitEffect ==
  ASSUME NEW p \in SoundPlan, NEW t \in CreditTotals,
         p.status = "Ok", commit(p, t).status = "Ok"
  PROVE  /\ check_invariants(p.capacity, t) = "Ok"
         /\ commit(p, t).totals = t
  <1>1. check_invariants(p.capacity, t) = "Ok"
    <2>1. SUFFICES ASSUME check_invariants(p.capacity, t) # "Ok" PROVE FALSE
      OBVIOUS
    <2>2. commit(p, t) = refuse(p, check_invariants(p.capacity, t))
      BY <2>1 DEF commit
    <2>3. p.capacity \in U64
      BY DEF SoundPlan
    <2> QED BY <2>1, <2>2, <2>3, RefuseSound, CheckReason
  <1>2. commit(p, t) = [p EXCEPT !.totals = t]
    BY <1>1 DEF commit
  <1> QED BY <1>1, <1>2 DEF SoundPlan

-----------------------------------------------------------------------------
Flight(t) == t.issued - t.returned

\* The counters of an account that can be in use: words that reconcile.
Sound(c, t) == c \in U64 /\ t \in CreditTotals /\ check_invariants(c, t) = "Ok"

(***************************************************************************)
(* The facts every mutator starts from: the plan p over a sound account    *)
(* shows its counters and its view, and a refusal would show in its status.*)
(***************************************************************************)
PlanReady(c, t, p) ==
  /\ c \in U64 /\ t \in CreditTotals
  /\ p \in SoundPlan /\ p.status = "Ok" /\ p.capacity = c /\ p.totals = t
  /\ t.returned <= t.issued
  /\ t.spent + t.stale <= Flight(t)
  /\ t.protected_credits + Flight(t) <= c
  /\ view(p).in_flight = Flight(t)
  /\ view(p).available = c - (t.protected_credits + Flight(t))
  /\ view(p).outstanding = Flight(t) - (t.spent + t.stale)
  /\ \A r \in LedgerReason \ {"Ok"} : refuse(p, r).status # "Ok"

\* A fresh plan over a sound account is ready.
LEMMA PlanFacts ==
  ASSUME NEW c, NEW t, Sound(c, t), NEW p, p = LedgerPlan(c, t)
  PROVE  PlanReady(c, t, p)
  <1>1. c \in U64 /\ t \in CreditTotals /\ check_invariants(c, t) = "Ok"
    BY DEF Sound
  <1>2. p \in SoundPlan /\ p.capacity = c /\ p.totals = t
    BY <1>1, FreshPlanSound
  <1>3. p.status = "Ok"
    BY <1>1 DEF LedgerPlan
  <1>4. /\ t.returned <= t.issued
        /\ t.spent + t.stale <= Flight(t)
        /\ t.protected_credits + Flight(t) <= c
    BY <1>1, CheckMeaning DEF Flight
  <1>5. /\ view(p).in_flight = Flight(t)
        /\ view(p).available = c - (t.protected_credits + Flight(t))
        /\ view(p).outstanding = Flight(t) - (t.spent + t.stale)
    BY <1>1, <1>2 DEF view, compute_view, Flight
  <1>6. \A r \in LedgerReason \ {"Ok"} : refuse(p, r).status # "Ok"
    BY <1>2, RefuseSound
  <1> QED BY <1>1, <1>2, <1>3, <1>4, <1>5, <1>6 DEF PlanReady

\* The counters each mutator asks commit for.
AfterIssue(t, count) == [t EXCEPT !.issued = @ + count]
AfterConsume(t, count) == [t EXCEPT !.spent = @ + count, !.consumed = @ + count]
AfterReturn(t, count) == [t EXCEPT !.spent = @ - (IF t.spent < count THEN t.spent ELSE count), !.returned = @ + count]
AfterProtect(t, count) == [t EXCEPT !.protected_credits = @ + count]
AfterUnprotect(t, count) == [t EXCEPT !.protected_credits = @ - count]
AfterRetire(t, count) == [t EXCEPT !.stale = @ + count]
AfterToReturned(t, count) == [t EXCEPT !.stale = @ - count, !.returned = @ + count]
AfterToConsumed(t, count) == [t EXCEPT !.stale = @ - count, !.spent = @ + count, !.consumed = @ + count]
AfterQuarantine(t) == [t EXCEPT !.spent = 0, !.stale = Flight(t)]

\* issue takes available credit.
LEMMA IssueEffect ==
  ASSUME NEW c, NEW t, Sound(c, t), NEW count \in U64, NEW lo, NEW hi,
         NEW p, p = LedgerPlan(c, t), issue(p, count, lo, hi).status = "Ok"
  PROVE  /\ count > 0
         /\ count <= c - (t.protected_credits + Flight(t))
         /\ issue(p, count, lo, hi).capacity = c
         /\ issue(p, count, lo, hi).totals = AfterIssue(t, count)
         /\ Sound(c, AfterIssue(t, count))
  <1>1. PlanReady(c, t, p)
    BY PlanFacts
  <1>2. /\ count # 0
        /\ ~(view(p).available < count)
        /\ ~add_overflow(t.issued, count)
        /\ issue(p, count, lo, hi) = commit(p, AfterIssue(t, count))
    BY <1>1 DEF issue, AfterIssue, PlanReady, LedgerReason
  <1>3. /\ count > 0
        /\ count <= c - (t.protected_credits + Flight(t))
        /\ t.issued + count \in U64
    BY <1>1, <1>2, MaxU64Assumption DEF PlanReady, add_overflow, U64, CreditTotals, Flight
  <1>4. AfterIssue(t, count) \in CreditTotals
    BY <1>1, <1>3 DEF AfterIssue, PlanReady, CreditTotals
  <1> QED BY <1>1, <1>2, <1>3, <1>4, CommitEffect, CommitSound DEF PlanReady, Sound

\* consume takes outstanding credit.
LEMMA ConsumeEffect ==
  ASSUME NEW c, NEW t, Sound(c, t), NEW count \in U64,
         NEW p, p = LedgerPlan(c, t), consume(p, count).status = "Ok"
  PROVE  /\ count > 0
         /\ count <= Flight(t) - (t.spent + t.stale)
         /\ consume(p, count).capacity = c
         /\ consume(p, count).totals = AfterConsume(t, count)
         /\ Sound(c, AfterConsume(t, count))
  <1>1. PlanReady(c, t, p)
    BY PlanFacts
  <1>2. /\ count # 0
        /\ ~(view(p).outstanding < count)
        /\ ~add_overflow(t.spent, count)
        /\ ~add_overflow(t.consumed, count)
        /\ consume(p, count) = commit(p, AfterConsume(t, count))
    BY <1>1 DEF consume, AfterConsume, PlanReady, LedgerReason
  <1>3. /\ count > 0
        /\ count <= Flight(t) - (t.spent + t.stale)
        /\ {t.spent + count, t.consumed + count} \subseteq U64
    BY <1>1, <1>2, MaxU64Assumption DEF PlanReady, add_overflow, U64, CreditTotals, Flight
  <1>4. AfterConsume(t, count) \in CreditTotals
    BY <1>1, <1>3 DEF AfterConsume, PlanReady, CreditTotals
  <1> QED BY <1>1, <1>2, <1>3, <1>4, CommitEffect, CommitSound DEF PlanReady, Sound

\* give_back takes spent credit first, and never quarantined credit.
LEMMA GiveBackEffect ==
  ASSUME NEW c, NEW t, Sound(c, t), NEW count \in U64,
         NEW p, p = LedgerPlan(c, t), give_back(p, count).status = "Ok"
  PROVE  /\ count > 0
         /\ count <= Flight(t) - t.stale
         /\ give_back(p, count).capacity = c
         /\ give_back(p, count).totals = AfterReturn(t, count)
         /\ Sound(c, AfterReturn(t, count))
  <1>1. PlanReady(c, t, p)
    BY PlanFacts
  <1>2. /\ count # 0
        /\ ~(view(p).in_flight - t.stale < count)
        /\ ~add_overflow(t.returned, count)
        /\ give_back(p, count) = commit(p, AfterReturn(t, count))
    BY <1>1 DEF give_back, AfterReturn, PlanReady, LedgerReason
  <1>3. /\ count > 0
        /\ count <= Flight(t) - t.stale
        /\ {t.spent - (IF t.spent < count THEN t.spent ELSE count), t.returned + count} \subseteq U64
    BY <1>1, <1>2, MaxU64Assumption DEF PlanReady, add_overflow, U64, CreditTotals, Flight
  <1>4. AfterReturn(t, count) \in CreditTotals
    BY <1>1, <1>3 DEF AfterReturn, PlanReady, CreditTotals
  <1> QED BY <1>1, <1>2, <1>3, <1>4, CommitEffect, CommitSound DEF PlanReady, Sound

\* protect takes available credit.
LEMMA ProtectEffect ==
  ASSUME NEW c, NEW t, Sound(c, t), NEW count \in U64, NEW allowed \in BOOLEAN,
         NEW p, p = LedgerPlan(c, t), protect(p, count, allowed).status = "Ok"
  PROVE  /\ count > 0
         /\ count <= c - (t.protected_credits + Flight(t))
         /\ protect(p, count, allowed).capacity = c
         /\ protect(p, count, allowed).totals = AfterProtect(t, count)
         /\ Sound(c, AfterProtect(t, count))
  <1>1. PlanReady(c, t, p)
    BY PlanFacts
  <1>2. /\ count # 0
        /\ ~(view(p).available < count)
        /\ ~add_overflow(t.protected_credits, count)
        /\ protect(p, count, allowed) = commit(p, AfterProtect(t, count))
    BY <1>1 DEF protect, AfterProtect, PlanReady, LedgerReason
  <1>3. /\ count > 0
        /\ count <= c - (t.protected_credits + Flight(t))
        /\ t.protected_credits + count \in U64
    BY <1>1, <1>2, MaxU64Assumption DEF PlanReady, add_overflow, U64, CreditTotals, Flight
  <1>4. AfterProtect(t, count) \in CreditTotals
    BY <1>1, <1>3 DEF AfterProtect, PlanReady, CreditTotals
  <1> QED BY <1>1, <1>2, <1>3, <1>4, CommitEffect, CommitSound DEF PlanReady, Sound

\* unprotect takes protected credit.
LEMMA UnprotectEffect ==
  ASSUME NEW c, NEW t, Sound(c, t), NEW count \in U64,
         NEW p, p = LedgerPlan(c, t), unprotect(p, count).status = "Ok"
  PROVE  /\ count > 0
         /\ count <= t.protected_credits
         /\ unprotect(p, count).capacity = c
         /\ unprotect(p, count).totals = AfterUnprotect(t, count)
         /\ Sound(c, AfterUnprotect(t, count))
  <1>1. PlanReady(c, t, p)
    BY PlanFacts
  <1>2. /\ count # 0
        /\ ~(t.protected_credits < count)
        /\ unprotect(p, count) = commit(p, AfterUnprotect(t, count))
    BY <1>1 DEF unprotect, AfterUnprotect, PlanReady, LedgerReason
  <1>3. /\ count > 0
        /\ count <= t.protected_credits
        /\ t.protected_credits - count \in U64
    BY <1>1, <1>2, MaxU64Assumption DEF PlanReady, add_overflow, U64, CreditTotals, Flight
  <1>4. AfterUnprotect(t, count) \in CreditTotals
    BY <1>1, <1>3 DEF AfterUnprotect, PlanReady, CreditTotals
  <1> QED BY <1>1, <1>2, <1>3, <1>4, CommitEffect, CommitSound DEF PlanReady, Sound

\* retire_stale takes outstanding credit.
LEMMA RetireStaleEffect ==
  ASSUME NEW c, NEW t, Sound(c, t), NEW count \in U64,
         NEW p, p = LedgerPlan(c, t), retire_stale(p, count).status = "Ok"
  PROVE  /\ count > 0
         /\ count <= Flight(t) - (t.spent + t.stale)
         /\ retire_stale(p, count).capacity = c
         /\ retire_stale(p, count).totals = AfterRetire(t, count)
         /\ Sound(c, AfterRetire(t, count))
  <1>1. PlanReady(c, t, p)
    BY PlanFacts
  <1>2. /\ count # 0
        /\ ~(view(p).outstanding < count)
        /\ ~add_overflow(t.stale, count)
        /\ retire_stale(p, count) = commit(p, AfterRetire(t, count))
    BY <1>1 DEF retire_stale, AfterRetire, PlanReady, LedgerReason
  <1>3. /\ count > 0
        /\ count <= Flight(t) - (t.spent + t.stale)
        /\ t.stale + count \in U64
    BY <1>1, <1>2, MaxU64Assumption DEF PlanReady, add_overflow, U64, CreditTotals, Flight
  <1>4. AfterRetire(t, count) \in CreditTotals
    BY <1>1, <1>3 DEF AfterRetire, PlanReady, CreditTotals
  <1> QED BY <1>1, <1>2, <1>3, <1>4, CommitEffect, CommitSound DEF PlanReady, Sound

\* revalidate_to_returned takes quarantined credit.
LEMMA ToReturnedEffect ==
  ASSUME NEW c, NEW t, Sound(c, t), NEW count \in U64,
         NEW p, p = LedgerPlan(c, t), revalidate_to_returned(p, count).status = "Ok"
  PROVE  /\ count > 0
         /\ count <= t.stale
         /\ revalidate_to_returned(p, count).capacity = c
         /\ revalidate_to_returned(p, count).totals = AfterToReturned(t, count)
         /\ Sound(c, AfterToReturned(t, count))
  <1>1. PlanReady(c, t, p)
    BY PlanFacts
  <1>2. /\ count # 0
        /\ ~(t.stale < count)
        /\ ~add_overflow(t.returned, count)
        /\ revalidate_to_returned(p, count) = commit(p, AfterToReturned(t, count))
    BY <1>1 DEF revalidate_to_returned, AfterToReturned, PlanReady, LedgerReason
  <1>3. /\ count > 0
        /\ count <= t.stale
        /\ {t.stale - count, t.returned + count} \subseteq U64
    BY <1>1, <1>2, MaxU64Assumption DEF PlanReady, add_overflow, U64, CreditTotals, Flight
  <1>4. AfterToReturned(t, count) \in CreditTotals
    BY <1>1, <1>3 DEF AfterToReturned, PlanReady, CreditTotals
  <1> QED BY <1>1, <1>2, <1>3, <1>4, CommitEffect, CommitSound DEF PlanReady, Sound

\* revalidate_to_consumed takes quarantined credit.
LEMMA ToConsumedEffect ==
  ASSUME NEW c, NEW t, Sound(c, t), NEW count \in U64,
         NEW p, p = LedgerPlan(c, t), revalidate_to_consumed(p, count).status = "Ok"
  PROVE  /\ count > 0
         /\ count <= t.stale
         /\ revalidate_to_consumed(p, count).capacity = c
         /\ revalidate_to_consumed(p, count).totals = AfterToConsumed(t, count)
         /\ Sound(c, AfterToConsumed(t, count))
  <1>1. PlanReady(c, t, p)
    BY PlanFacts
  <1>2. /\ count # 0
        /\ ~(t.stale < count)
        /\ ~add_overflow(t.spent, count)
        /\ ~add_overflow(t.consumed, count)
        /\ revalidate_to_consumed(p, count) = commit(p, AfterToConsumed(t, count))
    BY <1>1 DEF revalidate_to_consumed, AfterToConsumed, PlanReady, LedgerReason
  <1>3. /\ count > 0
        /\ count <= t.stale
        /\ {t.stale - count, t.spent + count, t.consumed + count} \subseteq U64
    BY <1>1, <1>2, MaxU64Assumption DEF PlanReady, add_overflow, U64, CreditTotals, Flight
  <1>4. AfterToConsumed(t, count) \in CreditTotals
    BY <1>1, <1>3 DEF AfterToConsumed, PlanReady, CreditTotals
  <1> QED BY <1>1, <1>2, <1>3, <1>4, CommitEffect, CommitSound DEF PlanReady, Sound

(***************************************************************************)
(* quarantine_in_flight is never refused: at the end of an era all of the  *)
(* in-flight credit, spent or not, becomes stale.                          *)
(***************************************************************************)
LEMMA QuarantineEffect ==
  ASSUME NEW c, NEW t, Sound(c, t), NEW p, p = LedgerPlan(c, t)
  PROVE  /\ quarantine_in_flight(p).status = "Ok"
         /\ quarantine_in_flight(p).capacity = c
         /\ quarantine_in_flight(p).totals = AfterQuarantine(t)
         /\ Sound(c, AfterQuarantine(t))
  <1> DEFINE amount == Flight(t) - t.stale
  <1>1. PlanReady(c, t, p)
    BY PlanFacts
  <1>2. /\ amount \in U64 /\ Flight(t) \in U64 /\ 0 \in U64
        /\ ~add_overflow(t.stale, amount)
        /\ t.stale + amount = Flight(t)
    BY <1>1, MaxU64Assumption DEF PlanReady, add_overflow, U64, CreditTotals, Flight
  <1>3. AfterQuarantine(t) \in CreditTotals
    BY <1>1, <1>2 DEF AfterQuarantine, PlanReady, CreditTotals
  <1>4. check_invariants(c, AfterQuarantine(t)) = "Ok"
    <2>1. /\ AfterQuarantine(t).returned = t.returned /\ AfterQuarantine(t).issued = t.issued /\ AfterQuarantine(t).spent = 0
          /\ AfterQuarantine(t).stale = Flight(t) /\ AfterQuarantine(t).protected_credits = t.protected_credits
      BY <1>1 DEF AfterQuarantine, PlanReady, CreditTotals
    <2>2. c \in U64
      BY <1>1 DEF PlanReady
    <2> QED BY <1>1, <1>2, <1>3, <2>1, <2>2, CheckMeaning DEF PlanReady, U64, Flight
  <1>5. CASE amount = 0
    <2>1. t.spent = 0 /\ t.stale = Flight(t)
      BY <1>1, <1>5 DEF PlanReady, Flight, U64, CreditTotals
    <2>2. AfterQuarantine(t) = t
      BY <1>1, <2>1 DEF AfterQuarantine, PlanReady, CreditTotals
    <2>3. quarantine_in_flight(p) = p
      BY <1>1, <1>5 DEF quarantine_in_flight, PlanReady
    <2> QED BY <1>1, <1>3, <1>4, <2>2, <2>3 DEF PlanReady, Sound
  <1>6. CASE amount # 0
    <2>1. [t EXCEPT !.spent = 0, !.stale = @ + amount] = AfterQuarantine(t)
      BY <1>1, <1>2 DEF AfterQuarantine, PlanReady, CreditTotals
    <2>2. quarantine_in_flight(p) = commit(p, AfterQuarantine(t))
      BY <1>1, <1>2, <1>6, <2>1 DEF quarantine_in_flight, PlanReady
    <2>3. commit(p, AfterQuarantine(t)).status = "Ok"
      <3>1. commit(p, AfterQuarantine(t)) = [p EXCEPT !.totals = AfterQuarantine(t)]
        BY <1>1, <1>4 DEF commit, PlanReady
      <3> QED BY <1>1, <3>1 DEF PlanReady, SoundPlan
    <2> QED BY <1>1, <1>3, <1>4, <2>2, <2>3, CommitEffect, CommitSound DEF PlanReady, Sound
  <1> QED BY <1>5, <1>6

\* set_capacity keeps the counters and never cuts below what is promised.
LEMMA SetCapacityEffect ==
  ASSUME NEW c, NEW t, Sound(c, t), NEW d \in U64, NEW top \in U64, NEW growth \in BOOLEAN,
         NEW p, p = LedgerPlan(c, t), set_capacity(p, d, top, growth).status = "Ok"
  PROVE  /\ d \in 1..top
         /\ set_capacity(p, d, top, growth).capacity = d
         /\ set_capacity(p, d, top, growth).totals = t
         /\ Sound(d, t)
  <1>1. PlanReady(c, t, p)
    BY PlanFacts
  <1>2. /\ d # 0 /\ ~(d > top) /\ ~(d < obligation_floor(p))
        /\ set_capacity(p, d, top, growth) = [p EXCEPT !.capacity = d]
    BY <1>1 DEF set_capacity, PlanReady, LedgerReason
  <1>3. obligation_floor(p) = t.protected_credits + Flight(t)
    BY <1>1, MaxU64Assumption
    DEF obligation_floor, saturating_add, add_overflow, PlanReady, Flight, U64, CreditTotals
  <1>4. check_invariants(d, t) = "Ok"
    BY <1>1, <1>2, <1>3, CheckMeaning DEF PlanReady, Flight, U64, CreditTotals
  <1> QED BY <1>1, <1>2, <1>4 DEF PlanReady, SoundPlan, Sound, U64
=============================================================================
