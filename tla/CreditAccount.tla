--------------------------- MODULE CreditAccount ---------------------------
(***************************************************************************)
(* One account of the engine and the decision on one request, as           *)
(* operators: apply_locked and the functions it calls in                   *)
(* src/src/engine.cpp, up to the point where the decision is persisted.    *)
(*                                                                         *)
(* The account is a record                                                 *)
(*   epoch, generation    the authority era                                *)
(*   capacity, totals     the ledger                                       *)
(*   hard_exhausted       the exhaustion latch                             *)
(*   incarnations         IncarnationRecord by incarnation                 *)
(*   fences               the fenced incarnations, oldest first            *)
(*   window               the decided attempts still remembered, oldest    *)
(*                        first (AttemptWindow)                            *)
(* committed_attempts and refused_attempts are the sums of the per         *)
(* incarnation counters committed_ops and refused_ops and are not kept.    *)
(*                                                                         *)
(* There is one domain and one account; accounts share no state but the    *)
(* journal.                                                                *)
(***************************************************************************)
EXTENDS Ledger, Sequences, FiniteSets

CONSTANTS
  InitialCapacity, MaxCapacity, MinIssue, MaxIssue,
  AllowReturn, AllowProtect, AllowGrowth,  \* AccountConfig and CreditPolicy
  Incarnations,      \* the processes that may present themselves
  Operator,          \* operator_incarnation_
  MaxIncarnations,   \* EngineLimits::max_incarnations_per_account
  MaxFences,         \* EngineLimits::max_fences_per_account
  WindowLimit,       \* EngineLimits::max_attempt_window
  Unset              \* an identity field that was left zero

ASSUME AccountAssumption ==
  /\ MaxCapacity \in U64
  /\ InitialCapacity \in 1..MaxCapacity
  /\ MinIssue \in 1..MaxIssue
  /\ MaxIssue \in U64
  /\ AllowReturn \in BOOLEAN /\ AllowProtect \in BOOLEAN /\ AllowGrowth \in BOOLEAN
  /\ Operator \in Incarnations
  /\ MaxIncarnations \in Nat \ {0} /\ MaxFences \in Nat \ {0} /\ WindowLimit \in Nat \ {0}
  /\ Unset \notin Incarnations

DataOps == {"Issue", "Consume", "Return", "Protect", "Unprotect", "Reconcile"}

ControlOps == {"Exhaust", "ClearExhaustion", "SetCapacity", "AdvanceEpoch", "Rotate",
               "Retire", "Revalidate", "Fence", "RetireIncarnation"}

\* The operations that end an era.
EraEnds == {"AdvanceEpoch", "Rotate"}

\* op_requires_count
CountedOps == {"Issue", "Consume", "Return", "Protect", "Unprotect", "Retire", "Revalidate"}

(***************************************************************************)
(* A request.  `expected' is the evidence digest: "none", or "stale" when  *)
(* it is the digest of a state the account has left; the current digest    *)
(* has the effect of "none".  `cause' is fence_cause.                      *)
(***************************************************************************)
CreditRequest(op, who, epoch, generation, sequence, attempt) ==
  [op |-> op, incarnation |-> who, epoch |-> epoch, generation |-> generation,
   sequence |-> sequence, attempt |-> attempt, count |-> 0,
   producer |-> Unset, consumer |-> Unset, grant |-> Unset, target |-> Unset,
   proof |-> <<>>, decision |-> "None", expected |-> "none", cause |-> "UnknownState"]

-----------------------------------------------------------------------------
\* ReconciliationChallenge::compute: a proof binds the boot's nonce and the era.
challenge(nonce, who, epoch, generation) == <<nonce, who, epoch, generation>>

\* Mutant: the nonce of the boot is not part of the proof.
verify_any_boot(nonce, request) ==
  \E n \in 1..nonce :
    request.proof = challenge(n, request.incarnation, request.epoch, request.generation)

verify(nonce, request) ==
  request.proof = challenge(nonce, request.incarnation, request.epoch, request.generation)

\* IncarnationRecord as it is default-constructed.
FreshRecord ==
  [state |-> "Unknown", reconciled_epoch |-> 0, reconciled_generation |-> 0,
   reconciliation_proof |-> <<>>, producer |-> Unset, consumer |-> Unset, grant |-> Unset,
   last_sequence |-> 0, committed_ops |-> 0, refused_ops |-> 0]

known(account, who) == who \in DOMAIN account.incarnations

is_fenced(account, who) == \E i \in DOMAIN account.fences : account.fences[i] = who

is_live(account, who) ==
  /\ account.incarnations[who].state = "Reconciled"
  /\ account.incarnations[who].reconciled_epoch = account.epoch
  /\ account.incarnations[who].reconciled_generation = account.generation

\* account.incarnations[who] = record
with_record(account, who, record) ==
  [account EXCEPT !.incarnations =
     [i \in DOMAIN account.incarnations \cup {who} |->
        IF i = who THEN record ELSE account.incarnations[i]]]

record_of(account, who) ==
  IF known(account, who) THEN account.incarnations[who] ELSE FreshRecord

\* Mutant: fenced and retired incarnations become Unknown as well.
forget_every_state(account) ==
  [account EXCEPT !.incarnations =
     [i \in DOMAIN account.incarnations |-> [account.incarnations[i] EXCEPT !.state = "Unknown"]]]

\* Every Reconciled incarnation becomes Unknown: at the end of an era and of a boot.
forget_liveness(account) ==
  [account EXCEPT !.incarnations =
     [i \in DOMAIN account.incarnations |->
        IF account.incarnations[i].state = "Reconciled"
          THEN [account.incarnations[i] EXCEPT !.state = "Unknown"]
          ELSE account.incarnations[i]]]

-----------------------------------------------------------------------------
(* AttemptWindow: find, find_by_attempt and insert.                        *)

in_window(window, who, sequence) ==
  \E i \in DOMAIN window : window[i].incarnation = who /\ window[i].sequence = sequence

find(window, who, sequence) ==
  window[CHOOSE i \in DOMAIN window :
           window[i].incarnation = who /\ window[i].sequence = sequence]

attempt_in_window(window, attempt) == \E i \in DOMAIN window : window[i].attempt = attempt

insert(window, entry) ==
  LET all == Append(window, entry)
  IN  IF Len(all) > WindowLimit THEN Tail(all) ELSE all

-----------------------------------------------------------------------------
(* Admission: the refusals of apply_locked, in the order it tests them.    *)

\* Mutant: the fence list is not consulted.
reconcile_verdict_unfenced(account, who) ==
  IF record_of(account, who).state = "Retired" THEN "IncarnationNotReconciled" ELSE "Ok"

reconcile_verdict(account, who) ==
  IF is_fenced(account, who) THEN "FencedIncarnation"
  ELSE IF record_of(account, who).state = "Retired" THEN "IncarnationNotReconciled"
  ELSE IF ~known(account, who) /\ Cardinality(DOMAIN account.incarnations) >= MaxIncarnations
    THEN "BudgetExceeded"
  ELSE "Ok"

\* The standing that every operation but Reconcile needs.
standing_verdict(account, who) ==
  IF ~known(account, who) THEN "UnknownIncarnation"
  ELSE IF account.incarnations[who].state = "Fenced" THEN "FencedIncarnation"
  ELSE IF account.incarnations[who].state = "Retired" THEN "IncarnationNotReconciled"
  ELSE IF ~is_live(account, who) THEN "ReconciliationRequired"
  ELSE "Ok"

lacks_control(request) == request.op \in ControlOps /\ request.incarnation # Operator

\* Era, standing and operator rights (authority binding).
authority_verdict(account, request) ==
  LET standing == IF request.op = "Reconcile" THEN reconcile_verdict(account, request.incarnation)
                                              ELSE standing_verdict(account, request.incarnation)
  IN  IF request.epoch # account.epoch \/ request.generation # account.generation
        THEN "StaleAuthority"
      ELSE IF standing # "Ok" THEN standing
      ELSE IF lacks_control(request) THEN "NotOperator"
      ELSE "Ok"

\* Mutant: the attempt identity stands for the request.
same_attempt(entry, request) == entry.attempt = request.attempt

\* The digest of the request that took the slot.
same_request(entry, request) == entry.request = request

\* Mutant: outside the window, the watermark is not consulted.
placement_by_window(account, request) ==
  IF in_window(account.window, request.incarnation, request.sequence)
    THEN IF same_request(find(account.window, request.incarnation, request.sequence), request)
           THEN "Duplicate" ELSE "AttemptConflict"
  ELSE IF attempt_in_window(account.window, request.attempt) THEN "AttemptConflict"
  ELSE "Ok"

(***************************************************************************)
(* Attempt identity and placement.  "Duplicate" is the answer from the     *)
(* window: the recorded outcome, with duplicate set.                       *)
(***************************************************************************)
placement_verdict(account, request) ==
  LET watermark == record_of(account, request.incarnation).last_sequence IN
  IF in_window(account.window, request.incarnation, request.sequence)
    THEN IF same_request(find(account.window, request.incarnation, request.sequence), request)
           THEN "Duplicate" ELSE "AttemptConflict"
  ELSE IF attempt_in_window(account.window, request.attempt) THEN "AttemptConflict"
  ELSE IF request.sequence <= watermark THEN "StaleReplay"
  ELSE IF add_overflow(watermark, 1) THEN "BudgetExceeded"
  ELSE IF request.sequence > watermark + 1 THEN "SequenceGap"
  ELSE "Ok"

admission(account, request) ==
  IF request.sequence = 0 THEN "MalformedMessage"
  ELSE IF request.op \in CountedOps /\ request.count = 0 THEN "CountZero"
  ELSE IF authority_verdict(account, request) # "Ok" THEN authority_verdict(account, request)
  ELSE placement_verdict(account, request)

-----------------------------------------------------------------------------
(***************************************************************************)
(* A decision: what an admitted request does to the account before the     *)
(* journal is asked.                                                       *)
(*   reason, applied   the outcome                                         *)
(*   decided           FALSE for a refusal that leaves no durable trace    *)
(*   account           the account as mutated in memory                    *)
(*   backup, subject   what restore_backup would go back to                *)
(***************************************************************************)
undecided(account, reason) ==
  [reason |-> reason, applied |-> FALSE, decided |-> FALSE, account |-> account,
   backup |-> account, subject |-> Unset]

count_refused(account, who) ==
  with_record(account, who, [record_of(account, who) EXCEPT !.refused_ops = @ + 1])

count_committed(account, who) ==
  with_record(account, who, [record_of(account, who) EXCEPT !.committed_ops = @ + 1])

\* finish_decided: the refusal consumes the slot; its backup is taken here.
decided_refusal(account, request, reason) ==
  [reason |-> reason, applied |-> FALSE, decided |-> TRUE,
   account |-> count_refused(account, request.incarnation),
   backup |-> account, subject |-> Unset]

decided_applied(before, after, request, subject) ==
  [reason |-> "Ok", applied |-> TRUE, decided |-> TRUE,
   account |-> count_committed(after, request.incarnation),
   backup |-> before, subject |-> subject]

\* Mutant: the record of the operation's target is not put back.
restore_caller_only(decision, caller) ==
  LET old == decision.backup.incarnations
      new == decision.account.incarnations
  IN  [decision.backup EXCEPT !.incarnations =
         [i \in (DOMAIN new \ {caller}) \cup (DOMAIN old \cap {caller}) |->
            IF i = caller THEN old[i] ELSE new[i]]]

\* restore_backup: only the caller's and the subject's records are put back.
restore_backup(decision, caller) ==
  LET old == decision.backup.incarnations
      new == decision.account.incarnations
      saved == {caller, decision.subject} \ {Unset}
  IN  [decision.backup EXCEPT !.incarnations =
         [i \in (DOMAIN new \ saved) \cup (DOMAIN old \cap saved) |->
            IF i \in saved THEN old[i] ELSE new[i]]]

Plan(account) == LedgerPlan(account.capacity, account.totals)

\* A ledger verdict becomes an applied decision or a decided refusal.
settle(before, account, request, plan) ==
  IF plan.status = "Ok"
    THEN decided_applied(before,
           [account EXCEPT !.capacity = plan.capacity, !.totals = plan.totals],
           request, Unset)
    ELSE decided_refusal(account, request, plan.status)

ledger_apply(account, request) ==
  CASE request.op = "Issue"     -> issue(Plan(account), request.count, MinIssue, MaxIssue)
    [] request.op = "Consume"   -> consume(Plan(account), request.count)
    [] request.op = "Return"    -> IF AllowReturn THEN give_back(Plan(account), request.count)
                                                  ELSE refuse(Plan(account), "PolicyRefused")
    [] request.op = "Protect"   -> protect(Plan(account), request.count, AllowProtect)
    [] request.op = "Unprotect" -> unprotect(Plan(account), request.count)

reconcile(account, request, nonce) ==
  IF ~verify(nonce, request) THEN undecided(account, "ReconciliationRequired")
  ELSE decided_applied(account,
         with_record(account, request.incarnation,
           [record_of(account, request.incarnation) EXCEPT
              !.state = "Reconciled",
              !.reconciled_epoch = account.epoch,
              !.reconciled_generation = account.generation,
              !.reconciliation_proof = request.proof]),
         request, Unset)

\* The relationship fields of an Issue, in the order they are bound.
Roles == <<"producer", "consumer", "grant">>

mismatches(record, request) ==
  {i \in 1..3 : /\ request[Roles[i]] # Unset /\ record[Roles[i]] # Unset
                /\ request[Roles[i]] # record[Roles[i]]}

\* Binds the roles before the n-th.
bind(record, request, n) ==
  [record EXCEPT
     !.producer = IF n > 1 /\ request.producer # Unset THEN request.producer ELSE @,
     !.consumer = IF n > 2 /\ request.consumer # Unset THEN request.consumer ELSE @,
     !.grant    = IF n > 3 /\ request.grant # Unset THEN request.grant ELSE @]

\* decide_data_locked for Issue: binding happens before the ledger's verdict.
decide_issue(account, request) ==
  LET who    == request.incarnation
      record == account.incarnations[who]
      wrong  == mismatches(record, request)
      first  == IF wrong = {} THEN 4 ELSE CHOOSE i \in wrong : \A j \in wrong : i <= j
      bound  == with_record(account, who, bind(record, request, first))
  IN  IF account.hard_exhausted THEN decided_refusal(account, request, "ExhaustedHard")
      ELSE IF wrong # {}
        THEN decided_refusal(bound, request,
               <<"ProducerMismatch", "ConsumerMismatch", "GrantMismatch">>[first])
      ELSE settle(account, bound, request, ledger_apply(bound, request))

decide_data(account, request, nonce) ==
  CASE request.op = "Reconcile" -> reconcile(account, request, nonce)
    [] request.op = "Issue"     -> decide_issue(account, request)
    [] OTHER -> settle(account, account, request, ledger_apply(account, request))

-----------------------------------------------------------------------------
(* decide_control_locked, one operator per case of its switch.             *)

exhaust(account, request) ==
  IF account.hard_exhausted THEN decided_refusal(account, request, "ExhaustedHard")
  ELSE IF request.cause = "Ok" THEN undecided(account, "PolicyRefused")
  ELSE decided_applied(account, [account EXCEPT !.hard_exhausted = TRUE], request, request.target)

clear_exhaustion(account, request) ==
  IF ~account.hard_exhausted THEN decided_refusal(account, request, "NotExhausted")
  ELSE decided_applied(account, [account EXCEPT !.hard_exhausted = FALSE], request, request.target)

\* AdvanceEpoch and Rotate: the in-flight credit is quarantined and nobody is live.
end_era(account, request) ==
  LET next_epoch == IF request.op = "Rotate" THEN request.count ELSE account.epoch + 1
      plan       == quarantine_in_flight(Plan(account))
  IN  IF request.op = "Rotate" /\ next_epoch <= account.epoch
        THEN undecided(account, "InvalidState")
      ELSE IF request.op = "AdvanceEpoch" /\ add_overflow(account.epoch, 1)
        THEN undecided(account, "CountOverflow")
      ELSE IF add_overflow(account.generation, 1) THEN undecided(account, "CountOverflow")
      ELSE IF plan.status # "Ok" THEN undecided(account, plan.status)
      ELSE decided_applied(account,
             [forget_liveness(account) EXCEPT
                !.totals = plan.totals, !.epoch = next_epoch, !.generation = @ + 1],
             request, request.target)

revalidate(account, request) ==
  IF request.decision = "None" THEN undecided(account, "PolicyRefused")
  ELSE settle(account, account, request,
         IF request.decision = "ToReturned"
           THEN revalidate_to_returned(Plan(account), request.count)
           ELSE revalidate_to_consumed(Plan(account), request.count))

\* A refusal at the fence limit comes after an unknown target got its record.
fence(account, request) ==
  LET target == request.target
      listed == with_record(account, target, record_of(account, target))
      fenced == with_record(account, target, [record_of(account, target) EXCEPT !.state = "Fenced"])
  IN  IF target = Unset THEN undecided(account, "MalformedMessage")
      ELSE IF request.cause = "Ok" THEN undecided(account, "PolicyRefused")
      ELSE IF is_fenced(account, target) THEN decided_refusal(account, request, "InvalidState")
      ELSE IF ~known(account, target) /\ Cardinality(DOMAIN account.incarnations) >= MaxIncarnations
        THEN undecided(account, "BudgetExceeded")
      ELSE IF Len(account.fences) >= MaxFences THEN undecided(listed, "BudgetExceeded")
      ELSE decided_applied(account, [fenced EXCEPT !.fences = Append(@, target)], request, target)

retire_incarnation(account, request) ==
  LET target == request.target IN
  IF target = Unset THEN undecided(account, "MalformedMessage")
  ELSE IF ~known(account, target) THEN undecided(account, "UnknownIncarnation")
  ELSE IF account.incarnations[target].state = "Fenced"
    THEN decided_refusal(account, request, "FencedIncarnation")
  ELSE decided_applied(account,
         with_record(account, target, [account.incarnations[target] EXCEPT !.state = "Retired"]),
         request, target)

decide_control(account, request) ==
  IF request.expected = "stale" THEN undecided(account, "StaleEvidence")
  ELSE CASE request.op = "Exhaust"           -> exhaust(account, request)
         [] request.op = "ClearExhaustion"   -> clear_exhaustion(account, request)
         [] request.op = "SetCapacity"       ->
              settle(account, account, request,
                set_capacity(Plan(account), request.count, MaxCapacity, AllowGrowth))
         [] request.op = "AdvanceEpoch"      -> end_era(account, request)
         [] request.op = "Rotate"            -> end_era(account, request)
         [] request.op = "Retire"            ->
              settle(account, account, request, retire_stale(Plan(account), request.count))
         [] request.op = "Revalidate"        -> revalidate(account, request)
         [] request.op = "Fence"             -> fence(account, request)
         [] request.op = "RetireIncarnation" -> retire_incarnation(account, request)

decide(account, request, nonce) ==
  IF request.op \in ControlOps THEN decide_control(account, request)
                               ELSE decide_data(account, request, nonce)

-----------------------------------------------------------------------------
\* Mutant: a decided refusal does not move the watermark.
publish_applied_only(account, request, reason, applied) ==
  LET who == request.incarnation
      remembered == [account EXCEPT !.window = insert(@,
                       [incarnation |-> who, sequence |-> request.sequence,
                        attempt |-> request.attempt, request |-> request,
                        reason |-> reason, applied |-> applied])]
  IN  IF known(account, who) /\ applied
        THEN with_record(remembered, who,
               [account.incarnations[who] EXCEPT !.last_sequence = request.sequence])
        ELSE remembered

\* publish_window_locked: the attempt is remembered and the watermark moves.
publish_window(account, request, reason, applied) ==
  LET who == request.incarnation
      remembered == [account EXCEPT !.window = insert(@,
                       [incarnation |-> who, sequence |-> request.sequence,
                        attempt |-> request.attempt, request |-> request,
                        reason |-> reason, applied |-> applied])]
  IN  IF known(account, who)
        THEN with_record(remembered, who,
               [account.incarnations[who] EXCEPT !.last_sequence = request.sequence])
        ELSE remembered

\* create_account_locked, up to persist: the opener is reconciled at once.
new_account(request) ==
  [epoch |-> request.epoch, generation |-> request.generation,
   capacity |-> InitialCapacity, totals |-> NoTotals, hard_exhausted |-> FALSE,
   incarnations |-> [i \in {request.incarnation} |->
     [FreshRecord EXCEPT !.state = "Reconciled",
        !.reconciled_epoch = request.epoch, !.reconciled_generation = request.generation,
        !.reconciliation_proof = request.proof, !.committed_ops = 1]],
   fences |-> <<>>, window |-> <<>>]

open_verdict(request, nonce) ==
  IF request.epoch # 1 \/ request.generation # 1 THEN "StaleAuthority"
  ELSE IF request.sequence # 1 THEN "SequenceGap"
  ELSE IF ~verify(nonce, request) THEN "ReconciliationRequired"
  ELSE "Ok"

(***************************************************************************)
(* What a boot leaves of an account.  Liveness is not durable; and of the  *)
(* attempts that the window remembers, those older than the last snapshot  *)
(* come back as bare identities, without their request and outcome.        *)
(***************************************************************************)
forgotten(entry) ==
  [entry EXCEPT !.attempt = Unset, !.request = Unset,
                !.reason = "AttemptUnknown", !.applied = FALSE]

faded(a, n) ==
  [forget_liveness(a) EXCEPT !.window =
     [i \in DOMAIN a.window |-> IF i <= n THEN forgotten(a.window[i]) ELSE a.window[i]]]
=============================================================================
