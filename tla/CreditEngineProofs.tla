------------------------ MODULE CreditEngineProofs ------------------------
(***************************************************************************)
(* Proofs about CreditEngine, for any incarnations, operations, limits and *)
(* bounds, on one fact about constants: NoAccount is not an account.  The  *)
(* first part is about authority: slots, eras, standing and fences.  The   *)
(* second is about the books of an account: its ledger and its attempt     *)
(* window, against the history of what was decided.                        *)
(***************************************************************************)
EXTENDS CreditEngine, CreditAccountLemmas, LedgerLemmas, WellFoundedInduction

\* The prover of every leaf that does not name another.
USE ZenonT(60)

-----------------------------------------------------------------------------
(* What a decision does to eras, standing and fences.                      *)

(***************************************************************************)
(* The three kinds of decision that do more: a reconciliation, a fence,    *)
(* and the end of an era.                                                  *)
(***************************************************************************)
Reconciles(a, b, request, nonce) ==
  LET who == request.incarnation IN
  /\ request.op = "Reconcile" /\ verify(nonce, request)
  /\ Grown(a, b)
  /\ b.epoch = a.epoch /\ b.generation = a.generation /\ b.fences = a.fences
  /\ \A i : i # who => RecordKept(record_of(a, i), record_of(b, i))
  /\ record_of(b, who).last_sequence = record_of(a, who).last_sequence
  /\ record_of(b, who).state # "Fenced"
  /\ record_of(b, who).state = "Reconciled" => record_of(b, who).reconciliation_proof = request.proof

Fences(a, b, request) ==
  LET target == request.target IN
  /\ request.op = "Fence" /\ ~is_fenced(a, target)
  /\ Grown(a, b)
  /\ b.epoch = a.epoch /\ b.generation = a.generation /\ b.fences = Append(a.fences, target)
  /\ \A i : i # target => RecordKept(record_of(a, i), record_of(b, i))
  /\ record_of(b, target).last_sequence = record_of(a, target).last_sequence
  /\ record_of(b, target).state = "Fenced"

EndsEra(a, b, request) ==
  /\ request.op \in {"AdvanceEpoch", "Rotate"}
  /\ Grown(a, b)
  /\ b.generation = a.generation + 1 /\ b.fences = a.fences
  /\ \/ request.op = "AdvanceEpoch" /\ b.epoch = a.epoch + 1
     \/ request.op = "Rotate" /\ b.epoch = request.count /\ ~(b.epoch <= a.epoch)
  /\ \A i : RecordKept(record_of(a, i), record_of(b, i)) /\ record_of(b, i).state # "Reconciled"

Effect(a, b, request, nonce) ==
  \/ Keeps(a, b)
  \/ Reconciles(a, b, request, nonce)
  \/ Fences(a, b, request)
  \/ EndsEra(a, b, request)

\* A refusal that is decided keeps the account.
LEMMA RefusalKeeps ==
  ASSUME NEW a, Shaped(a), NEW request, NEW reason
  PROVE  LET d == decided_refusal(a, request, reason) IN
         Keeps(a, d.account) /\ known(d.account, request.incarnation)
<1>1. decided_refusal(a, request, reason).account = count_refused(a, request.incarnation)
  BY DEF decided_refusal
<1> QED BY <1>1, CountKeeps

\* A decision that was applied keeps the account that it is made of.
LEMMA AppliedKeeps ==
  ASSUME NEW before, NEW m, Shaped(m), NEW request, NEW subject
  PROVE  LET d == decided_applied(before, m, request, subject) IN
         Keeps(m, d.account) /\ known(d.account, request.incarnation)
<1>1. decided_applied(before, m, request, subject).account = count_committed(m, request.incarnation)
  BY DEF decided_applied
<1> QED BY <1>1, CountKeeps

\* So does a verdict of the ledger, whatever it is.
LEMMA SettleKeeps ==
  ASSUME NEW before, NEW a, Shaped(a), NEW request, NEW plan
  PROVE  LET d == settle(before, a, request, plan) IN
         Keeps(a, d.account) /\ known(d.account, request.incarnation)
<1> DEFINE m == [a EXCEPT !.capacity = plan.capacity, !.totals = plan.totals]
           d == settle(before, a, request, plan)
<1>1. DOMAIN a = AccountFields /\ {"incarnations", "epoch", "generation", "fences"} \subseteq AccountFields
  BY DEF Shaped, AccountFields
<1>2. /\ DOMAIN m = AccountFields /\ m.incarnations = a.incarnations /\ m.epoch = a.epoch
      /\ m.generation = a.generation /\ m.fences = a.fences
  BY <1>1
<1>3. CASE plan.status = "Ok"
  <2>1. d = decided_applied(before, m, request, Unset)
    BY <1>3 DEF settle
  <2> HIDE DEF m, d
  <2>2. Keeps(a, m) /\ Shaped(m)
    BY <1>2, SameIncarnations DEF Keeps
  <2>3. Keeps(m, d.account) /\ known(d.account, request.incarnation)
    BY <2>1, <2>2, AppliedKeeps
  <2>4. Keeps(a, d.account) /\ known(d.account, request.incarnation)
    BY <2>2, <2>3, KeepsTransitive
  <2> QED BY <2>4 DEF d
<1>4. CASE plan.status # "Ok"
  <2>1. d = decided_refusal(a, request, plan.status)
    BY <1>4 DEF settle
  <2> QED BY <2>1, RefusalKeeps
<1> QED BY <1>3, <1>4

\* An Issue binds the roles of its caller and settles.
LEMMA IssueKeeps ==
  ASSUME NEW a, Shaped(a), NEW request, known(a, request.incarnation)
  PROVE  LET d == decide_issue(a, request) IN
         Keeps(a, d.account) /\ known(d.account, request.incarnation)
<1> DEFINE who    == request.incarnation
           record == a.incarnations[who]
           wrong  == mismatches(record, request)
           first  == IF wrong = {} THEN 4 ELSE CHOOSE i \in wrong : \A j \in wrong : i <= j
           tied   == bind(record, request, first)
           bound  == with_record(a, who, tied)
           d      == decide_issue(a, request)
<1>1. record = record_of(a, who)
  BY DEF record_of
<1>2. DOMAIN record = RecordFields
  BY <1>1, RecordShape
<1>3. {"last_sequence", "state", "reconciliation_proof"} \subseteq RecordFields
  BY DEF RecordFields
<1>4. DOMAIN tied = RecordFields /\ RecordKept(record, tied)
  <2>1. \A n : /\ DOMAIN bind(record, request, n) = DOMAIN record
               /\ \A f \in DOMAIN record \ {"producer", "consumer", "grant"} :
                    bind(record, request, n)[f] = record[f]
    BY DEF bind
  <2>2. {"last_sequence", "state", "reconciliation_proof"} \subseteq DOMAIN record \ {"producer", "consumer", "grant"}
    BY <1>2 DEF RecordFields
  <2>3. /\ tied.last_sequence = record.last_sequence /\ tied.state = record.state
        /\ tied.reconciliation_proof = record.reconciliation_proof
    BY <2>1, <2>2
  <2> QED BY <1>2, <2>1, <2>3 DEF RecordKept
<1> HIDE DEF tied
<1>5. Keeps(a, bound) /\ Shaped(bound)
  BY <1>1, <1>4, WithRecordKeeps DEF Keeps
<1>6. CASE a.hard_exhausted
  <2>1. d = decided_refusal(a, request, "ExhaustedHard")
    BY <1>6 DEF decide_issue
  <2> QED BY <2>1, RefusalKeeps
<1>7. CASE ~a.hard_exhausted /\ wrong # {}
  <2> DEFINE reason == <<"ProducerMismatch", "ConsumerMismatch", "GrantMismatch">>[first]
  <2>1. d = decided_refusal(bound, request, reason)
    BY <1>7 DEF decide_issue, tied
  <2> HIDE DEF bound, d
  <2>2. Keeps(bound, d.account) /\ known(d.account, request.incarnation)
    BY <2>1, <1>5, RefusalKeeps
  <2>3. Keeps(a, d.account)
    BY <1>5, <2>2, KeepsTransitive
  <2> QED BY <2>2, <2>3 DEF d
<1>8. CASE ~a.hard_exhausted /\ wrong = {}
  <2>1. d = settle(a, bound, request, ledger_apply(bound, request))
    BY <1>8 DEF decide_issue, tied
  <2> HIDE DEF bound, d
  <2>2. Keeps(bound, d.account) /\ known(d.account, request.incarnation)
    BY <2>1, <1>5, SettleKeeps
  <2>3. Keeps(a, d.account)
    BY <1>5, <2>2, KeepsTransitive
  <2> QED BY <2>2, <2>3 DEF d
<1> QED BY <1>6, <1>7, <1>8

\* A Reconcile with the right proof makes its caller live, and nobody else.
LEMMA ReconcileEffect ==
  ASSUME NEW a, Shaped(a), NEW request, request.op = "Reconcile", NEW nonce
  PROVE  LET d == reconcile(a, request, nonce) IN
         /\ Keeps(a, d.account) \/ Reconciles(a, d.account, request, nonce)
         /\ d.decided => known(d.account, request.incarnation)
<1> DEFINE who == request.incarnation
           old == record_of(a, who)
           new == [old EXCEPT !.state = "Reconciled", !.reconciled_epoch = a.epoch,
                              !.reconciled_generation = a.generation,
                              !.reconciliation_proof = request.proof]
           m   == with_record(a, who, new)
           d   == reconcile(a, request, nonce)
<1>1. CASE ~verify(nonce, request)
  <2>1. d = undecided(a, "ReconciliationRequired")
    BY <1>1 DEF reconcile
  <2>2. d.account = a /\ d.decided = FALSE
    BY <2>1, SMTT(30) DEF undecided
  <2>3. Keeps(a, a)
    BY SameIncarnations DEF Shaped
  <2> QED BY <2>2, <2>3
<1>2. CASE verify(nonce, request)
  <2>1. d = decided_applied(a, m, request, Unset)
    BY <1>2 DEF reconcile
  <2>2. DOMAIN old = RecordFields
    BY RecordShape
  <2>3. {"last_sequence", "state", "reconciliation_proof"} \subseteq RecordFields
    BY DEF RecordFields
  <2>4. /\ DOMAIN new = RecordFields /\ new.last_sequence = old.last_sequence
        /\ new.state = "Reconciled" /\ new.reconciliation_proof = request.proof
    BY <2>2, <2>3
  <2> HIDE DEF new
  <2>5. /\ Shaped(m) /\ DOMAIN a.incarnations \subseteq DOMAIN m.incarnations
        /\ \A i : record_of(m, i) = IF i = who THEN new ELSE record_of(a, i)
    BY <2>4, WithRecord, SMTT(30)
  <2>6. m.epoch = a.epoch /\ m.generation = a.generation /\ m.fences = a.fences
    <3>1. {"epoch", "generation", "fences"} \subseteq AccountFields \ {"incarnations"}
      BY DEF AccountFields
    <3>2. \A f \in AccountFields \ {"incarnations"} : m[f] = a[f]
      BY <2>4, WithRecord, SMTT(30)
    <3> QED BY <3>1, <3>2
  <2> HIDE DEF m, d
  <2>7. Keeps(m, d.account) /\ known(d.account, who)
    BY <2>1, <2>5, AppliedKeeps
  <2> DEFINE b == d.account
  <2> HIDE DEF b
  <2>8. \A i : i # who => RecordKept(record_of(a, i), record_of(b, i))
    BY <2>5, <2>7 DEF Keeps, b
  <2>9. RecordKept(new, record_of(b, who))
    BY <2>5, <2>7 DEF Keeps, b
  <2>10. /\ record_of(b, who).last_sequence = old.last_sequence
         /\ record_of(b, who).state # "Fenced"
         /\ record_of(b, who).state = "Reconciled" =>
              record_of(b, who).reconciliation_proof = request.proof
    BY <2>4, <2>9 DEF RecordKept
  <2>11. /\ Grown(a, b) /\ b.epoch = a.epoch /\ b.generation = a.generation /\ b.fences = a.fences
    BY <2>5, <2>6, <2>7 DEF Keeps, Grown, b
  <2>12. Reconciles(a, b, request, nonce)
    BY <1>2, <2>8, <2>10, <2>11 DEF Reconciles
  <2> QED BY <2>7, <2>12 DEF b, d
<1> QED BY <1>1, <1>2

\* Every data operation.
LEMMA DataEffect ==
  ASSUME NEW a, Shaped(a), NEW request, request.op \in DataOps, admission(a, request) = "Ok",
         NEW nonce
  PROVE  LET d == decide_data(a, request, nonce) IN
         /\ Keeps(a, d.account) \/ Reconciles(a, d.account, request, nonce)
         /\ d.decided => known(d.account, request.incarnation)
<1> DEFINE d == decide_data(a, request, nonce)
<1>1. CASE request.op = "Reconcile"
  <2>1. d = reconcile(a, request, nonce)
    BY <1>1 DEF decide_data
  <2> QED BY <1>1, <2>1, ReconcileEffect
<1>2. CASE request.op = "Issue"
  <2>1. d = decide_issue(a, request)
    BY <1>2 DEF decide_data
  <2>2. known(a, request.incarnation)
    BY <1>2, Admitted
  <2> QED BY <2>1, <2>2, IssueKeeps
<1>3. CASE request.op \notin {"Reconcile", "Issue"}
  <2>1. d = settle(a, a, request, ledger_apply(a, request))
    BY <1>3 DEF decide_data
  <2> QED BY <2>1, SettleKeeps
<1> QED BY <1>1, <1>2, <1>3

\* A refusal without a trace leaves the account that it is given.
LEMMA UndecidedKeeps ==
  ASSUME NEW a, Shaped(a), NEW reason
  PROVE  LET d == undecided(a, reason) IN d.account = a /\ Keeps(a, d.account) /\ ~d.decided
<1>1. undecided(a, reason).account = a /\ undecided(a, reason).decided = FALSE
  BY DEF undecided
<1>2. Keeps(a, a)
  BY SameIncarnations DEF Shaped
<1> QED BY <1>1, <1>2

\* Exhaust and ClearExhaustion touch the latch only.
LEMMA LatchKeeps ==
  ASSUME NEW a, Shaped(a), NEW request
  PROVE  /\ Keeps(a, exhaust(a, request).account)
         /\ exhaust(a, request).decided => known(exhaust(a, request).account, request.incarnation)
         /\ Keeps(a, clear_exhaustion(a, request).account)
         /\ clear_exhaustion(a, request).decided =>
              known(clear_exhaustion(a, request).account, request.incarnation)
<1>1. ASSUME NEW latch
      PROVE  LET d == decided_applied(a, [a EXCEPT !.hard_exhausted = latch], request, request.target) IN
             Keeps(a, d.account) /\ known(d.account, request.incarnation)
  <2> DEFINE m == [a EXCEPT !.hard_exhausted = latch]
             d == decided_applied(a, m, request, request.target)
  <2>1. DOMAIN a = AccountFields /\ {"incarnations", "epoch", "generation", "fences"} \subseteq AccountFields
    BY DEF Shaped, AccountFields
  <2>2. /\ DOMAIN m = AccountFields /\ m.incarnations = a.incarnations /\ m.epoch = a.epoch
        /\ m.generation = a.generation /\ m.fences = a.fences
    BY <2>1
  <2> HIDE DEF m
  <2>3. Keeps(a, m) /\ Shaped(m)
    BY <2>2, SameIncarnations DEF Keeps
  <2>4. Keeps(m, d.account) /\ known(d.account, request.incarnation)
    BY <2>3, AppliedKeeps
  <2> HIDE DEF d
  <2>5. Keeps(a, d.account) /\ known(d.account, request.incarnation)
    BY <2>3, <2>4, KeepsTransitive
  <2> QED BY <2>5 DEF d, m
<1>2. \/ exhaust(a, request) = decided_refusal(a, request, "ExhaustedHard")
      \/ exhaust(a, request) = undecided(a, "PolicyRefused")
      \/ exhaust(a, request) = decided_applied(a, [a EXCEPT !.hard_exhausted = TRUE], request, request.target)
  BY DEF exhaust
<1>3. \/ clear_exhaustion(a, request) = decided_refusal(a, request, "NotExhausted")
      \/ clear_exhaustion(a, request) = decided_applied(a, [a EXCEPT !.hard_exhausted = FALSE], request, request.target)
  BY DEF clear_exhaustion
<1>4. /\ Keeps(a, exhaust(a, request).account)
      /\ exhaust(a, request).decided => known(exhaust(a, request).account, request.incarnation)
  <2>1. CASE exhaust(a, request) = decided_refusal(a, request, "ExhaustedHard")
    BY <2>1, RefusalKeeps
  <2>2. CASE exhaust(a, request) = undecided(a, "PolicyRefused")
    BY <2>2, UndecidedKeeps
  <2>3. CASE exhaust(a, request) =
               decided_applied(a, [a EXCEPT !.hard_exhausted = TRUE], request, request.target)
    BY <1>1, <2>3
  <2> QED BY <1>2, <2>1, <2>2, <2>3
<1>5. /\ Keeps(a, clear_exhaustion(a, request).account)
      /\ clear_exhaustion(a, request).decided =>
           known(clear_exhaustion(a, request).account, request.incarnation)
  BY <1>1, <1>3, RefusalKeeps
<1> QED BY <1>4, <1>5

\* AdvanceEpoch and Rotate end the era or leave the account as it is.
LEMMA EraEffect ==
  ASSUME NEW a, Shaped(a), NEW request, request.op \in {"AdvanceEpoch", "Rotate"}
  PROVE  LET d == end_era(a, request) IN
         /\ Keeps(a, d.account) \/ EndsEra(a, d.account, request)
         /\ d.decided => known(d.account, request.incarnation)
<1> DEFINE next_epoch == IF request.op = "Rotate" THEN request.count ELSE a.epoch + 1
           plan == quarantine_in_flight(Plan(a))
           f    == forget_liveness(a)
           m    == [f EXCEPT !.totals = plan.totals, !.epoch = next_epoch, !.generation = @ + 1]
           d    == end_era(a, request)
<1>1. CASE \E reason : d = undecided(a, reason)
  BY <1>1, UndecidedKeeps
<1>2. CASE /\ d = decided_applied(a, m, request, request.target)
           /\ ~(request.op = "Rotate" /\ next_epoch <= a.epoch)
  <2>1. /\ Keeps(a, f) /\ Shaped(f) /\ \A i : record_of(f, i).state # "Reconciled"
    BY ForgetLiveness DEF Keeps
  <2>2. /\ DOMAIN f = AccountFields
        /\ {"incarnations", "epoch", "generation", "fences"} \subseteq AccountFields
    BY <2>1 DEF Shaped, AccountFields
  <2>3. /\ DOMAIN m = AccountFields /\ m.incarnations = f.incarnations /\ m.epoch = next_epoch
        /\ m.generation = f.generation + 1 /\ m.fences = f.fences
    BY <2>2
  <2> HIDE DEF m, f
  <2>4. Shaped(m) /\ \A i : record_of(m, i) = record_of(f, i)
    BY <2>1, <2>3 DEF Shaped, record_of, known
  <2> DEFINE b == d.account
  <2>5. Keeps(m, b) /\ known(b, request.incarnation)
    BY <1>2, <2>4, AppliedKeeps
  <2> HIDE DEF b, d
  <2>6. ASSUME NEW i
        PROVE  RecordKept(record_of(a, i), record_of(b, i)) /\ record_of(b, i).state # "Reconciled"
    <3>1. RecordKept(record_of(a, i), record_of(f, i)) /\ RecordKept(record_of(f, i), record_of(b, i))
      BY <2>1, <2>4, <2>5 DEF Keeps
    <3>2. record_of(f, i).state # "Reconciled"
      BY <2>1
    <3> QED BY <3>1, <3>2 DEF RecordKept
  <2>7. Grown(a, b)
    BY <2>1, <2>3, <2>5 DEF Grown, Keeps
  <2>8. b.generation = a.generation + 1 /\ b.fences = a.fences /\ b.epoch = next_epoch
    BY <2>1, <2>3, <2>5 DEF Keeps
  <2>9. \/ request.op = "AdvanceEpoch" /\ b.epoch = a.epoch + 1
        \/ request.op = "Rotate" /\ b.epoch = request.count /\ ~(b.epoch <= a.epoch)
    BY <1>2, <2>8
  <2>10. EndsEra(a, b, request)
    BY <2>6, <2>7, <2>8, <2>9 DEF EndsEra
  <2> QED BY <2>5, <2>10 DEF b, d
<1>3. \/ \E reason : d = undecided(a, reason)
      \/ /\ d = decided_applied(a, m, request, request.target)
         /\ ~(request.op = "Rotate" /\ next_epoch <= a.epoch)
  BY DEF end_era
<1> QED BY <1>1, <1>2, <1>3

\* Revalidate settles or refuses without a trace.
LEMMA RevalidateKeeps ==
  ASSUME NEW a, Shaped(a), NEW request
  PROVE  LET d == revalidate(a, request) IN
         Keeps(a, d.account) /\ (d.decided => known(d.account, request.incarnation))
<1>1. CASE request.decision = "None"
  <2>1. revalidate(a, request) = undecided(a, "PolicyRefused")
    BY <1>1 DEF revalidate
  <2> QED BY <2>1, UndecidedKeeps
<1>2. CASE request.decision # "None"
  <2> DEFINE plan == IF request.decision = "ToReturned"
                       THEN revalidate_to_returned(Plan(a), request.count)
                       ELSE revalidate_to_consumed(Plan(a), request.count)
  <2>1. revalidate(a, request) = settle(a, a, request, plan)
    BY <1>2 DEF revalidate
  <2> HIDE DEF plan
  <2> QED BY <2>1, SettleKeeps
<1> QED BY <1>1, <1>2

\* A Fence that is applied fences its target, and nobody else.
LEMMA FenceEffect ==
  ASSUME NEW a, Shaped(a), NEW request, request.op = "Fence"
  PROVE  LET d == fence(a, request) IN
         /\ Keeps(a, d.account) \/ Fences(a, d.account, request)
         /\ d.applied => Fences(a, d.account, request)
         /\ d.decided => known(d.account, request.incarnation)
<1> DEFINE target == request.target
           old    == record_of(a, target)
           new    == [old EXCEPT !.state = "Fenced"]
           listed == with_record(a, target, old)
           fenced == with_record(a, target, new)
           m      == [fenced EXCEPT !.fences = Append(@, target)]
           d      == fence(a, request)
<1>1. \/ \E reason : d = undecided(a, reason)
      \/ \E reason : d = decided_refusal(a, request, reason)
      \/ \E reason : d = undecided(listed, reason)
      \/ ~is_fenced(a, target) /\ d = decided_applied(a, m, request, target)
  BY DEF fence
<1>2. DOMAIN old = RecordFields
  BY RecordShape
<1>0. /\ \A c, reason : undecided(c, reason).applied = FALSE
      /\ \A reason : decided_refusal(a, request, reason).applied = FALSE
  BY DEF undecided, decided_refusal
<1>3. CASE \E reason : d = undecided(a, reason)
  BY <1>0, <1>3, UndecidedKeeps, SMTT(30)
<1>4. CASE \E reason : d = decided_refusal(a, request, reason)
  BY <1>0, <1>4, RefusalKeeps
<1>5. CASE \E reason : d = undecided(listed, reason)
  <2>1. RecordKept(old, old)
    BY DEF RecordKept
  <2>2. Keeps(a, listed) /\ Shaped(listed)
    BY <1>2, <2>1, WithRecordKeeps DEF Keeps
  <2> HIDE DEF listed
  <2> QED BY <1>0, <1>5, <2>2, UndecidedKeeps, SMTT(30)
<1>6. CASE ~is_fenced(a, target) /\ d = decided_applied(a, m, request, target)
  <2>1. {"last_sequence", "state"} \subseteq RecordFields
    BY DEF RecordFields
  <2>2. DOMAIN new = RecordFields /\ new.last_sequence = old.last_sequence /\ new.state = "Fenced"
    BY <1>2, <2>1
  <2> HIDE DEF new
  <2>3. /\ Shaped(fenced) /\ DOMAIN a.incarnations \subseteq DOMAIN fenced.incarnations
        /\ \A i : record_of(fenced, i) = IF i = target THEN new ELSE record_of(a, i)
    BY <2>2, WithRecord, SMTT(30)
  <2>4. fenced.epoch = a.epoch /\ fenced.generation = a.generation /\ fenced.fences = a.fences
    <3>1. {"epoch", "generation", "fences"} \subseteq AccountFields \ {"incarnations"}
      BY DEF AccountFields
    <3>2. \A f \in AccountFields \ {"incarnations"} : fenced[f] = a[f]
      BY <2>2, WithRecord, SMTT(30)
    <3> QED BY <3>1, <3>2
  <2> HIDE DEF fenced
  <2>5. DOMAIN fenced = AccountFields /\ {"incarnations", "epoch", "generation", "fences"} \subseteq AccountFields
    BY <2>3 DEF Shaped, AccountFields
  <2>6. /\ DOMAIN m = AccountFields /\ m.incarnations = fenced.incarnations /\ m.epoch = fenced.epoch
        /\ m.generation = fenced.generation /\ m.fences = Append(fenced.fences, target)
    BY <2>5
  <2> HIDE DEF m
  <2>7. Shaped(m) /\ \A i : record_of(m, i) = record_of(fenced, i)
    BY <2>3, <2>6 DEF Shaped, record_of, known
  <2> DEFINE b == d.account
  <2>8. Keeps(m, b) /\ known(b, request.incarnation)
    BY <1>6, <2>7, AppliedKeeps
  <2> HIDE DEF b, d
  <2>9. \A i : i # target => RecordKept(record_of(a, i), record_of(b, i))
    BY <2>3, <2>7, <2>8 DEF Keeps
  <2>10. RecordKept(new, record_of(b, target))
    BY <2>3, <2>7, <2>8 DEF Keeps
  <2>11. record_of(b, target).last_sequence = old.last_sequence /\ record_of(b, target).state = "Fenced"
    BY <2>2, <2>10 DEF RecordKept
  <2>12. Grown(a, b)
    BY <2>3, <2>6, <2>8 DEF Keeps, Grown
  <2>13. b.epoch = a.epoch /\ b.generation = a.generation /\ b.fences = Append(a.fences, target)
    BY <2>4, <2>6, <2>8 DEF Keeps
  <2>14. Fences(a, b, request)
    BY <1>6, <2>9, <2>11, <2>12, <2>13 DEF Fences
  <2> QED BY <2>8, <2>14 DEF b, d
<1> QED BY <1>1, <1>3, <1>4, <1>5, <1>6

\* RetireIncarnation changes the state of a record that is not Fenced.
LEMMA RetireKeeps ==
  ASSUME NEW a, Shaped(a), NEW request
  PROVE  LET d == retire_incarnation(a, request) IN
         Keeps(a, d.account) /\ (d.decided => known(d.account, request.incarnation))
<1> DEFINE target == request.target
           old == a.incarnations[target]
           new == [old EXCEPT !.state = "Retired"]
           m   == with_record(a, target, new)
           d   == retire_incarnation(a, request)
<1>1. \/ \E reason : d = undecided(a, reason)
      \/ d = decided_refusal(a, request, "FencedIncarnation")
      \/ known(a, target) /\ old.state # "Fenced" /\ d = decided_applied(a, m, request, target)
  BY DEF retire_incarnation
<1>2. CASE \E reason : d = undecided(a, reason)
  BY <1>2, UndecidedKeeps
<1>3. CASE d = decided_refusal(a, request, "FencedIncarnation")
  BY <1>3, RefusalKeeps
<1>4. CASE known(a, target) /\ old.state # "Fenced" /\ d = decided_applied(a, m, request, target)
  <2>1. old = record_of(a, target)
    BY <1>4 DEF record_of
  <2>2. DOMAIN old = RecordFields /\ {"last_sequence", "state"} \subseteq RecordFields
    BY <2>1, RecordShape DEF RecordFields
  <2>3. DOMAIN new = RecordFields /\ new.last_sequence = old.last_sequence /\ new.state = "Retired"
    BY <2>2
  <2> HIDE DEF new
  <2>4. RecordKept(old, new)
    BY <1>4, <2>3 DEF RecordKept
  <2>5. Keeps(a, m) /\ Shaped(m)
    BY <2>1, <2>3, <2>4, WithRecordKeeps DEF Keeps
  <2> HIDE DEF m
  <2>6. Keeps(m, d.account) /\ known(d.account, request.incarnation)
    BY <1>4, <2>5, AppliedKeeps
  <2> HIDE DEF d
  <2>7. Keeps(a, d.account)
    BY <2>5, <2>6, KeepsTransitive
  <2> QED BY <2>6, <2>7 DEF d
<1> QED BY <1>1, <1>2, <1>3, <1>4

\* Every control operation.
LEMMA ControlEffect ==
  ASSUME NEW a, Shaped(a), NEW request, request.op \in ControlOps, NEW nonce
  PROVE  LET d == decide_control(a, request) IN
         /\ Effect(a, d.account, request, nonce)
         /\ request.op = "Fence" /\ d.applied => Fences(a, d.account, request)
         /\ d.decided => known(d.account, request.incarnation)
<1> DEFINE d == decide_control(a, request)
<1>1. CASE request.expected = "stale"
  <2>1. d = undecided(a, "StaleEvidence")
    BY <1>1 DEF decide_control
  <2>2. undecided(a, "StaleEvidence").applied = FALSE
    BY DEF undecided
  <2> QED BY <2>1, <2>2, UndecidedKeeps DEF Effect
<1>2. CASE request.expected # "stale"
  <2>1. CASE request.op \in {"Exhaust", "ClearExhaustion"}
    <3>1. d = exhaust(a, request) \/ d = clear_exhaustion(a, request)
      BY <1>2, <2>1 DEF decide_control
    <3> QED BY <2>1, <3>1, LatchKeeps DEF Effect
  <2>2. CASE request.op \in {"SetCapacity", "Retire"}
    <3>1. \E plan : d = settle(a, a, request, plan)
      BY <1>2, <2>2 DEF decide_control
    <3> QED BY <2>2, <3>1, SettleKeeps DEF Effect
  <2>3. CASE request.op \in {"AdvanceEpoch", "Rotate"}
    <3>1. d = end_era(a, request)
      BY <1>2, <2>3 DEF decide_control
    <3> QED BY <2>3, <3>1, EraEffect, SMTT(30) DEF Effect
  <2>4. CASE request.op = "Revalidate"
    <3>1. d = revalidate(a, request)
      BY <1>2, <2>4 DEF decide_control
    <3> QED BY <2>4, <3>1, RevalidateKeeps DEF Effect
  <2>5. CASE request.op = "Fence"
    <3>1. d = fence(a, request)
      BY <1>2, <2>5 DEF decide_control
    <3> QED BY <2>5, <3>1, FenceEffect DEF Effect
  <2>6. CASE request.op = "RetireIncarnation"
    <3>1. d = retire_incarnation(a, request)
      BY <1>2, <2>6 DEF decide_control
    <3> QED BY <2>6, <3>1, RetireKeeps DEF Effect
  <2> QED BY <2>1, <2>2, <2>3, <2>4, <2>5, <2>6 DEF ControlOps
<1> QED BY <1>1, <1>2

\* Every operation on an account.
LEMMA DecideEffect ==
  ASSUME NEW a, Shaped(a), NEW request, request.op \in DataOps \cup ControlOps,
         admission(a, request) = "Ok", NEW nonce
  PROVE  LET d == decide(a, request, nonce) IN
         /\ Effect(a, d.account, request, nonce)
         /\ request.op = "Fence" /\ d.applied => Fences(a, d.account, request)
         /\ d.decided => known(d.account, request.incarnation)
<1>1. CASE request.op \in ControlOps
  <2>1. decide(a, request, nonce) = decide_control(a, request)
    BY <1>1 DEF decide
  <2> QED BY <1>1, <2>1, ControlEffect
<1>2. CASE request.op \notin ControlOps
  <2>1. decide(a, request, nonce) = decide_data(a, request, nonce)
    BY <1>2 DEF decide
  <2>2. request.op \in DataOps /\ request.op # "Fence"
    BY <1>2 DEF ControlOps
  <2> QED BY <2>1, <2>2, DataEffect DEF Effect
<1> QED BY <1>1, <1>2

-----------------------------------------------------------------------------
(***************************************************************************)
(* The inductive invariant, as a predicate on an account a, a history h    *)
(* and the boot: of the account, that its fence list and its states agree  *)
(* and that who is live has proved it to this boot in this era; of the     *)
(* history, that its slots are exactly those up to the watermarks, each    *)
(* taken once, that control was the operator's, and that whoever was       *)
(* fenced is Fenced and has had nothing decided since.                     *)
(***************************************************************************)
Isolated(a) == \A i : is_fenced(a, i) <=> record_of(a, i).state = "Fenced"

Proved(a, up, nonce) ==
  \A i : record_of(a, i).state = "Reconciled" =>
           up /\ record_of(a, i).reconciliation_proof = challenge(nonce, i, a.epoch, a.generation)

AccountGood(a, up, nonce) ==
  /\ Shaped(a)
  /\ a.epoch \in Nat /\ a.generation \in Nat
  /\ IsSeq(a.fences)
  /\ \A i : record_of(a, i).last_sequence \in Nat
  /\ Isolated(a)
  /\ Proved(a, up, nonce)

SlotsOf(h, who) == {h[k].request.sequence : k \in {j \in DOMAIN h : h[j].request.incarnation = who}}

IsFence(entry) == entry.request.op = "Fence" /\ entry.applied

HistoryGood(a, h) ==
  /\ \A i \in DOMAIN h : IsRequest(h[i].request)
  /\ \A who \in Incarnations : SlotsOf(h, who) = 1..record_of(a, who).last_sequence
  /\ \A i, j \in DOMAIN h : Slot(h[i]) = Slot(h[j]) => i = j
  /\ \A i \in DOMAIN h : h[i].request.op \in ControlOps => h[i].request.incarnation = Operator
  /\ \A i \in DOMAIN h : IsFence(h[i]) => record_of(a, h[i].request.target).state = "Fenced"
  /\ \A i, j \in DOMAIN h :
       i < j /\ IsFence(h[i]) => h[j].request.incarnation # h[i].request.target

Good(a, h, up, nonce) ==
  /\ IsSeq(h)
  /\ IF a = NoAccount THEN h = <<>> ELSE AccountGood(a, up, nonce) /\ HistoryGood(a, h)

\* What a step may do to an account: AuthorityStep, in terms of two accounts.
Advances(a, b) ==
  /\ Grown(a, b)
  /\ \/ b.generation = a.generation /\ b.epoch = a.epoch
     \/ b.generation = a.generation + 1 /\ b.epoch > a.epoch
  /\ \A i : /\ record_of(a, i).state = "Fenced" => record_of(b, i).state = "Fenced"
            /\ record_of(a, i).state = "Retired" => record_of(b, i).state \in {"Retired", "Fenced"}
            /\ record_of(b, i).last_sequence >= record_of(a, i).last_sequence

-----------------------------------------------------------------------------
(* A kept account.                                                         *)

\* Keeping an account keeps what is good about it, and its history fits it.
LEMMA KeepsGood ==
  ASSUME NEW a, NEW b, NEW h, NEW up, NEW nonce, AccountGood(a, up, nonce), Keeps(a, b)
  PROVE  /\ AccountGood(b, up, nonce)
         /\ HistoryGood(a, h) => HistoryGood(b, h)
         /\ Advances(a, b)
<1>1. \A i : RecordKept(record_of(a, i), record_of(b, i))
  BY DEF Keeps
<1>2. b.epoch = a.epoch /\ b.generation = a.generation /\ b.fences = a.fences /\ Shaped(b) /\ Grown(a, b)
  BY DEF Keeps, Grown
<1>3. \A i : record_of(b, i).last_sequence = record_of(a, i).last_sequence
  BY <1>1 DEF RecordKept
<1>4. \A i : record_of(b, i).state = "Fenced" <=> record_of(a, i).state = "Fenced"
  BY <1>1 DEF RecordKept
<1>5. Isolated(b)
  BY <1>2, <1>4 DEF AccountGood, Isolated, is_fenced
<1>6. Proved(b, up, nonce)
  BY <1>1, <1>2 DEF AccountGood, Proved, RecordKept
<1>7. AccountGood(b, up, nonce)
  BY <1>2, <1>3, <1>5, <1>6 DEF AccountGood
<1>8. HistoryGood(a, h) => HistoryGood(b, h)
  BY <1>3, <1>4 DEF HistoryGood
<1>9. Advances(a, b)
  <2>1. \A i : record_of(b, i).last_sequence >= record_of(a, i).last_sequence
    BY <1>3, SMTT(30) DEF AccountGood
  <2>2. \A i : record_of(a, i).state = "Retired" => record_of(b, i).state \in {"Retired", "Fenced"}
    BY <1>1 DEF RecordKept
  <2> QED BY <1>2, <1>4, <2>1, <2>2 DEF Advances
<1> QED BY <1>7, <1>8, <1>9

\* A step followed by one that keeps the account is a step.
LEMMA AdvancesKeeps ==
  ASSUME NEW a, NEW b, NEW c, Advances(a, b), Keeps(b, c)
  PROVE  Advances(a, c)
<1>1. \A i : RecordKept(record_of(b, i), record_of(c, i))
  BY DEF Keeps
<1>2. c.epoch = b.epoch /\ c.generation = b.generation /\ Grown(a, c)
  BY DEF Keeps, Grown, Advances
<1>3. \A i : /\ record_of(a, i).state = "Fenced" => record_of(c, i).state = "Fenced"
             /\ record_of(a, i).state = "Retired" => record_of(c, i).state \in {"Retired", "Fenced"}
             /\ record_of(c, i).last_sequence >= record_of(a, i).last_sequence
  BY <1>1 DEF Advances, RecordKept
<1> QED BY <1>2, <1>3 DEF Advances

-----------------------------------------------------------------------------
(* A decision.                                                             *)

\* A history fits every later account with the same watermarks and no fence undone.
LEMMA HistoryCarries ==
  ASSUME NEW a, NEW b, NEW h, HistoryGood(a, h),
         \A i : record_of(b, i).last_sequence = record_of(a, i).last_sequence,
         \A i : record_of(a, i).state = "Fenced" => record_of(b, i).state = "Fenced"
  PROVE  HistoryGood(b, h)
BY DEF HistoryGood

\* Appending a target to the fences fences it and no other.
LEMMA FencesAppend ==
  ASSUME NEW a, NEW b, NEW target, IsSeq(a.fences), b.fences = Append(a.fences, target)
  PROVE  /\ IsSeq(b.fences)
         /\ \A i : is_fenced(b, i) <=> is_fenced(a, i) \/ i = target
<1> DEFINE f == a.fences
           g == b.fences
<1>1. Extends(g, f, target)
  BY AppendExtends
<1>2. \A i : is_fenced(b, i) <=> is_fenced(a, i) \/ i = target
  BY <1>1, SMTT(30) DEF is_fenced, Extends
<1> QED BY <1>1, <1>2 DEF Extends

\* What a reconciliation leaves.
LEMMA ReconcilesGood ==
  ASSUME NEW a, NEW b, NEW request, NEW nonce, AccountGood(a, TRUE, nonce),
         admission(a, request) = "Ok", Reconciles(a, b, request, nonce)
  PROVE  AccountGood(b, TRUE, nonce) /\ Advances(a, b)
         /\ \A i : record_of(b, i).last_sequence = record_of(a, i).last_sequence
<1> DEFINE who == request.incarnation
<1>1. /\ request.epoch = a.epoch /\ request.generation = a.generation /\ ~is_fenced(a, who)
      /\ record_of(a, who).state # "Retired"
  BY Admitted DEF Reconciles
<1>2. /\ Shaped(b) /\ Grown(a, b)
      /\ b.epoch = a.epoch /\ b.generation = a.generation /\ b.fences = a.fences
  BY DEF Reconciles, Grown
<1>3. \A i : i # who => RecordKept(record_of(a, i), record_of(b, i))
  BY DEF Reconciles
<1>4. \A i : record_of(b, i).last_sequence = record_of(a, i).last_sequence
  BY <1>3 DEF Reconciles, RecordKept
<1>5. Isolated(b)
  <2>1. \A i : is_fenced(b, i) <=> is_fenced(a, i)
    BY <1>2 DEF is_fenced
  <2>2. is_fenced(b, who) <=> record_of(b, who).state = "Fenced"
    BY <1>1, <2>1 DEF Reconciles
  <2>3. \A i : i # who => (is_fenced(b, i) <=> record_of(b, i).state = "Fenced")
    BY <1>3, <2>1 DEF AccountGood, Isolated, RecordKept
  <2> QED BY <2>2, <2>3 DEF Isolated
<1>6. Proved(b, TRUE, nonce)
  <2>1. request.proof = challenge(nonce, who, b.epoch, b.generation)
    BY <1>1, <1>2 DEF Reconciles, verify
  <2>2. record_of(b, who).state = "Reconciled" =>
          record_of(b, who).reconciliation_proof = challenge(nonce, who, b.epoch, b.generation)
    BY <2>1 DEF Reconciles
  <2>3. \A i : i # who /\ record_of(b, i).state = "Reconciled" =>
          record_of(b, i).reconciliation_proof = challenge(nonce, i, b.epoch, b.generation)
    BY <1>2, <1>3 DEF AccountGood, Proved, RecordKept
  <2> QED BY <2>2, <2>3 DEF Proved
<1>7. AccountGood(b, TRUE, nonce)
  BY <1>2, <1>4, <1>5, <1>6 DEF AccountGood
<1>8. \A i : /\ record_of(a, i).state = "Fenced" => record_of(b, i).state = "Fenced"
             /\ record_of(a, i).state = "Retired" => record_of(b, i).state \in {"Retired", "Fenced"}
  <2>1. record_of(a, who).state # "Fenced"
    BY <1>1 DEF AccountGood, Isolated
  <2> QED BY <1>1, <1>3, <2>1 DEF RecordKept
<1>9. \A i : record_of(b, i).last_sequence >= record_of(a, i).last_sequence
  BY <1>4, SMTT(30) DEF AccountGood
<1> QED BY <1>2, <1>4, <1>7, <1>8, <1>9 DEF Advances

\* What a fence leaves.
LEMMA FencesGood ==
  ASSUME NEW a, NEW b, NEW request, NEW nonce, AccountGood(a, TRUE, nonce), Fences(a, b, request)
  PROVE  AccountGood(b, TRUE, nonce) /\ Advances(a, b)
         /\ \A i : record_of(b, i).last_sequence = record_of(a, i).last_sequence
<1> DEFINE target == request.target
<1>1. /\ Shaped(b) /\ Grown(a, b) /\ b.epoch = a.epoch /\ b.generation = a.generation
      /\ b.fences = Append(a.fences, target)
  BY DEF Fences, Grown
<1>2. \A i : i # target => RecordKept(record_of(a, i), record_of(b, i))
  BY DEF Fences
<1>3. record_of(b, target).state = "Fenced"
  BY DEF Fences
<1>4. \A i : record_of(b, i).last_sequence = record_of(a, i).last_sequence
  BY <1>2 DEF Fences, RecordKept
<1>5. /\ IsSeq(b.fences)
      /\ \A i : is_fenced(b, i) <=> is_fenced(a, i) \/ i = target
  <2>1. IsSeq(a.fences)
    BY DEF AccountGood
  <2> QED BY <1>1, <2>1, FencesAppend
<1>6. Isolated(b)
  BY <1>2, <1>3, <1>5 DEF AccountGood, Isolated, RecordKept
<1>7. Proved(b, TRUE, nonce)
  <2>1. record_of(b, target).state # "Reconciled"
    BY <1>3
  <2> QED BY <1>1, <1>2, <2>1 DEF AccountGood, Proved, RecordKept
<1>8. AccountGood(b, TRUE, nonce)
  BY <1>1, <1>4, <1>5, <1>6, <1>7 DEF AccountGood
<1>9. \A i : /\ record_of(a, i).state = "Fenced" => record_of(b, i).state = "Fenced"
             /\ record_of(a, i).state = "Retired" => record_of(b, i).state \in {"Retired", "Fenced"}
  BY <1>2, <1>3 DEF RecordKept
<1>10. \A i : record_of(b, i).last_sequence >= record_of(a, i).last_sequence
  BY <1>4, SMTT(30) DEF AccountGood
<1> QED BY <1>1, <1>4, <1>8, <1>9, <1>10 DEF Advances

\* What the end of an era leaves.
LEMMA EndsEraGood ==
  ASSUME NEW a, NEW b, NEW request, IsRequest(request), NEW nonce, AccountGood(a, TRUE, nonce),
         EndsEra(a, b, request)
  PROVE  AccountGood(b, TRUE, nonce) /\ Advances(a, b)
         /\ \A i : record_of(b, i).last_sequence = record_of(a, i).last_sequence
<1>1. Shaped(b) /\ Grown(a, b) /\ b.generation = a.generation + 1 /\ b.fences = a.fences
  BY DEF EndsEra, Grown
<1>2. \A i : RecordKept(record_of(a, i), record_of(b, i))
  BY DEF EndsEra
<1>3. b.epoch \in Nat /\ b.generation \in Nat /\ b.epoch > a.epoch
  <2>1. a.epoch \in Nat /\ a.generation \in Nat /\ request.count \in Nat
    BY SMTT(30) DEF AccountGood, IsRequest, U64
  <2> QED BY <1>1, <2>1, SMTT(30) DEF EndsEra
<1>4. \A i : record_of(b, i).last_sequence = record_of(a, i).last_sequence
  BY <1>2 DEF RecordKept
<1>5. Isolated(b)
  BY <1>1, <1>2 DEF AccountGood, Isolated, is_fenced, RecordKept
<1>6. Proved(b, TRUE, nonce)
  BY DEF EndsEra, Proved
<1>7. AccountGood(b, TRUE, nonce)
  BY <1>1, <1>3, <1>4, <1>5, <1>6 DEF AccountGood
<1>8. \A i : /\ record_of(a, i).state = "Fenced" => record_of(b, i).state = "Fenced"
             /\ record_of(a, i).state = "Retired" => record_of(b, i).state \in {"Retired", "Fenced"}
  BY <1>2 DEF RecordKept
<1>9. \A i : record_of(b, i).last_sequence >= record_of(a, i).last_sequence
  BY <1>4, SMTT(30) DEF AccountGood
<1> QED BY <1>1, <1>3, <1>4, <1>7, <1>8, <1>9 DEF Advances

\* Whatever an admitted request does to the account in memory.
LEMMA EffectGood ==
  ASSUME NEW a, NEW b, NEW h, NEW request, IsRequest(request), NEW nonce,
         AccountGood(a, TRUE, nonce), HistoryGood(a, h),
         admission(a, request) = "Ok", Effect(a, b, request, nonce)
  PROVE  /\ AccountGood(b, TRUE, nonce) /\ HistoryGood(b, h) /\ Advances(a, b)
         /\ \A i : record_of(b, i).last_sequence = record_of(a, i).last_sequence
<1>1. CASE Keeps(a, b)
  BY <1>1, KeepsGood DEF Keeps, RecordKept
<1>2. CASE ~Keeps(a, b)
  <2>1. AccountGood(b, TRUE, nonce) /\ Advances(a, b)
        /\ \A i : record_of(b, i).last_sequence = record_of(a, i).last_sequence
    <3>1. CASE Reconciles(a, b, request, nonce)
      BY <3>1, ReconcilesGood
    <3>2. CASE Fences(a, b, request)
      BY <3>2, FencesGood
    <3>3. CASE EndsEra(a, b, request)
      BY <3>3, EndsEraGood
    <3> QED BY <1>2, <3>1, <3>2, <3>3 DEF Effect
  <2>2. HistoryGood(b, h)
    BY <2>1, HistoryCarries DEF Advances
  <2> QED BY <2>1, <2>2
<1> QED BY <1>1, <1>2

\* A caller whose request is decided is not fenced.
LEMMA CallerNotFenced ==
  ASSUME NEW a, NEW up, NEW nonce, AccountGood(a, up, nonce), NEW request, admission(a, request) = "Ok"
  PROVE  record_of(a, request.incarnation).state # "Fenced"
<1>1. CASE request.op = "Reconcile"
  <2>1. ~is_fenced(a, request.incarnation)
    BY <1>1, Admitted
  <2> QED BY <2>1 DEF AccountGood, Isolated
<1>2. CASE request.op # "Reconcile"
  BY <1>2, Admitted DEF record_of
<1> QED BY <1>1, <1>2

\* The slots once the next one of a caller has been taken.
LEMMA SlotsAppend ==
  ASSUME NEW g, NEW h, NEW e, Extends(g, h, e), NEW who
  PROVE  SlotsOf(g, who) =
           IF e.request.incarnation = who THEN SlotsOf(h, who) \cup {e.request.sequence}
                                          ELSE SlotsOf(h, who)
<1>1. \A x : x \in SlotsOf(g, who) <=>
             \/ x \in SlotsOf(h, who)
             \/ e.request.incarnation = who /\ x = e.request.sequence
  <2> TAKE x
  <2>1. x \in SlotsOf(g, who) <=> \E k \in DOMAIN g : g[k].request.incarnation = who /\ x = g[k].request.sequence
    BY DEF SlotsOf
  <2>2. x \in SlotsOf(h, who) <=> \E k \in DOMAIN h : h[k].request.incarnation = who /\ x = h[k].request.sequence
    BY DEF SlotsOf
  <2> QED BY <2>1, <2>2, SMTT(30) DEF Extends
<1> QED BY <1>1

\* e is decided after h, in the next slot of a caller who is not fenced; a is the account before, b after.
Follows(a, b, h, e) ==
  LET who == e.request.incarnation IN
  /\ IsRequest(e.request)
  /\ \A i : record_of(a, i).last_sequence \in Nat
  /\ e.request.sequence = record_of(a, who).last_sequence + 1
  /\ record_of(b, who).last_sequence = e.request.sequence
  /\ \A i : i # who => record_of(b, i).last_sequence = record_of(a, i).last_sequence
  /\ \A i : record_of(a, i).state = "Fenced" => record_of(b, i).state = "Fenced"
  /\ e.request.op \in ControlOps => who = Operator
  /\ IsFence(e) => record_of(b, e.request.target).state = "Fenced"
  /\ \A i \in DOMAIN h : IsFence(h[i]) => who # h[i].request.target

\* A history that grows by such a request.
LEMMA HistoryGrows ==
  ASSUME NEW a, NEW b, NEW h, IsSeq(h), HistoryGood(a, h), NEW e, Follows(a, b, h, e)
  PROVE  HistoryGood(b, Append(h, e))
<1> DEFINE g == Append(h, e)
           who == e.request.incarnation
           n == Len(h) + 1
<1>1. Extends(g, h, e)
  BY AppendExtends
<1> HIDE DEF g
<1>2. /\ Len(h) \in Nat /\ DOMAIN h = 1..Len(h) /\ DOMAIN g = 1..n
      /\ \A k \in 1..Len(h) : g[k] = h[k]
      /\ g[n] = e
  BY <1>1 DEF Extends
<1>3. who \in Incarnations /\ \A i : record_of(a, i).last_sequence \in Nat
  BY DEF Follows, IsRequest
<1>4. ASSUME NEW w \in Incarnations PROVE SlotsOf(g, w) = 1..record_of(b, w).last_sequence
  <2>1. SlotsOf(h, w) = 1..record_of(a, w).last_sequence
    BY DEF HistoryGood
  <2>2. CASE w = who
    <3>1. SlotsOf(g, w) = SlotsOf(h, w) \cup {e.request.sequence}
      BY <1>1, <2>2, SlotsAppend, SMTT(30)
    <3>2. e.request.sequence = record_of(a, w).last_sequence + 1
          /\ record_of(b, w).last_sequence = record_of(a, w).last_sequence + 1
      BY <2>2 DEF Follows
    <3>3. \A m \in Nat : (1..m) \cup {m + 1} = 1..(m + 1)
      BY SMTT(30)
    <3> QED BY <1>3, <2>1, <3>1, <3>2, <3>3
  <2>3. CASE w # who
    <3>1. SlotsOf(g, w) = SlotsOf(h, w)
      BY <1>1, <2>3, SlotsAppend, SMTT(30)
    <3>2. record_of(b, w).last_sequence = record_of(a, w).last_sequence
      BY <2>3 DEF Follows
    <3> QED BY <2>1, <3>1, <3>2
  <2> QED BY <2>2, <2>3
<1>5. ASSUME NEW i \in 1..Len(h) PROVE Slot(h[i]) # Slot(e)
  <2> SUFFICES ASSUME Slot(h[i]) = Slot(e) PROVE FALSE
    OBVIOUS
  <2>1. h[i].request.incarnation = who /\ h[i].request.sequence = e.request.sequence
    BY DEF Slot
  <2>2. e.request.sequence \in SlotsOf(h, who)
    BY <1>2, <1>5, <2>1 DEF SlotsOf
  <2>3. SlotsOf(h, who) = 1..record_of(a, who).last_sequence
    BY <1>3 DEF HistoryGood
  <2>4. e.request.sequence = record_of(a, who).last_sequence + 1
    BY DEF Follows
  <2> QED BY <1>3, <2>2, <2>3, <2>4, SMTT(30)
<1>6. \A i, j \in 1..Len(h) : Slot(h[i]) = Slot(h[j]) => i = j
  BY <1>2 DEF HistoryGood
<1>7. ASSUME NEW i \in 1..n, NEW j \in 1..n, Slot(g[i]) = Slot(g[j]) PROVE i = j
  BY <1>2, <1>5, <1>6, <1>7, SMTT(30)
<1>8. \A i \in DOMAIN g : g[i].request.op \in ControlOps => g[i].request.incarnation = Operator
  <2>1. e.request.op \in ControlOps => who = Operator
    BY DEF Follows
  <2>2. \A i \in DOMAIN h : h[i].request.op \in ControlOps => h[i].request.incarnation = Operator
    BY DEF HistoryGood
  <2> QED BY <1>2, <2>1, <2>2, SMTT(30)
<1>9. \A i \in DOMAIN g : IsFence(g[i]) => record_of(b, g[i].request.target).state = "Fenced"
  <2>1. IsFence(e) => record_of(b, e.request.target).state = "Fenced"
    BY DEF Follows
  <2>2. \A i \in DOMAIN h : IsFence(h[i]) => record_of(b, h[i].request.target).state = "Fenced"
    BY DEF HistoryGood, Follows
  <2> QED BY <1>2, <2>1, <2>2, SMTT(30)
<1>10. \A i, j \in DOMAIN g : i < j /\ IsFence(g[i]) => g[j].request.incarnation # g[i].request.target
  <2>1. \A i, j \in DOMAIN h : i < j /\ IsFence(h[i]) => h[j].request.incarnation # h[i].request.target
    BY DEF HistoryGood
  <2>2. \A i \in DOMAIN h : IsFence(h[i]) => who # h[i].request.target
    BY DEF Follows
  <2> QED BY <1>2, <2>1, <2>2, SMTT(30)
<1>11. \A i \in DOMAIN g : IsRequest(g[i].request)
  <2>1. IsRequest(e.request)
    BY DEF Follows
  <2>2. \A i \in DOMAIN h : IsRequest(h[i].request)
    BY DEF HistoryGood
  <2> QED BY <1>2, <2>1, <2>2, SMTT(30)
<1>12. \A i, j \in DOMAIN g : Slot(g[i]) = Slot(g[j]) => i = j
  BY <1>2, <1>7
<1>13. HistoryGood(b, g)
  BY <1>4, <1>8, <1>9, <1>10, <1>11, <1>12 DEF HistoryGood
<1> QED BY <1>13 DEF g

\* publish_window_locked on a good account.
LEMMA PublishGood ==
  ASSUME NEW a, NEW up, NEW nonce, AccountGood(a, up, nonce), NEW request, IsRequest(request),
         known(a, request.incarnation), NEW reason, NEW applied
  PROVE  AccountGood(publish_window(a, request, reason, applied), up, nonce)
<1> DEFINE b == publish_window(a, request, reason, applied)
           who == request.incarnation
<1>1. Shaped(a)
  BY DEF AccountGood
<1>2. /\ Shaped(b) /\ b.epoch = a.epoch /\ b.generation = a.generation /\ b.fences = a.fences
      /\ \A i : i # who => record_of(b, i) = record_of(a, i)
      /\ record_of(b, who).last_sequence = request.sequence
      /\ record_of(b, who).state = record_of(a, who).state
      /\ record_of(b, who).reconciliation_proof = record_of(a, who).reconciliation_proof
  <2>1. Published(a, b, request)
    BY <1>1, Publish
  <2> QED BY <2>1 DEF Published, Grown
<1> HIDE DEF b
<1>3. \A i : /\ record_of(b, i).state = record_of(a, i).state
             /\ record_of(b, i).reconciliation_proof = record_of(a, i).reconciliation_proof
  BY <1>2
<1>4. \A i : record_of(b, i).last_sequence \in Nat
  BY <1>2 DEF IsRequest, AccountGood
<1>5. Isolated(b)
  <2>1. \A i : is_fenced(b, i) <=> is_fenced(a, i)
    BY <1>2 DEF is_fenced
  <2>2. Isolated(a)
    BY DEF AccountGood
  <2> QED BY <1>3, <2>1, <2>2 DEF Isolated
<1>6. Proved(b, up, nonce)
  <2>1. Proved(a, up, nonce)
    BY DEF AccountGood
  <2> QED BY <1>2, <1>3, <2>1 DEF Proved
<1>7. AccountGood(b, up, nonce)
  BY <1>2, <1>4, <1>5, <1>6 DEF AccountGood
<1> QED BY <1>7 DEF b

\* A request that is admitted and decided: the account, and the history with it.
LEMMA OutcomeGood ==
  ASSUME NEW a, NEW h, IsSeq(h), NEW nonce, AccountGood(a, TRUE, nonce), HistoryGood(a, h),
         NEW request, IsRequest(request), request.op \in DataOps \cup ControlOps,
         admission(a, request) = "Ok"
  PROVE  LET d == decide(a, request, nonce)
             b == publish_window(d.account, request, d.reason, d.applied)
             e == Decided(request, d.reason, d.applied)
         IN  /\ AccountGood(d.account, TRUE, nonce) /\ HistoryGood(d.account, h) /\ Advances(a, d.account)
             /\ d.decided => /\ AccountGood(b, TRUE, nonce)
                             /\ HistoryGood(b, Append(h, e))
                             /\ Advances(a, b)
<1> DEFINE d == decide(a, request, nonce)
           m == d.account
           b == publish_window(m, request, d.reason, d.applied)
           e == Decided(request, d.reason, d.applied)
           who == request.incarnation
<1>1. Shaped(a)
  BY DEF AccountGood
<1>2. /\ Effect(a, m, request, nonce)
      /\ request.op = "Fence" /\ d.applied => Fences(a, m, request)
      /\ d.decided => known(m, who)
  BY <1>1, DecideEffect
<1> HIDE DEF d
<1>3. /\ AccountGood(m, TRUE, nonce) /\ HistoryGood(m, h) /\ Advances(a, m)
      /\ \A i : record_of(m, i).last_sequence = record_of(a, i).last_sequence
  BY <1>2, EffectGood
<1>4. ASSUME d.decided
      PROVE  AccountGood(b, TRUE, nonce) /\ HistoryGood(b, Append(h, e)) /\ Advances(a, b)
  <2>1. AccountGood(b, TRUE, nonce)
    BY <1>2, <1>3, <1>4, PublishGood
  <2>2. Shaped(m)
    BY <1>3 DEF AccountGood
  <2>3. /\ Grown(m, b) /\ b.epoch = m.epoch /\ b.generation = m.generation
        /\ \A i : i # who => record_of(b, i) = record_of(m, i)
        /\ record_of(b, who).last_sequence = request.sequence
        /\ record_of(b, who).state = record_of(m, who).state
    <3>1. Published(m, b, request)
      BY <1>2, <1>4, <2>2, Publish
    <3> QED BY <3>1 DEF Published
  <2> HIDE DEF b
  <2>4. \A i : record_of(b, i).state = record_of(m, i).state
    BY <2>3
  <2>5. e.request = request /\ e.applied = d.applied
    BY DEF Decided
  <2> HIDE DEF e
  <2>6. \A i : record_of(m, i).last_sequence \in Nat /\ record_of(a, i).last_sequence \in Nat
    BY <1>3 DEF AccountGood
  <2>7. request.sequence = record_of(m, who).last_sequence + 1
    <3>1. /\ ~(request.sequence <= record_of(a, who).last_sequence)
          /\ ~(request.sequence > record_of(a, who).last_sequence + 1)
      BY Admitted
    <3>2. request.sequence \in Nat
      BY DEF IsRequest
    <3> QED BY <1>3, <2>6, <3>1, <3>2, SMTT(30)
  <2>8. request.op \in ControlOps => who = Operator
    BY Admitted DEF lacks_control
  <2>9. IsFence(e) => record_of(b, request.target).state = "Fenced"
    BY <1>2, <2>4, <2>5 DEF IsFence, Fences
  <2>10. \A i \in DOMAIN h : IsFence(h[i]) => who # h[i].request.target
    <3>1. record_of(a, who).state # "Fenced"
      BY CallerNotFenced
    <3>2. \A i \in DOMAIN h : IsFence(h[i]) => record_of(a, h[i].request.target).state = "Fenced"
      BY DEF HistoryGood
    <3> QED BY <3>1, <3>2
  <2>11. HistoryGood(b, Append(h, e))
    <3>1. Follows(m, b, h, e)
      BY <2>3, <2>4, <2>5, <2>6, <2>7, <2>8, <2>9, <2>10 DEF Follows
    <3> QED BY <1>3, <3>1, HistoryGrows
  <2>12. Advances(a, b)
    <3>1. Grown(a, b)
      BY <1>3, <2>3 DEF Grown, Advances
    <3>2. \A i : record_of(b, i).last_sequence >= record_of(a, i).last_sequence
      BY <1>3, <2>3, <2>6, <2>7, SMTT(30)
    <3> QED BY <1>3, <2>3, <2>4, <3>1, <3>2 DEF Advances
  <2> QED BY <2>1, <2>11, <2>12
<1> QED BY <1>3, <1>4 DEF d

\* The account as it is opened, and its history of one request.
LEMMA OpenGood ==
  ASSUME NEW request, IsRequest(request), request.op = "Open", NEW nonce,
         open_verdict(request, nonce) = "Ok"
  PROVE  LET b == publish_window(new_account(request), request, "Ok", TRUE)
             e == Decided(request, "Ok", TRUE)
         IN  AccountGood(b, TRUE, nonce) /\ HistoryGood(b, Append(<<>>, e))
<1> DEFINE a == new_account(request)
           b == publish_window(a, request, "Ok", TRUE)
           e == Decided(request, "Ok", TRUE)
           who == request.incarnation
           rec == [FreshRecord EXCEPT !.state = "Reconciled",
                     !.reconciled_epoch = request.epoch, !.reconciled_generation = request.generation,
                     !.reconciliation_proof = request.proof, !.committed_ops = 1]
<1>1. request.epoch = 1 /\ request.generation = 1 /\ request.sequence = 1 /\ verify(nonce, request)
  BY DEF open_verdict
<1>2. /\ DOMAIN rec = RecordFields /\ rec.state = "Reconciled" /\ rec.reconciliation_proof = request.proof
      /\ rec.last_sequence = 0
  BY DEF FreshRecord, RecordFields
<1> HIDE DEF rec
<1>3. /\ DOMAIN a = AccountFields /\ a.epoch = request.epoch /\ a.generation = request.generation
      /\ a.fences = <<>> /\ a.incarnations = [i \in {who} |-> rec]
  BY DEF new_account, AccountFields, rec
<1> HIDE DEF a
<1>4. Shaped(a) /\ known(a, who) /\ record_of(a, who) = rec
  BY <1>2, <1>3 DEF Shaped, known, record_of
<1>5. \A i : i # who => record_of(a, i) = FreshRecord
  BY <1>3 DEF record_of, known
<1>6. FreshRecord.state = "Unknown" /\ FreshRecord.last_sequence = 0
  BY DEF FreshRecord
<1>7. AccountGood(a, TRUE, nonce)
  <2>1. a.epoch \in Nat /\ a.generation \in Nat
    BY <1>1, <1>3, SMTT(30)
  <2>2. IsSeq(a.fences)
    BY <1>3, EmptySeq
  <2>3. \A i : record_of(a, i).last_sequence \in Nat
    BY <1>2, <1>4, <1>5, <1>6, SMTT(30)
  <2>4. Isolated(a)
    <3>1. \A i : ~is_fenced(a, i)
      BY <1>3, SMTT(30) DEF is_fenced
    <3>2. \A i : record_of(a, i).state # "Fenced"
      BY <1>2, <1>4, <1>5, <1>6
    <3> QED BY <3>1, <3>2 DEF Isolated
  <2>5. Proved(a, TRUE, nonce)
    <3>1. \A i : record_of(a, i).state = "Reconciled" => i = who
      BY <1>5, <1>6
    <3>2. record_of(a, who).reconciliation_proof = challenge(nonce, who, a.epoch, a.generation)
      BY <1>1, <1>2, <1>3, <1>4 DEF verify
    <3> QED BY <3>1, <3>2 DEF Proved
  <2> QED BY <1>4, <2>1, <2>2, <2>3, <2>4, <2>5 DEF AccountGood
<1>8. AccountGood(b, TRUE, nonce)
  BY <1>4, <1>7, PublishGood
<1>9. HistoryGood(a, <<>>)
  <2>1. DOMAIN <<>> = {}
    BY SMTT(30)
  <2>2. \A w : SlotsOf(<<>>, w) = {}
    BY <2>1 DEF SlotsOf
  <2>3. \A w : record_of(a, w).last_sequence = 0
    BY <1>2, <1>4, <1>5, <1>6
  <2>4. 1..0 = {}
    BY SMTT(30)
  <2> QED BY <2>1, <2>2, <2>3, <2>4 DEF HistoryGood
<1>10. /\ record_of(b, who).last_sequence = request.sequence
       /\ \A i : i # who => record_of(b, i) = record_of(a, i)
       /\ record_of(b, who).state = record_of(a, who).state
  <2>1. Published(a, b, request)
    BY <1>4, Publish
  <2> QED BY <2>1 DEF Published
<1> HIDE DEF b
<1>11. e.request = request
  BY DEF Decided
<1>12. request.op \notin ControlOps /\ ~IsFence(e)
  BY <1>11 DEF ControlOps, IsFence
<1> HIDE DEF e
<1>13. HistoryGood(b, Append(<<>>, e))
  <2>1. \A i : record_of(a, i).last_sequence \in Nat
    BY <1>7 DEF AccountGood
  <2>2. \A i : record_of(a, i).state = "Fenced" => record_of(b, i).state = "Fenced"
    BY <1>10
  <2>3. request.sequence = record_of(a, who).last_sequence + 1
    BY <1>1, <1>2, <1>4, SMTT(30)
  <2>4. DOMAIN <<>> = {}
    BY SMTT(30)
  <2>5. Follows(a, b, <<>>, e)
    BY <1>10, <1>11, <1>12, <2>1, <2>2, <2>3, <2>4 DEF Follows
  <2> QED BY <1>9, <2>5, HistoryGrows, EmptySeq
<1> QED BY <1>8, <1>13 DEF a, b, e

-----------------------------------------------------------------------------
(* What callers send.                                                      *)

Sent(r, op) == r.op = op /\ IsRequest(r)

\* A request before its operands are set.
LEMMA HeaderSent ==
  ASSUME NEW op, NEW who \in Incarnations, NEW epoch, NEW generation, NEW sequence \in 1..MaxSequence,
         NEW attempt
  PROVE  Sent(CreditRequest(op, who, epoch, generation, sequence, attempt), op)
<1> DEFINE r == CreditRequest(op, who, epoch, generation, sequence, attempt)
<1>1. DOMAIN r = RequestFields
  BY DEF CreditRequest, RequestFields
<1>2. r.op = op /\ r.incarnation = who /\ r.sequence = sequence /\ r.count = 0
  BY DEF CreditRequest
<1>3. sequence \in Nat \ {0} /\ 0 \in U64
  BY EngineAssumption, MaxU64Assumption, SMTT(30) DEF U64
<1> QED BY <1>1, <1>2, <1>3 DEF Sent, IsRequest

\* Setting an operand leaves a request of the same operation, caller and slot.
LEMMA OperandSent ==
  ASSUME NEW op, NEW r, Sent(r, op), NEW v
  PROVE  /\ v \in U64 => Sent([r EXCEPT !.count = v], op)
         /\ Sent([r EXCEPT !.producer = v], op)
         /\ Sent([r EXCEPT !.target = v], op)
         /\ Sent([r EXCEPT !.proof = v], op)
         /\ Sent([r EXCEPT !.decision = v], op)
         /\ Sent([r EXCEPT !.expected = v], op)
         /\ Sent([r EXCEPT !.cause = v], op)
<1>1. DOMAIN r = RequestFields
  BY DEF Sent, IsRequest
<1>2. {"op", "incarnation", "sequence", "count"} \subseteq RequestFields
  BY DEF RequestFields
<1>3. ASSUME NEW f \in RequestFields \ {"op", "incarnation", "sequence", "count"}
      PROVE  Sent([r EXCEPT ![f] = v], op)
  <2> DEFINE s == [r EXCEPT ![f] = v]
  <2>1. DOMAIN s = RequestFields
    BY <1>1
  <2>2. f # "op" /\ f # "incarnation" /\ f # "sequence" /\ f # "count"
    BY <1>3
  <2>3. s.op = r.op /\ s.incarnation = r.incarnation /\ s.sequence = r.sequence /\ s.count = r.count
    BY <1>1, <1>2, <2>2
  <2> HIDE DEF s
  <2>4. Sent(s, op)
    BY <2>1, <2>3 DEF Sent, IsRequest
  <2> QED BY <2>4 DEF s
<1>4. ASSUME v \in U64 PROVE Sent([r EXCEPT !.count = v], op)
  <2> DEFINE s == [r EXCEPT !.count = v]
  <2>1. DOMAIN s = RequestFields
    BY <1>1
  <2>2. "count" # "op" /\ "count" # "incarnation" /\ "count" # "sequence"
    OBVIOUS
  <2>3. s.op = r.op /\ s.incarnation = r.incarnation /\ s.sequence = r.sequence /\ s.count = v
    BY <1>1, <1>2, <2>2
  <2> HIDE DEF s
  <2>4. Sent(s, op)
    BY <1>4, <2>1, <2>3 DEF Sent, IsRequest
  <2> QED BY <2>4 DEF s
<1>5. {"producer", "target", "proof", "decision", "expected", "cause"}
        \subseteq RequestFields \ {"op", "incarnation", "sequence", "count"}
  BY DEF RequestFields
<1> QED BY <1>3, <1>4, <1>5

\* Every request that Next enumerates is one.
LEMMA RequestSent ==
  ASSUME NEW op \in Ops, NEW request \in Requests(op)
  PROVE  IsRequest(request) /\ request.op = op /\ request.op \in DataOps \cup ControlOps
<1>1. op \in DataOps \cup ControlOps
  BY EngineAssumption
<1>2. \A r \in Headers(op) : Sent(r, op)
  BY HeaderSent, SMTT(30) DEF Headers
<1>3. \A r \in Counted(op) : Sent(r, op)
  <2>1. Counts \subseteq U64
    BY EngineAssumption
  <2> DEFINE put(r, n) == [r EXCEPT !.count = n]
  <2>2. Counted(op) = {put(r, n) : r \in Headers(op), n \in Counts}
    BY SMTT(30) DEF Counted
  <2>3. \A r \in Headers(op) : \A n \in U64 : Sent(put(r, n), op)
    BY <1>2, OperandSent
  <2> HIDE DEF put
  <2> QED BY <2>1, <2>2, <2>3, SMTT(30)
<1>4. \A r \in Headers(op) : \A s \in Proven(r) : Sent(s, op)
  <2> SUFFICES ASSUME NEW r \in Headers(op), NEW n \in 1..boot
               PROVE  Sent([r EXCEPT !.proof = challenge(n, r.incarnation, r.epoch, r.generation)], op)
    BY DEF Proven
  <2> QED BY <1>2, OperandSent
<1>5. Sent(request, op)
  <2>1. CASE op = "Reconcile"
    <3>1. Requests(op) = UNION {Proven(r) : r \in Headers(op)}
      BY <2>1, SMTT(30) DEF Requests
    <3> QED BY <1>4, <3>1
  <2>2. CASE op = "Issue"
    <3> DEFINE put(r, p) == [r EXCEPT !.producer = p]
    <3>1. Requests(op) = {put(r, p) : r \in Counted(op), p \in Producers \cup {Unset}}
      BY <2>2, SMTT(30) DEF Requests
    <3>2. \A r \in Counted(op) : \A p : Sent(put(r, p), op)
      BY <1>3, OperandSent
    <3> HIDE DEF put
    <3> QED BY <3>1, <3>2, SMTT(30)
  <2>3. CASE op \in {"Consume", "Return", "Protect", "Unprotect", "SetCapacity", "Rotate", "Retire"}
    <3>1. Requests(op) = Counted(op)
      BY <2>3, SMTT(30) DEF Requests
    <3> QED BY <1>3, <3>1
  <2>4. CASE op = "Revalidate"
    <3> DEFINE put(r, d) == [r EXCEPT !.decision = d]
    <3>1. Requests(op) = {put(r, d) : r \in Counted(op), d \in {"None", "ToReturned", "ToConsumed"}}
      BY <2>4, SMTT(30) DEF Requests
    <3>2. \A r \in Counted(op) : \A d : Sent(put(r, d), op)
      BY <1>3, OperandSent
    <3> HIDE DEF put
    <3> QED BY <3>1, <3>2, SMTT(30)
  <2>5. CASE op \in {"Fence", "RetireIncarnation"}
    <3> DEFINE put(r, t) == [r EXCEPT !.target = t]
    <3>1. Requests(op) = {put(r, t) : r \in Headers(op), t \in Incarnations}
      BY <2>5, SMTT(30) DEF Requests
    <3>2. \A r \in Headers(op) : \A t : Sent(put(r, t), op)
      BY <1>2, OperandSent
    <3> HIDE DEF put
    <3> QED BY <3>1, <3>2, SMTT(30)
  <2>6. CASE op = "Exhaust"
    <3> DEFINE put(r, c) == [r EXCEPT !.cause = c]
    <3>1. Requests(op) = {put(r, c) : r \in Headers(op), c \in {"Ok", "UnknownState"}}
      BY <2>6, SMTT(30) DEF Requests
    <3>2. \A r \in Headers(op) : \A c : Sent(put(r, c), op)
      BY <1>2, OperandSent
    <3> HIDE DEF put
    <3> QED BY <3>1, <3>2, SMTT(30)
  <2>7. CASE op = "AdvanceEpoch"
    <3> DEFINE put(r, x) == [r EXCEPT !.expected = x]
    <3>1. Requests(op) = {put(r, x) : r \in Headers(op), x \in {"none", "stale"}}
      BY <2>7, SMTT(30) DEF Requests
    <3>2. \A r \in Headers(op) : \A x : Sent(put(r, x), op)
      BY <1>2, OperandSent
    <3> HIDE DEF put
    <3> QED BY <3>1, <3>2, SMTT(30)
  <2>8. CASE op = "ClearExhaustion"
    <3>1. Requests(op) = Headers(op)
      BY <2>8, SMTT(30) DEF Requests
    <3> QED BY <1>2, <3>1
  <2> QED BY <1>1, <2>1, <2>2, <2>3, <2>4, <2>5, <2>6, <2>7, <2>8 DEF DataOps, ControlOps
<1> QED BY <1>1, <1>5 DEF Sent

\* The requests that open an account are well formed.
LEMMA OpenSent ==
  ASSUME NEW request \in Opens
  PROVE  IsRequest(request) /\ request.op = "Open"
<1>1. PICK who \in Incarnations, sequence \in 1..MaxSequence :
        request \in Proven(CreditRequest("Open", who, 1, 1, sequence, 1))
  BY SMTT(30) DEF Opens
<1>2. Sent(CreditRequest("Open", who, 1, 1, sequence, 1), "Open")
  BY HeaderSent
<1> DEFINE r == CreditRequest("Open", who, 1, 1, sequence, 1)
<1> HIDE DEF r
<1>3. PICK n \in 1..boot : request = [r EXCEPT !.proof = challenge(n, r.incarnation, r.epoch, r.generation)]
  BY <1>1 DEF Proven, r
<1>4. Sent(request, "Open")
  BY <1>2, <1>3, OperandSent DEF r
<1> QED BY <1>4 DEF Sent

-----------------------------------------------------------------------------
(* The boot.                                                               *)

\* What a boot leaves of a good account is good, and nobody is live in it.
LEMMA FadedGood ==
  ASSUME NEW a, NEW b, NEW h, NEW nonce, AccountGood(b, TRUE, nonce), HistoryGood(b, h), NEW n
  PROVE  /\ AccountGood(faded(b, n), FALSE, nonce) /\ HistoryGood(faded(b, n), h)
         /\ Advances(a, b) => Advances(a, faded(b, n))
<1> DEFINE c == faded(b, n)
<1>1. Keeps(b, c) /\ \A i : record_of(c, i).state # "Reconciled"
  BY FadedKeeps DEF AccountGood
<1> HIDE DEF c
<1>2. AccountGood(c, TRUE, nonce) /\ HistoryGood(c, h)
  BY <1>1, KeepsGood
<1>3. Proved(c, FALSE, nonce)
  BY <1>1 DEF Proved
<1>4. AccountGood(c, FALSE, nonce)
  BY <1>2, <1>3 DEF AccountGood
<1>5. Advances(a, b) => Advances(a, c)
  BY <1>1, AdvancesKeeps
<1> QED BY <1>2, <1>4, <1>5 DEF c

\* The next boot starts with nobody live, whatever its nonce.
LEMMA RestartGood ==
  ASSUME NEW a, NEW old, NEW new, AccountGood(a, FALSE, old)
  PROVE  AccountGood(a, TRUE, new)
<1>1. Proved(a, TRUE, new)
  BY DEF AccountGood, Proved
<1> QED BY <1>1 DEF AccountGood

-----------------------------------------------------------------------------
(* Steps.                                                                  *)

IInv == serving \in BOOLEAN /\ Good(account, history, serving, boot)

\* What the decision of a request comes to.
OutcomeOK(o) ==
  /\ IsSeq(o.history)
  /\ AccountGood(o.account, TRUE, boot) /\ HistoryGood(o.account, o.history)
  /\ account # NoAccount => Advances(account, o.account)

\* The outcome of a decision on an account is one the invariant allows,
LEMMA DecideOK ==
  ASSUME IInv, NEW op \in Ops, NEW request \in Requests(op), MayDecide(request)
  PROVE  OutcomeOK(Outcome(request, decide(account, request, boot)))
<1> DEFINE d == decide(account, request, boot)
           b == publish_window(d.account, request, d.reason, d.applied)
           e == Decided(request, d.reason, d.applied)
           o == Outcome(request, d)
<1>1. IsRequest(request) /\ request.op \in DataOps \cup ControlOps
  BY RequestSent
<1>2. account # NoAccount /\ admission(account, request) = "Ok" /\ serving = TRUE
  BY DEF MayDecide, IInv
<1>3. /\ IsSeq(history)
      /\ AccountGood(account, TRUE, boot) /\ HistoryGood(account, history)
  BY <1>2 DEF IInv, Good
<1>5. /\ AccountGood(d.account, TRUE, boot) /\ HistoryGood(d.account, history)
      /\ Advances(account, d.account)
      /\ d.decided => /\ AccountGood(b, TRUE, boot) /\ HistoryGood(b, Append(history, e))
                      /\ Advances(account, b)
  BY <1>1, <1>2, <1>3, OutcomeGood
<1> HIDE DEF d
<1>6. CASE d.decided
  <2>1. o.account = b /\ o.history = Append(history, e)
    BY <1>6 DEF Outcome
  <2> HIDE DEF b, e, o
  <2>2. IsSeq(o.history)
    BY <1>3, <2>1, AppendExtends, SMTT(30) DEF Extends
  <2>3. OutcomeOK(o)
    BY <1>5, <1>6, <2>1, <2>2 DEF OutcomeOK
  <2> QED BY <2>3 DEF o, d
<1>7. CASE ~d.decided
  <2>1. o.account = d.account /\ o.history = history
    BY <1>7 DEF Outcome
  <2> HIDE DEF o
  <2>2. OutcomeOK(o)
    BY <1>3, <1>5, <2>1 DEF OutcomeOK
  <2> QED BY <2>2 DEF o, d
<1> QED BY <1>6, <1>7

\* and so is that of an open.
LEMMA OpenOK ==
  ASSUME IInv, NEW request \in Opens, MayOpen(request)
  PROVE  OutcomeOK(OpenOutcome(request))
<1> DEFINE b == publish_window(new_account(request), request, "Ok", TRUE)
           e == Decided(request, "Ok", TRUE)
           o == OpenOutcome(request)
<1>1. IsRequest(request) /\ request.op = "Open"
  BY OpenSent
<1>2. account = NoAccount /\ open_verdict(request, boot) = "Ok"
  BY DEF MayOpen
<1>3. history = <<>> /\ IsSeq(history)
  BY <1>2 DEF IInv, Good
<1>4. AccountGood(b, TRUE, boot) /\ HistoryGood(b, Append(<<>>, e))
  BY <1>1, <1>2, OpenGood
<1>5. o.account = b /\ o.history = Append(history, e)
  BY DEF OpenOutcome
<1> HIDE DEF b, e, o
<1>6. IsSeq(o.history)
  <2>1. IsSeq(history)
    BY DEF IInv, Good
  <2>2. Extends(Append(history, e), history, e)
    BY <2>1, AppendExtends
  <2> QED BY <1>5, <2>2 DEF Extends
<1>7. OutcomeOK(o)
  BY <1>2, <1>3, <1>4, <1>5, <1>6 DEF OutcomeOK
<1> QED BY <1>7 DEF o

\* An advance of the account is a step of AuthorityStep.
LEMMA AdvancesAuthority ==
  ASSUME account' # NoAccount, account # NoAccount => Advances(account, account')
  PROVE  AuthorityStep
<1> SUFFICES ASSUME account # NoAccount, Advances(account, account') PROVE AuthorityStep
  BY DEF AuthorityStep
<1>1. DOMAIN account.incarnations \subseteq DOMAIN account'.incarnations
  BY DEF Advances, Grown
<1>2. ASSUME NEW who \in DOMAIN account.incarnations
      PROVE  /\ record_of(account, who) = account.incarnations[who]
             /\ record_of(account', who) = account'.incarnations[who]
  BY <1>1 DEF record_of, known
<1>3. \A who \in DOMAIN account.incarnations :
        /\ account.incarnations[who].state = "Fenced" => account'.incarnations[who].state = "Fenced"
        /\ account.incarnations[who].state = "Retired" =>
             account'.incarnations[who].state \in {"Retired", "Fenced"}
        /\ account'.incarnations[who].last_sequence >= account.incarnations[who].last_sequence
  BY <1>2 DEF Advances
<1> QED BY <1>3 DEF AuthorityStep, Advances

\* A boot that goes on, or ends, with a good outcome.
LEMMA BecomeOK ==
  ASSUME DOMAIN NoAccount # AccountFields, IInv, serving, NEW o, OutcomeOK(o), Become(o) \/ EndBoot(o)
  PROVE  IInv' /\ AuthorityStep
<1>1. \A a : Shaped(a) => a # NoAccount
  BY DEF Shaped
<1>2. CASE Become(o)
  <2>1. account' = o.account /\ history' = o.history /\ serving' = TRUE /\ boot' = boot
    BY <1>2 DEF Become, IInv
  <2>2. AccountGood(account', TRUE, boot) /\ HistoryGood(account', history')
    BY <2>1 DEF OutcomeOK
  <2>3. account' # NoAccount
    BY <1>1, <2>2 DEF AccountGood
  <2>4. Good(account', history', serving', boot')
    BY <2>1, <2>2, <2>3 DEF OutcomeOK, Good
  <2>5. account # NoAccount => Advances(account, account')
    BY <2>1 DEF OutcomeOK
  <2> QED BY <2>1, <2>3, <2>4, <2>5, AdvancesAuthority DEF IInv
<1>3. CASE EndBoot(o)
  <2>1. o.account # NoAccount
    BY <1>1 DEF OutcomeOK, AccountGood
  <2>2. PICK n \in 0..Len(o.account.window) : account' = faded(o.account, n)
    BY <1>3, <2>1 DEF EndBoot
  <2>3. history' = o.history /\ serving' = FALSE /\ boot' = boot
    BY <1>3 DEF EndBoot
  <2>4. /\ AccountGood(account', FALSE, boot) /\ HistoryGood(account', history')
        /\ Advances(account, o.account) => Advances(account, account')
    BY <2>2, <2>3, FadedGood DEF OutcomeOK
  <2>5. account' # NoAccount
    BY <1>1, <2>4 DEF AccountGood
  <2>6. Good(account', history', serving', boot')
    BY <2>3, <2>4, <2>5 DEF OutcomeOK, Good
  <2>7. account # NoAccount => Advances(account, account')
    BY <2>4 DEF OutcomeOK
  <2> QED BY <2>3, <2>5, <2>6, <2>7, AdvancesAuthority DEF IInv
<1> QED BY <1>2, <1>3

\* A crash, which ends the boot at what the journal has, preserves the invariant,
LEMMA CrashOK ==
  ASSUME DOMAIN NoAccount # AccountFields, IInv, Crash
  PROVE  IInv' /\ AuthorityStep
<1> DEFINE o == [account |-> account, history |-> history]
<1>1. serving = TRUE /\ EndBoot(o) /\ o.account = account /\ o.history = history
  BY DEF Crash, IInv
<1> HIDE DEF o
<1>2. CASE account = NoAccount
  <2>1. account' = NoAccount /\ history' = history /\ serving' = FALSE /\ boot' = boot
    BY <1>1, <1>2 DEF EndBoot
  <2>2. Good(account', history', serving', boot')
    BY <1>2, <2>1 DEF IInv, Good
  <2> QED BY <1>2, <2>1, <2>2 DEF IInv, AuthorityStep
<1>3. CASE account # NoAccount
  <2>1. AccountGood(account, TRUE, boot) /\ HistoryGood(account, history) /\ IsSeq(history)
    BY <1>1, <1>3 DEF IInv, Good
  <2>2. Advances(account, account)
    <3>1. Keeps(account, account)
      BY <2>1, SameIncarnations DEF AccountGood, Shaped
    <3> QED BY <2>1, <3>1, KeepsGood
  <2>3. OutcomeOK(o)
    BY <1>1, <2>1, <2>2 DEF OutcomeOK
  <2> QED BY <1>1, <2>3, BecomeOK
<1> QED BY <1>2, <1>3

\* and so does the restart that begins the next one.
LEMMA RestartOK ==
  ASSUME DOMAIN NoAccount # AccountFields, IInv, Restart
  PROVE  IInv' /\ AuthorityStep
<1>1. serving = FALSE /\ serving' = TRUE /\ account' = account /\ history' = history
  BY DEF Restart, IInv
<1>2. CASE account = NoAccount
  BY <1>1, <1>2 DEF IInv, Good, AuthorityStep
<1>3. CASE account # NoAccount
  <2>1. AccountGood(account, FALSE, boot) /\ HistoryGood(account, history) /\ IsSeq(history)
    BY <1>1, <1>3 DEF IInv, Good
  <2>2. AccountGood(account', TRUE, boot')
    BY <1>1, <2>1, RestartGood
  <2>3. Good(account', history', serving', boot')
    BY <1>1, <1>3, <2>1, <2>2, ZenonT(30) DEF Good
  <2>4. Keeps(account, account)
    BY <2>1, SameIncarnations DEF AccountGood, Shaped
  <2>5. Advances(account, account')
    BY <1>1, <2>1, <2>4, KeepsGood
  <2> QED BY <1>1, <1>3, <2>3, <2>5, AdvancesAuthority DEF IInv
<1> QED BY <1>2, <1>3

\* The invariant is inductive, and every step is one of AuthorityStep.
LEMMA StepOK ==
  ASSUME DOMAIN NoAccount # AccountFields, IInv, [Next]_vars
  PROVE  IInv' /\ [AuthorityStep]_vars
<1>1. CASE UNCHANGED vars
  BY <1>1 DEF vars, IInv
<1>2. ASSUME NEW request \in Opens, Open(request) \/ InterruptedOpen(request)
      PROVE  IInv' /\ AuthorityStep
  <2>1. MayOpen(request) /\ (Become(OpenOutcome(request)) \/ EndBoot(OpenOutcome(request)))
    BY <1>2 DEF Open, InterruptedOpen
  <2>2. OutcomeOK(OpenOutcome(request))
    BY <2>1, OpenOK
  <2> QED BY <2>1, <2>2, BecomeOK DEF MayOpen
<1>3. ASSUME NEW op \in Ops, NEW request \in Requests(op), Decide(request) \/ Interrupted(request)
      PROVE  IInv' /\ AuthorityStep
  <2> DEFINE o == Outcome(request, decide(account, request, boot))
  <2>1. MayDecide(request) /\ (Become(o) \/ EndBoot(o))
    BY <1>3 DEF Decide, Interrupted
  <2>2. OutcomeOK(o)
    BY <2>1, DecideOK
  <2> QED BY <2>1, <2>2, BecomeOK DEF MayDecide
<1> QED BY <1>1, <1>2, <1>3, CrashOK, RestartOK DEF Next

-----------------------------------------------------------------------------
(* Theorems.                                                               *)

\* It holds in a new engine.
LEMMA InitOK == Init => IInv
<1> SUFFICES ASSUME Init PROVE IInv
  OBVIOUS
<1> QED BY EmptySeq DEF Init, IInv, Good

\* The invariant holds in every reachable state of the engine.
THEOREM EngineInvariant ==
  ASSUME DOMAIN NoAccount # AccountFields
  PROVE  Spec => []IInv
<1>1. IInv /\ [Next]_vars => IInv'
  BY StepOK
<1> QED BY <1>1, InitOK, PTL DEF Spec

(***************************************************************************)
(* No slot (incarnation, sequence) is decided twice, whatever the number   *)
(* of callers, retries, evictions from the attempt window and boots.       *)
(***************************************************************************)
THEOREM EngineDecidesOnce ==
  ASSUME DOMAIN NoAccount # AccountFields
  PROVE  Spec => []DecidedOnce
<1>1. IInv => DecidedOnce
  <2> SUFFICES ASSUME IInv PROVE DecidedOnce
    OBVIOUS
  <2>1. CASE account = NoAccount
    <3>1. DOMAIN history = {}
      BY <2>1, SMTT(30) DEF IInv, Good
    <3> QED BY <3>1 DEF DecidedOnce, Past
  <2>2. CASE account # NoAccount
    BY <2>2 DEF IInv, Good, HistoryGood, DecidedOnce, Past
  <2> QED BY <2>1, <2>2
<1> QED BY <1>1, EngineInvariant, PTL

(***************************************************************************)
(* The watermark that recovery restores and apply_locked places a request  *)
(* by is exact: the slots decided are those up to it, without a gap.       *)
(***************************************************************************)
THEOREM EngineWatermarkExact ==
  ASSUME DOMAIN NoAccount # AccountFields
  PROVE  Spec => []WatermarkExact
<1>1. IInv => WatermarkExact
  BY DEF IInv, Good, HistoryGood, SlotsOf, WatermarkExact, Past
<1> QED BY <1>1, EngineInvariant, PTL

(***************************************************************************)
(* A fence outlives every era and boot: the fence list and the Fenced      *)
(* states agree, and nothing of a fenced incarnation is decided after.     *)
(***************************************************************************)
THEOREM EngineFencesForEver ==
  ASSUME DOMAIN NoAccount # AccountFields
  PROVE  Spec => []FencedForEver
<1>1. IInv => FencedForEver
  <2> SUFFICES ASSUME IInv, account # NoAccount PROVE FencedForEver
    BY DEF FencedForEver
  <2>1. AccountGood(account, serving, boot) /\ HistoryGood(account, history)
    BY DEF IInv, Good
  <2>2. \A who \in Incarnations : is_fenced(account, who) <=> record_of(account, who).state = "Fenced"
    BY <2>1 DEF AccountGood, Isolated
  <2>3. \A i, j \in Past :
          (i < j /\ history[i].request.op = "Fence" /\ history[i].applied)
            => history[j].request.incarnation # history[i].request.target
    BY <2>1 DEF HistoryGood, IsFence, Past
  <2> QED BY <2>2, <2>3 DEF FencedForEver
<1> QED BY <1>1, EngineInvariant, PTL

(***************************************************************************)
(* Whoever is live has answered the challenge of this boot's nonce in this *)
(* era: neither a restart nor an era's end leaves anyone Reconciled.       *)
(***************************************************************************)
THEOREM EngineLiveByThisChallenge ==
  ASSUME DOMAIN NoAccount # AccountFields
  PROVE  Spec => []LiveByThisChallenge
<1>1. IInv => LiveByThisChallenge
  <2> SUFFICES ASSUME IInv, account # NoAccount, NEW who \in DOMAIN account.incarnations,
                      account.incarnations[who].state = "Reconciled"
               PROVE  /\ serving
                      /\ account.incarnations[who].reconciliation_proof
                           = challenge(boot, who, account.epoch, account.generation)
    BY DEF LiveByThisChallenge
  <2>1. Proved(account, serving, boot)
    BY DEF IInv, Good, AccountGood
  <2>2. record_of(account, who) = account.incarnations[who]
    BY DEF record_of, known
  <2> QED BY <2>1, <2>2 DEF Proved
<1> QED BY <1>1, EngineInvariant, PTL

(***************************************************************************)
(* Control requests are decided for the operator's incarnation only.       *)
(***************************************************************************)
THEOREM EngineOperatorControls ==
  ASSUME DOMAIN NoAccount # AccountFields
  PROVE  Spec => []OperatorControls
<1>1. IInv => OperatorControls
  <2> SUFFICES ASSUME IInv PROVE OperatorControls
    OBVIOUS
  <2>1. CASE account = NoAccount
    <3>1. DOMAIN history = {}
      BY <2>1, SMTT(30) DEF IInv, Good
    <3> QED BY <3>1 DEF OperatorControls, Past
  <2>2. CASE account # NoAccount
    BY <2>2 DEF IInv, Good, HistoryGood, OperatorControls, Past
  <2> QED BY <2>1, <2>2
<1> QED BY <1>1, EngineInvariant, PTL

(***************************************************************************)
(* No step of the engine, a crash and a restart included, brings an era    *)
(* back, undoes a fence or a retirement, or moves a watermark back.        *)
(***************************************************************************)
THEOREM EngineAuthorityMonotone ==
  ASSUME DOMAIN NoAccount # AccountFields
  PROVE  Spec => AuthorityMonotone
<1>1. IInv /\ [Next]_vars => [AuthorityStep]_vars
  BY StepOK
<1> QED BY <1>1, EngineInvariant, PTL DEF Spec, AuthorityMonotone

-----------------------------------------------------------------------------
(* The ledger and the window of an account through a decision.             *)

\* Credit that can still be consumed.
Live(t) == Flight(t) - (t.spent + t.stale)

SameBooks(a, b) ==
  /\ b.capacity = a.capacity /\ b.totals = a.totals
  /\ b.window = a.window /\ b.generation = a.generation

\* From a to b the era goes on, the counters still reconcile, and at most k credits are issued.
Books(a, b, k) ==
  /\ b.window = a.window /\ b.generation = a.generation
  /\ Sound(b.capacity, b.totals)
  /\ Live(b.totals) <= Live(a.totals) + k

\* The books of b begin an era: nothing is live in it.
NewEra(a, b) ==
  /\ b.window = a.window /\ b.generation = a.generation + 1
  /\ Sound(b.capacity, b.totals)
  /\ Live(b.totals) = 0

\* What a plan of the ledger over the books of a comes to.
Planned(a, plan, k) ==
  plan.status = "Ok" => /\ Sound(plan.capacity, plan.totals)
                        /\ Live(plan.totals) <= Live(a.totals) + k

Reconciled(a) == Shaped(a) /\ Sound(a.capacity, a.totals)

\* What can be consumed is a number.
LEMMA LiveNat ==
  ASSUME NEW c, NEW t, Sound(c, t)
  PROVE  Live(t) \in Nat
<1>1. PlanReady(c, t, LedgerPlan(c, t))
  BY PlanFacts
<1> QED BY <1>1, SMTT(30) DEF PlanReady, Live, Flight, CreditTotals, U64

\* Books that do not change are in order.
LEMMA SameBooksGood ==
  ASSUME NEW a, NEW b, Reconciled(a), SameBooks(a, b), NEW k \in Nat
  PROVE  Books(a, b, k)
<1>1. Live(a.totals) \in Nat
  BY LiveNat DEF Reconciled
<1>2. Live(a.totals) <= Live(a.totals) + k
  BY <1>1, SMTT(30)
<1> QED BY <1>2 DEF Reconciled, SameBooks, Books

\* Books are carried over.
LEMMA BooksThen ==
  ASSUME NEW a, NEW b, NEW c, NEW k
  PROVE  /\ SameBooks(a, b) /\ Books(b, c, k) => Books(a, c, k)
         /\ Books(a, b, k) /\ SameBooks(b, c) => Books(a, c, k)
         /\ NewEra(a, b) /\ SameBooks(b, c) => NewEra(a, c)
         /\ SameBooks(a, b) /\ SameBooks(b, c) => SameBooks(a, c)
BY DEF SameBooks, Books, NewEra

\* with_record touches no book.
LEMMA WithRecordBooks ==
  ASSUME NEW a, Shaped(a), NEW who, NEW rec, DOMAIN rec = RecordFields
  PROVE  SameBooks(a, with_record(a, who, rec)) /\ Shaped(with_record(a, who, rec))
<1>1. {"capacity", "totals", "window", "generation"} \subseteq AccountFields \ {"incarnations"}
  BY DEF AccountFields
<1>2. \A f \in AccountFields \ {"incarnations"} : with_record(a, who, rec)[f] = a[f]
  BY WithRecord, SMTT(30)
<1>3. Shaped(with_record(a, who, rec))
  BY WithRecord
<1> QED BY <1>1, <1>2, <1>3 DEF SameBooks

\* Nor does counting a decision.
LEMMA CountBooks ==
  ASSUME NEW a, Shaped(a), NEW who
  PROVE  SameBooks(a, count_refused(a, who)) /\ SameBooks(a, count_committed(a, who))
<1> DEFINE old == record_of(a, who)
           refused == [old EXCEPT !.refused_ops = @ + 1]
           committed == [old EXCEPT !.committed_ops = @ + 1]
<1>1. DOMAIN old = RecordFields
  BY RecordShape
<1>2. DOMAIN refused = RecordFields /\ DOMAIN committed = RecordFields
  BY <1>1
<1> HIDE DEF refused, committed
<1>3. /\ SameBooks(a, with_record(a, who, refused))
      /\ SameBooks(a, with_record(a, who, committed))
  BY <1>2, WithRecordBooks
<1> QED BY <1>3 DEF count_refused, count_committed, refused, committed

\* A refusal, decided or not, leaves the books; an applied decision leaves those it is made of.
LEMMA VerdictBooks ==
  ASSUME NEW a, Shaped(a), NEW request, NEW reason, NEW before, NEW subject
  PROVE  /\ SameBooks(a, undecided(a, reason).account)
         /\ SameBooks(a, decided_refusal(a, request, reason).account)
         /\ SameBooks(a, decided_applied(before, a, request, subject).account)
         /\ decided_applied(before, a, request, subject).applied = TRUE
         /\ decided_applied(before, a, request, subject).decided = TRUE
<1>1. /\ undecided(a, reason).account = a
      /\ decided_refusal(a, request, reason).account = count_refused(a, request.incarnation)
      /\ decided_applied(before, a, request, subject).account = count_committed(a, request.incarnation)
      /\ decided_applied(before, a, request, subject).applied = TRUE
      /\ decided_applied(before, a, request, subject).decided = TRUE
  BY DEF undecided, decided_refusal, decided_applied
<1>2. SameBooks(a, a)
  BY DEF SameBooks
<1> QED BY <1>1, <1>2, CountBooks

\* A verdict of the ledger.
LEMMA SettleBooks ==
  ASSUME NEW before, NEW a, Reconciled(a), NEW request, NEW plan, NEW k \in Nat, Planned(a, plan, k)
  PROVE  LET d == settle(before, a, request, plan) IN
         \/ Books(a, d.account, 0)
         \/ d.applied = TRUE /\ d.decided = TRUE /\ Books(a, d.account, k)
<1> DEFINE m == [a EXCEPT !.capacity = plan.capacity, !.totals = plan.totals]
           d == settle(before, a, request, plan)
<1>0. Shaped(a)
  BY DEF Reconciled
<1>1. DOMAIN a = AccountFields
      /\ {"incarnations", "capacity", "totals", "window", "generation"} \subseteq AccountFields
  BY <1>0 DEF Shaped, AccountFields
<1>2. /\ DOMAIN m = AccountFields /\ m.incarnations = a.incarnations
      /\ m.capacity = plan.capacity /\ m.totals = plan.totals
      /\ m.window = a.window /\ m.generation = a.generation
  BY <1>1
<1>3. CASE plan.status = "Ok"
  <2>1. d = decided_applied(before, m, request, Unset)
    BY <1>3 DEF settle
  <2> HIDE DEF m, d
  <2>2. Shaped(m)
    BY <1>0, <1>2 DEF Shaped
  <2>3. Books(a, m, k)
    BY <1>2, <1>3 DEF Books, Planned
  <2>4. SameBooks(m, d.account) /\ d.applied = TRUE /\ d.decided = TRUE
    BY <2>1, <2>2, VerdictBooks
  <2>5. Books(a, d.account, k)
    BY <2>3, <2>4, BooksThen
  <2> QED BY <2>4, <2>5 DEF d
<1>4. CASE plan.status # "Ok"
  <2>1. d = decided_refusal(a, request, plan.status)
    BY <1>4 DEF settle
  <2> HIDE DEF d
  <2>2. SameBooks(a, d.account)
    BY <1>0, <2>1, VerdictBooks
  <2>3. Books(a, d.account, 0)
    BY <2>2, SameBooksGood
  <2> QED BY <2>3 DEF d
<1> QED BY <1>3, <1>4

\* Of the ledger's mutations only issue makes credit live, and no more than it was asked for.
LEMMA MutationsPlanned ==
  ASSUME NEW a, Reconciled(a), NEW count \in U64
  PROVE  /\ Planned(a, issue(Plan(a), count, MinIssue, MaxIssue), count)
         /\ Planned(a, consume(Plan(a), count), 0)
         /\ Planned(a, give_back(Plan(a), count), 0)
         /\ Planned(a, protect(Plan(a), count, AllowProtect), 0)
         /\ Planned(a, unprotect(Plan(a), count), 0)
         /\ Planned(a, retire_stale(Plan(a), count), 0)
         /\ Planned(a, revalidate_to_returned(Plan(a), count), 0)
         /\ Planned(a, revalidate_to_consumed(Plan(a), count), 0)
         /\ Planned(a, set_capacity(Plan(a), count, MaxCapacity, AllowGrowth), 0)
<1> DEFINE c == a.capacity
           t == a.totals
<1>1. Sound(c, t) /\ t \in CreditTotals
  BY DEF Reconciled, Sound
<1>2. Plan(a) = LedgerPlan(c, t)
  BY DEF Plan
<1> HIDE DEF c, t
<1>3. Planned(a, issue(Plan(a), count, MinIssue, MaxIssue), count)
  <2>1. ASSUME issue(Plan(a), count, MinIssue, MaxIssue).status = "Ok"
        PROVE  /\ issue(Plan(a), count, MinIssue, MaxIssue).capacity = c
               /\ issue(Plan(a), count, MinIssue, MaxIssue).totals = AfterIssue(t, count)
               /\ Sound(c, AfterIssue(t, count))
    BY <1>1, <1>2, <2>1, IssueEffect, SMTT(30)
  <2>2. Live(AfterIssue(t, count)) <= Live(t) + count
    BY <1>1, SMTT(30) DEF AfterIssue, Live, Flight, CreditTotals, U64
  <2> QED BY <2>1, <2>2 DEF Planned, t
<1>4. Planned(a, consume(Plan(a), count), 0)
  <2>1. ASSUME consume(Plan(a), count).status = "Ok"
        PROVE  /\ consume(Plan(a), count).capacity = c
               /\ consume(Plan(a), count).totals = AfterConsume(t, count)
               /\ Sound(c, AfterConsume(t, count))
    BY <1>1, <1>2, <2>1, ConsumeEffect, SMTT(30)
  <2>2. Live(AfterConsume(t, count)) <= Live(t) + 0
    BY <1>1, SMTT(30) DEF AfterConsume, Live, Flight, CreditTotals, U64
  <2> QED BY <2>1, <2>2 DEF Planned, t
<1>5. Planned(a, give_back(Plan(a), count), 0)
  <2>1. ASSUME give_back(Plan(a), count).status = "Ok"
        PROVE  /\ give_back(Plan(a), count).capacity = c
               /\ give_back(Plan(a), count).totals = AfterReturn(t, count)
               /\ Sound(c, AfterReturn(t, count))
    BY <1>1, <1>2, <2>1, GiveBackEffect, SMTT(30)
  <2>2. Live(AfterReturn(t, count)) <= Live(t) + 0
    BY <1>1, SMTT(30) DEF AfterReturn, Live, Flight, CreditTotals, U64
  <2> QED BY <2>1, <2>2 DEF Planned, t
<1>6. Planned(a, protect(Plan(a), count, AllowProtect), 0)
  <2>1. ASSUME protect(Plan(a), count, AllowProtect).status = "Ok"
        PROVE  /\ protect(Plan(a), count, AllowProtect).capacity = c
               /\ protect(Plan(a), count, AllowProtect).totals = AfterProtect(t, count)
               /\ Sound(c, AfterProtect(t, count))
    BY <1>1, <1>2, <2>1, ProtectEffect, AccountAssumption, SMTT(30)
  <2>2. Live(AfterProtect(t, count)) <= Live(t) + 0
    BY <1>1, SMTT(30) DEF AfterProtect, Live, Flight, CreditTotals, U64
  <2> QED BY <2>1, <2>2 DEF Planned, t
<1>7. Planned(a, unprotect(Plan(a), count), 0)
  <2>1. ASSUME unprotect(Plan(a), count).status = "Ok"
        PROVE  /\ unprotect(Plan(a), count).capacity = c
               /\ unprotect(Plan(a), count).totals = AfterUnprotect(t, count)
               /\ Sound(c, AfterUnprotect(t, count))
    BY <1>1, <1>2, <2>1, UnprotectEffect, SMTT(30)
  <2>2. Live(AfterUnprotect(t, count)) <= Live(t) + 0
    BY <1>1, SMTT(30) DEF AfterUnprotect, Live, Flight, CreditTotals, U64
  <2> QED BY <2>1, <2>2 DEF Planned, t
<1>8. Planned(a, retire_stale(Plan(a), count), 0)
  <2>1. ASSUME retire_stale(Plan(a), count).status = "Ok"
        PROVE  /\ retire_stale(Plan(a), count).capacity = c
               /\ retire_stale(Plan(a), count).totals = AfterRetire(t, count)
               /\ Sound(c, AfterRetire(t, count))
    BY <1>1, <1>2, <2>1, RetireStaleEffect, SMTT(30)
  <2>2. Live(AfterRetire(t, count)) <= Live(t) + 0
    BY <1>1, SMTT(30) DEF AfterRetire, Live, Flight, CreditTotals, U64
  <2> QED BY <2>1, <2>2 DEF Planned, t
<1>9. Planned(a, revalidate_to_returned(Plan(a), count), 0)
  <2>1. ASSUME revalidate_to_returned(Plan(a), count).status = "Ok"
        PROVE  /\ revalidate_to_returned(Plan(a), count).capacity = c
               /\ revalidate_to_returned(Plan(a), count).totals = AfterToReturned(t, count)
               /\ Sound(c, AfterToReturned(t, count))
    BY <1>1, <1>2, <2>1, ToReturnedEffect, SMTT(30)
  <2>2. Live(AfterToReturned(t, count)) <= Live(t) + 0
    BY <1>1, SMTT(30) DEF AfterToReturned, Live, Flight, CreditTotals, U64
  <2> QED BY <2>1, <2>2 DEF Planned, t
<1>10. Planned(a, revalidate_to_consumed(Plan(a), count), 0)
  <2>1. ASSUME revalidate_to_consumed(Plan(a), count).status = "Ok"
        PROVE  /\ revalidate_to_consumed(Plan(a), count).capacity = c
               /\ revalidate_to_consumed(Plan(a), count).totals = AfterToConsumed(t, count)
               /\ Sound(c, AfterToConsumed(t, count))
    BY <1>1, <1>2, <2>1, ToConsumedEffect, SMTT(30)
  <2>2. Live(AfterToConsumed(t, count)) <= Live(t) + 0
    BY <1>1, SMTT(30) DEF AfterToConsumed, Live, Flight, CreditTotals, U64
  <2> QED BY <2>1, <2>2 DEF Planned, t
<1>11. Planned(a, set_capacity(Plan(a), count, MaxCapacity, AllowGrowth), 0)
  <2>1. ASSUME set_capacity(Plan(a), count, MaxCapacity, AllowGrowth).status = "Ok"
        PROVE  /\ set_capacity(Plan(a), count, MaxCapacity, AllowGrowth).capacity = count
               /\ set_capacity(Plan(a), count, MaxCapacity, AllowGrowth).totals = t
               /\ Sound(count, t)
    BY <1>1, <1>2, <2>1, SetCapacityEffect, AccountAssumption, SMTT(30)
  <2>2. Live(t) <= Live(t) + 0
    BY <1>1, SMTT(30) DEF Live, Flight, CreditTotals, U64
  <2> QED BY <2>1, <2>2 DEF Planned, t
<1> QED BY <1>3, <1>4, <1>5, <1>6, <1>7, <1>8, <1>9, <1>10, <1>11

(***************************************************************************)
(* What a decision does to the books: only an applied Issue makes credit   *)
(* live, at most the count it names, and the end of an era leaves none.    *)
(***************************************************************************)
Booked(a, d, request) ==
  \/ Books(a, d.account, 0)
  \/ /\ request.op = "Issue" /\ d.applied = TRUE /\ d.decided = TRUE
     /\ Books(a, d.account, request.count)
  \/ d.decided = TRUE /\ NewEra(a, d.account)

\* A decision that leaves the books is in order.
LEMMA SameBooked ==
  ASSUME NEW a, Reconciled(a), NEW d, NEW request, SameBooks(a, d.account)
  PROVE  Booked(a, d, request)
<1>1. Books(a, d.account, 0)
  BY SameBooksGood
<1> QED BY <1>1 DEF Booked

\* The books after a verdict of the ledger on anything but an Issue.
LEMMA SettleBooked ==
  ASSUME NEW a, Reconciled(a), NEW request, NEW plan, Planned(a, plan, 0)
  PROVE  Booked(a, settle(a, a, request, plan), request)
<1>1. Books(a, settle(a, a, request, plan).account, 0)
  BY SettleBooks
<1> QED BY <1>1 DEF Booked

\* An Issue binds the roles of its caller, which is no matter of the books, and settles.
LEMMA IssueBooked ==
  ASSUME NEW a, Reconciled(a), NEW request, IsRequest(request), request.op = "Issue",
         known(a, request.incarnation)
  PROVE  Booked(a, decide_issue(a, request), request)
<1> DEFINE who    == request.incarnation
           record == a.incarnations[who]
           wrong  == mismatches(record, request)
           first  == IF wrong = {} THEN 4 ELSE CHOOSE i \in wrong : \A j \in wrong : i <= j
           tied   == bind(record, request, first)
           bound  == with_record(a, who, tied)
           d      == decide_issue(a, request)
<1>0. Shaped(a)
  BY DEF Reconciled
<1>1. record = record_of(a, who)
  BY DEF record_of
<1>2. DOMAIN record = RecordFields
  BY <1>0, <1>1, RecordShape
<1>3. DOMAIN tied = RecordFields
  BY <1>2 DEF bind
<1>4. \/ d = decided_refusal(a, request, "ExhaustedHard")
      \/ d = decided_refusal(bound, request,
               <<"ProducerMismatch", "ConsumerMismatch", "GrantMismatch">>[first])
      \/ d = settle(a, bound, request, ledger_apply(bound, request))
  BY DEF decide_issue
<1> HIDE DEF tied, d
<1>5. SameBooks(a, bound) /\ Shaped(bound)
  BY <1>0, <1>3, WithRecordBooks
<1> HIDE DEF bound
<1>6. Reconciled(bound)
  BY <1>5 DEF Reconciled, SameBooks
<1>7. CASE \E reason : d = decided_refusal(a, request, reason)
  <2>1. SameBooks(a, d.account)
    BY <1>0, <1>7, VerdictBooks
  <2> QED BY <2>1, SameBooked DEF d
<1>8. CASE \E reason : d = decided_refusal(bound, request, reason)
  <2>1. SameBooks(bound, d.account)
    BY <1>5, <1>8, VerdictBooks
  <2>2. SameBooks(a, d.account)
    BY <1>5, <2>1, BooksThen
  <2> QED BY <2>2, SameBooked DEF d
<1>9. CASE d = settle(a, bound, request, ledger_apply(bound, request))
  <2>1. request.count \in U64 /\ request.count \in Nat
    BY SMTT(30) DEF IsRequest, U64
  <2>2. ledger_apply(bound, request) = issue(Plan(bound), request.count, MinIssue, MaxIssue)
    BY DEF ledger_apply
  <2>3. Planned(bound, ledger_apply(bound, request), request.count)
    BY <1>6, <2>1, <2>2, MutationsPlanned
  <2>4. \/ Books(bound, d.account, 0)
        \/ d.applied = TRUE /\ d.decided = TRUE /\ Books(bound, d.account, request.count)
    BY <1>6, <1>9, <2>1, <2>3, SettleBooks
  <2>5. \/ Books(a, d.account, 0)
        \/ d.applied = TRUE /\ d.decided = TRUE /\ Books(a, d.account, request.count)
    BY <1>5, <2>4, BooksThen
  <2> QED BY <2>5 DEF Booked, d
<1> QED BY <1>4, <1>7, <1>8, <1>9

\* A Reconcile is no matter of the books.
LEMMA ReconcileBooked ==
  ASSUME NEW a, Reconciled(a), NEW request, NEW nonce
  PROVE  Booked(a, reconcile(a, request, nonce), request)
<1> DEFINE who == request.incarnation
           old == record_of(a, who)
           new == [old EXCEPT !.state = "Reconciled", !.reconciled_epoch = a.epoch,
                              !.reconciled_generation = a.generation,
                              !.reconciliation_proof = request.proof]
           m   == with_record(a, who, new)
           d   == reconcile(a, request, nonce)
<1>0. Shaped(a)
  BY DEF Reconciled
<1>1. \/ d = undecided(a, "ReconciliationRequired")
      \/ d = decided_applied(a, m, request, Unset)
  BY DEF reconcile
<1>2. DOMAIN old = RecordFields
  BY <1>0, RecordShape
<1>3. DOMAIN new = RecordFields
  BY <1>2
<1> HIDE DEF new, d
<1>4. SameBooks(a, m) /\ Shaped(m)
  BY <1>0, <1>3, WithRecordBooks
<1> HIDE DEF m
<1>5. SameBooks(m, decided_applied(a, m, request, Unset).account)
  BY <1>4, VerdictBooks
<1>6. SameBooks(a, undecided(a, "ReconciliationRequired").account)
  BY <1>0, VerdictBooks
<1>7. SameBooks(a, decided_applied(a, m, request, Unset).account)
  BY <1>4, <1>5, BooksThen
<1>8. SameBooks(a, d.account)
  BY <1>1, <1>6, <1>7
<1> QED BY <1>8, SameBooked DEF d

\* Every data operation.
LEMMA DataBooked ==
  ASSUME NEW a, Reconciled(a), NEW request, IsRequest(request), request.op \in DataOps,
         admission(a, request) = "Ok", NEW nonce
  PROVE  Booked(a, decide_data(a, request, nonce), request)
<1>1. CASE request.op = "Reconcile"
  <2>1. decide_data(a, request, nonce) = reconcile(a, request, nonce)
    BY <1>1 DEF decide_data
  <2> QED BY <2>1, ReconcileBooked
<1>2. CASE request.op = "Issue"
  <2>1. decide_data(a, request, nonce) = decide_issue(a, request)
    BY <1>2 DEF decide_data
  <2>2. known(a, request.incarnation)
    BY <1>2, Admitted
  <2> QED BY <1>2, <2>1, <2>2, IssueBooked
<1>3. CASE request.op \notin {"Reconcile", "Issue"}
  <2> DEFINE plan == ledger_apply(a, request)
  <2>1. decide_data(a, request, nonce) = settle(a, a, request, plan)
    BY <1>3 DEF decide_data
  <2>2. request.op \in {"Consume", "Return", "Protect", "Unprotect"}
    BY <1>3 DEF DataOps
  <2>3. request.count \in U64
    BY DEF IsRequest
  <2>4. Planned(a, refuse(Plan(a), "PolicyRefused"), 0)
    <3>1. PlanReady(a.capacity, a.totals, Plan(a))
      BY PlanFacts DEF Reconciled, Plan
    <3>2. refuse(Plan(a), "PolicyRefused").status # "Ok"
      BY <3>1 DEF PlanReady, LedgerReason
    <3> QED BY <3>2 DEF Planned
  <2>5. \/ plan = consume(Plan(a), request.count) \/ plan = give_back(Plan(a), request.count)
        \/ plan = refuse(Plan(a), "PolicyRefused")
        \/ plan = protect(Plan(a), request.count, AllowProtect)
        \/ plan = unprotect(Plan(a), request.count)
    BY <2>2 DEF ledger_apply
  <2> HIDE DEF plan
  <2>6. Planned(a, plan, 0)
    BY <2>3, <2>4, <2>5, MutationsPlanned
  <2> QED BY <2>1, <2>6, SettleBooked
<1> QED BY <1>1, <1>2, <1>3

\* Neither is the latch.
LEMMA LatchBooked ==
  ASSUME NEW a, Reconciled(a), NEW request
  PROVE  Booked(a, exhaust(a, request), request) /\ Booked(a, clear_exhaustion(a, request), request)
<1>0. Shaped(a)
  BY DEF Reconciled
<1>1. ASSUME NEW latch
      PROVE  SameBooks(a, decided_applied(a, [a EXCEPT !.hard_exhausted = latch], request, request.target).account)
  <2> DEFINE m == [a EXCEPT !.hard_exhausted = latch]
  <2>1. DOMAIN a = AccountFields
        /\ {"incarnations", "capacity", "totals", "window", "generation"} \subseteq AccountFields
    BY <1>0 DEF Shaped, AccountFields
  <2>2. DOMAIN m = AccountFields /\ m.incarnations = a.incarnations /\ SameBooks(a, m)
    BY <2>1 DEF SameBooks
  <2> HIDE DEF m
  <2>3. Shaped(m)
    BY <1>0, <2>2 DEF Shaped
  <2>4. SameBooks(m, decided_applied(a, m, request, request.target).account)
    BY <2>3, VerdictBooks
  <2>5. SameBooks(a, decided_applied(a, m, request, request.target).account)
    BY <2>2, <2>4, BooksThen
  <2> QED BY <2>5 DEF m
<1>2. \/ exhaust(a, request) = decided_refusal(a, request, "ExhaustedHard")
      \/ exhaust(a, request) = undecided(a, "PolicyRefused")
      \/ exhaust(a, request) = decided_applied(a, [a EXCEPT !.hard_exhausted = TRUE], request, request.target)
  BY DEF exhaust
<1>3. \/ clear_exhaustion(a, request) = decided_refusal(a, request, "NotExhausted")
      \/ clear_exhaustion(a, request) = decided_applied(a, [a EXCEPT !.hard_exhausted = FALSE], request, request.target)
  BY DEF clear_exhaustion
<1>4. \A reason : /\ SameBooks(a, decided_refusal(a, request, reason).account)
                  /\ SameBooks(a, undecided(a, reason).account)
  BY <1>0, VerdictBooks
<1>5. SameBooks(a, exhaust(a, request).account)
  BY <1>1, <1>2, <1>4
<1>6. SameBooks(a, clear_exhaustion(a, request).account)
  BY <1>1, <1>3, <1>4
<1> QED BY <1>5, <1>6, SameBooked

\* The end of an era quarantines everything in flight: nothing stays live.
LEMMA EraBooked ==
  ASSUME NEW a, Reconciled(a), NEW request
  PROVE  Booked(a, end_era(a, request), request)
<1> DEFINE next_epoch == IF request.op = "Rotate" THEN request.count ELSE a.epoch + 1
           plan == quarantine_in_flight(Plan(a))
           f    == forget_liveness(a)
           m    == [f EXCEPT !.totals = plan.totals, !.epoch = next_epoch, !.generation = @ + 1]
           d    == end_era(a, request)
<1>0. Shaped(a) /\ Sound(a.capacity, a.totals)
  BY DEF Reconciled
<1>1. \/ \E reason : d = undecided(a, reason)
      \/ d = decided_applied(a, m, request, request.target)
  BY DEF end_era
<1>2. CASE \E reason : d = undecided(a, reason)
  <2>1. SameBooks(a, d.account)
    BY <1>0, <1>2, VerdictBooks
  <2> QED BY <2>1, SameBooked
<1>3. CASE d = decided_applied(a, m, request, request.target)
  <2>1. Keeps(a, f) /\ Shaped(f) /\ f.window = a.window
    BY <1>0, ForgetLiveness DEF Keeps
  <2>2. f.capacity = a.capacity /\ f.generation = a.generation
    <3>1. "capacity" \in AccountFields \ {"incarnations"} /\ "generation" \in AccountFields \ {"incarnations"}
      BY DEF AccountFields
    <3> QED BY <1>0, <3>1 DEF forget_liveness, Shaped
  <2>3. /\ DOMAIN f = AccountFields
        /\ {"incarnations", "capacity", "totals", "window", "epoch", "generation"} \subseteq AccountFields
    BY <2>1 DEF Shaped, AccountFields
  <2>4. /\ DOMAIN m = AccountFields /\ m.incarnations = f.incarnations /\ m.capacity = f.capacity
        /\ m.window = f.window /\ m.totals = plan.totals /\ m.generation = f.generation + 1
    BY <2>3
  <2> HIDE DEF m, f, plan, d
  <2>5. Shaped(m)
    BY <2>1, <2>4 DEF Shaped
  <2>6. plan.totals = AfterQuarantine(a.totals) /\ Sound(a.capacity, AfterQuarantine(a.totals))
    BY <1>0, QuarantineEffect, SMTT(30) DEF Plan, plan
  <2>7. Live(AfterQuarantine(a.totals)) = 0
    BY <1>0, SMTT(30) DEF AfterQuarantine, Live, Flight, Sound, CreditTotals, U64
  <2>8. NewEra(a, m)
    BY <2>1, <2>2, <2>4, <2>6, <2>7 DEF NewEra
  <2>9. SameBooks(m, d.account) /\ d.decided = TRUE
    BY <1>3, <2>5, VerdictBooks
  <2>10. NewEra(a, d.account)
    BY <2>8, <2>9, BooksThen
  <2> QED BY <2>9, <2>10 DEF Booked, d
<1> QED BY <1>1, <1>2, <1>3

\* A Fence and a RetireIncarnation are no matter of the books.
LEMMA FenceBooked ==
  ASSUME NEW a, Reconciled(a), NEW request
  PROVE  Booked(a, fence(a, request), request) /\ Booked(a, retire_incarnation(a, request), request)
<1> DEFINE target  == request.target
           old     == record_of(a, target)
           marked  == [old EXCEPT !.state = "Fenced"]
           retired == [a.incarnations[target] EXCEPT !.state = "Retired"]
           listed  == with_record(a, target, old)
           fenced  == with_record(a, target, marked)
           gone    == with_record(a, target, retired)
           m       == [fenced EXCEPT !.fences = Append(@, target)]
           d       == fence(a, request)
           r       == retire_incarnation(a, request)
<1>0. Shaped(a)
  BY DEF Reconciled
<1>1. \/ \E reason : d = undecided(a, reason)
      \/ \E reason : d = decided_refusal(a, request, reason)
      \/ \E reason : d = undecided(listed, reason)
      \/ d = decided_applied(a, m, request, target)
  BY DEF fence
<1>2. \/ \E reason : r = undecided(a, reason)
      \/ \E reason : r = decided_refusal(a, request, reason)
      \/ known(a, target) /\ r = decided_applied(a, gone, request, target)
  BY DEF retire_incarnation
<1>3. DOMAIN old = RecordFields
  BY <1>0, RecordShape
<1>4. DOMAIN marked = RecordFields
  BY <1>3
<1>5. known(a, target) => DOMAIN retired = RecordFields
  BY <1>3 DEF record_of
<1> HIDE DEF old, marked, retired, d, r
<1>6. /\ SameBooks(a, listed) /\ Shaped(listed)
      /\ SameBooks(a, fenced) /\ Shaped(fenced)
      /\ known(a, target) => SameBooks(a, gone) /\ Shaped(gone)
  BY <1>0, <1>3, <1>4, <1>5, WithRecordBooks
<1> HIDE DEF listed, fenced, gone
<1>7. SameBooks(fenced, m) /\ Shaped(m)
  <2>1. /\ DOMAIN fenced = AccountFields
        /\ {"incarnations", "capacity", "totals", "window", "generation", "fences"} \subseteq AccountFields
    BY <1>6 DEF Shaped, AccountFields
  <2>2. DOMAIN m = AccountFields /\ m.incarnations = fenced.incarnations /\ SameBooks(fenced, m)
    BY <2>1 DEF SameBooks
  <2> QED BY <1>6, <2>2 DEF Shaped
<1> HIDE DEF m
<1>8. \A b, reason : Shaped(b) => /\ SameBooks(b, decided_refusal(b, request, reason).account)
                                  /\ SameBooks(b, undecided(b, reason).account)
                                  /\ SameBooks(b, decided_applied(a, b, request, target).account)
  BY VerdictBooks
<1>9. SameBooks(a, d.account)
  <2>1. CASE d = decided_applied(a, m, request, target)
    BY <1>6, <1>7, <1>8, <2>1, BooksThen
  <2>2. CASE \E reason : d = undecided(listed, reason)
    BY <1>6, <1>8, <2>2, BooksThen
  <2> QED BY <1>0, <1>1, <1>8, <2>1, <2>2
<1>10. SameBooks(a, r.account)
  <2>1. CASE known(a, target) /\ r = decided_applied(a, gone, request, target)
    BY <1>6, <1>8, <2>1, BooksThen
  <2> QED BY <1>0, <1>2, <1>8, <2>1
<1> QED BY <1>9, <1>10, SameBooked DEF d, r

\* Every control operation.
LEMMA ControlBooked ==
  ASSUME NEW a, Reconciled(a), NEW request, IsRequest(request), request.op \in ControlOps
  PROVE  Booked(a, decide_control(a, request), request)
<1> DEFINE d == decide_control(a, request)
<1>0. request.count \in U64
  BY DEF IsRequest
<1>1. \A reason : Booked(a, undecided(a, reason), request)
  <2>1. \A reason : SameBooks(a, undecided(a, reason).account)
    BY VerdictBooks DEF Reconciled
  <2> QED BY <2>1, SameBooked
<1>2. CASE request.expected = "stale"
  <2>1. d = undecided(a, "StaleEvidence")
    BY <1>2 DEF decide_control
  <2> QED BY <1>1, <2>1
<1>3. CASE request.expected # "stale"
  <2>1. CASE request.op \in {"Exhaust", "ClearExhaustion"}
    <3>1. d = exhaust(a, request) \/ d = clear_exhaustion(a, request)
      BY <1>3, <2>1 DEF decide_control
    <3> QED BY <3>1, LatchBooked
  <2>2. CASE request.op = "SetCapacity"
    <3>1. d = settle(a, a, request, set_capacity(Plan(a), request.count, MaxCapacity, AllowGrowth))
      BY <1>3, <2>2 DEF decide_control
    <3>2. Planned(a, set_capacity(Plan(a), request.count, MaxCapacity, AllowGrowth), 0)
      BY <1>0, MutationsPlanned
    <3> QED BY <3>1, <3>2, SettleBooked
  <2>3. CASE request.op = "Retire"
    <3>1. d = settle(a, a, request, retire_stale(Plan(a), request.count))
      BY <1>3, <2>3 DEF decide_control
    <3>2. Planned(a, retire_stale(Plan(a), request.count), 0)
      BY <1>0, MutationsPlanned
    <3> QED BY <3>1, <3>2, SettleBooked
  <2>4. CASE request.op \in {"AdvanceEpoch", "Rotate"}
    <3>1. d = end_era(a, request)
      BY <1>3, <2>4 DEF decide_control
    <3> QED BY <3>1, EraBooked
  <2>5. CASE request.op = "Revalidate"
    <3>1. d = revalidate(a, request)
      BY <1>3, <2>5 DEF decide_control
    <3>2. \/ d = undecided(a, "PolicyRefused")
          \/ d = settle(a, a, request, revalidate_to_returned(Plan(a), request.count))
          \/ d = settle(a, a, request, revalidate_to_consumed(Plan(a), request.count))
      BY <3>1 DEF revalidate
    <3>3. /\ Planned(a, revalidate_to_returned(Plan(a), request.count), 0)
          /\ Planned(a, revalidate_to_consumed(Plan(a), request.count), 0)
      BY <1>0, MutationsPlanned
    <3> QED BY <1>1, <3>2, <3>3, SettleBooked
  <2>6. CASE request.op \in {"Fence", "RetireIncarnation"}
    <3>1. d = fence(a, request) \/ d = retire_incarnation(a, request)
      BY <1>3, <2>6 DEF decide_control
    <3> QED BY <3>1, FenceBooked
  <2> QED BY <2>1, <2>2, <2>3, <2>4, <2>5, <2>6 DEF ControlOps
<1> QED BY <1>2, <1>3

\* Every operation on an account.
LEMMA DecideBooked ==
  ASSUME NEW a, Reconciled(a), NEW request, IsRequest(request),
         request.op \in DataOps \cup ControlOps, admission(a, request) = "Ok", NEW nonce
  PROVE  Booked(a, decide(a, request, nonce), request)
<1>1. CASE request.op \in ControlOps
  <2>1. decide(a, request, nonce) = decide_control(a, request)
    BY <1>1 DEF decide
  <2> QED BY <1>1, <2>1, ControlBooked
<1>2. CASE request.op \notin ControlOps
  <2>1. decide(a, request, nonce) = decide_data(a, request, nonce)
    BY <1>2 DEF decide
  <2> QED BY <1>2, <2>1, DataBooked
<1> QED BY <1>1, <1>2

-----------------------------------------------------------------------------
(* What a history has issued in an era.                                    *)

\* Induction over the naturals, for a set of them.
LEMMA NatSetInduction ==
  ASSUME NEW S, S \subseteq Nat, 0 \in S, \A n \in S : n + 1 \in S
  PROVE  S = Nat
<1> SUFFICES ASSUME Nat \ S # {} PROVE FALSE
  OBVIOUS
<1> DEFINE R == OpToRel(<, Nat)
<1>1. \A x, y \in Nat : <<x, y>> \in R <=> x < y
  BY DEF OpToRel
<1>2. IsWellFoundedOn(R, Nat)
  BY NatLessThanWellFounded DEF OpToRel
<1> HIDE DEF R
<1>3. PICK x \in Nat \ S : \A y \in Nat \ S : ~ (<<y, x>> \in R)
  BY <1>2, WFMin
<1>4. x # 0 /\ x - 1 \in Nat /\ x - 1 < x /\ (x - 1) + 1 = x
  BY <1>3, SMTT(30)
<1>5. x - 1 \in S
  BY <1>1, <1>3, <1>4
<1> QED BY <1>3, <1>4, <1>5

\* f adds up the first weights w, up to n of them.
Sums(f, n, w) == f = [k \in 0..n |-> IF k = 0 THEN 0 ELSE f[k - 1] + w[k]]

\* The equation of a running sum has a solution.
LEMMA SumExists ==
  ASSUME NEW w, NEW n \in Nat
  PROVE  \E f : Sums(f, n, w)
<1> DEFINE S == {m \in Nat : \E f : Sums(f, m, w)}
<1>1. 0 \in S
  <2> DEFINE zero == [k \in 0..0 |-> 0]
  <2>1. Sums(zero, 0, w)
    BY SMTT(30) DEF Sums
  <2> QED BY <2>1
<1>2. ASSUME NEW m \in S PROVE m + 1 \in S
  <2>1. m \in Nat
    BY <1>2
  <2>2. PICK f : Sums(f, m, w)
    BY <1>2
  <2> DEFINE g == [k \in 0..(m + 1) |-> IF k = m + 1 THEN f[m] + w[m + 1] ELSE f[k]]
  <2>3. \A k \in 0..m : f[k] = IF k = 0 THEN 0 ELSE f[k - 1] + w[k]
    BY <2>1, <2>2 DEF Sums
  <2>4. \A k \in 0..(m + 1) : g[k] = IF k = 0 THEN 0 ELSE g[k - 1] + w[k]
    BY <2>1, <2>3, SMTT(30)
  <2>5. g = [k \in 0..(m + 1) |-> g[k]]
    OBVIOUS
  <2> HIDE DEF g
  <2>6. Sums(g, m + 1, w)
    BY <2>4, <2>5 DEF Sums
  <2> QED BY <2>1, <2>6, SMTT(30)
<1> HIDE DEF S
<1>3. S = Nat
  BY <1>1, <1>2, NatSetInduction DEF S
<1> QED BY <1>3 DEF S

\* Two running sums agree as far as their weights do; they stay in Nat.
LEMMA SumUnique ==
  ASSUME NEW f, NEW g, NEW v, NEW w, NEW n \in Nat, NEW m \in Nat, n <= m,
         Sums(f, n, v), Sums(g, m, w), \A k \in 1..n : v[k] = w[k] /\ v[k] \in Nat
  PROVE  \A k \in 0..n : f[k] = g[k] /\ f[k] \in Nat
<1> DEFINE S == {k \in Nat : k <= n => f[k] = g[k] /\ f[k] \in Nat}
<1>1. \A k \in 0..n : /\ f[k] = IF k = 0 THEN 0 ELSE f[k - 1] + v[k]
                      /\ g[k] = IF k = 0 THEN 0 ELSE g[k - 1] + w[k]
  BY SMTT(30) DEF Sums
<1>2. 0 \in S
  BY <1>1, SMTT(30)
<1>3. ASSUME NEW k \in S PROVE k + 1 \in S
  <2>1. k \in Nat /\ k + 1 \in Nat
    BY <1>3, SMTT(30)
  <2>2. CASE k + 1 <= n
    <3>1. f[k] = g[k] /\ f[k] \in Nat
      BY <1>3, <2>1, <2>2, SMTT(30)
    <3>2. k + 1 \in 1..n /\ k + 1 \in 0..n /\ (k + 1) - 1 = k /\ k + 1 # 0
      BY <2>1, <2>2, SMTT(30)
    <3>3. f[k + 1] = f[k] + v[k + 1] /\ g[k + 1] = g[k] + w[k + 1]
      BY <1>1, <3>2
    <3>4. v[k + 1] = w[k + 1] /\ v[k + 1] \in Nat
      BY <3>2
    <3>5. f[k + 1] = g[k + 1] /\ f[k + 1] \in Nat
      BY <3>1, <3>3, <3>4, SMTT(30)
    <3> QED BY <2>1, <3>5
  <2>3. CASE ~(k + 1 <= n)
    BY <2>1, <2>3
  <2> QED BY <2>2, <2>3
<1> HIDE DEF S
<1>4. S = Nat
  BY <1>2, <1>3, NatSetInduction DEF S
<1> QED BY <1>4, SMTT(30) DEF S

\* What a sequence of decisions issued in an era, decision by decision and in all.
Weights(h, generation) == [n \in 1..Len(h) |-> IssuedBy(h[n], generation)]

Issued(h, generation) == IssuedUpTo(h, generation)[Len(h)]

Tallied(h) == IsSeq(h) /\ \A n \in DOMAIN h : h[n].request.count \in Nat

\* The length and the domain of a sequence.
LEMMA SeqDomain ==
  ASSUME NEW h, IsSeq(h)
  PROVE  Len(h) \in Nat /\ DOMAIN h = 1..Len(h)
<1>1. PICK S : h \in Seq(S)
  BY DEF IsSeq
<1> QED BY <1>1, SMTT(30)

\* The recursive function IssuedUpTo satisfies its equation.
LEMMA IssuedSums ==
  ASSUME NEW h, IsSeq(h), NEW generation
  PROVE  Sums(IssuedUpTo(h, generation), Len(h), Weights(h, generation))
<1> DEFINE w == Weights(h, generation)
           E(f) == f = [n \in 0..Len(h) |->
                          IF n = 0 THEN 0 ELSE f[n - 1] + IssuedBy(h[n], generation)]
<1>1. Len(h) \in Nat
  BY SeqDomain
<1>2. \A n \in 0..Len(h) : n # 0 => w[n] = IssuedBy(h[n], generation)
  BY <1>1, SMTT(30) DEF Weights
<1>3. ASSUME NEW f PROVE E(f) <=> Sums(f, Len(h), w)
  <2> HIDE DEF w
  <2>1. [n \in 0..Len(h) |-> IF n = 0 THEN 0 ELSE f[n - 1] + IssuedBy(h[n], generation)]
          = [n \in 0..Len(h) |-> IF n = 0 THEN 0 ELSE f[n - 1] + w[n]]
    BY <1>2
  <2> QED BY <2>1 DEF Sums
<1>4. \E f : E(f)
  <2> HIDE DEF w, E
  <2> QED BY <1>1, <1>3, SumExists
<1>5. IssuedUpTo(h, generation) = CHOOSE f : E(f)
  BY DEF IssuedUpTo
<1> HIDE DEF E
<1>6. E(IssuedUpTo(h, generation))
  BY <1>4, <1>5
<1> QED BY <1>3, <1>6

\* A decision adds what it issued; what was issued is a number.
LEMMA IssuedAppend ==
  ASSUME NEW h, Tallied(h), NEW e, e.request.count \in Nat, NEW generation
  PROVE  /\ Issued(h, generation) \in Nat
         /\ Issued(Append(h, e), generation) = Issued(h, generation) + IssuedBy(e, generation)
         /\ IssuedBy(e, generation) \in Nat
<1> DEFINE g == Append(h, e)
           n == Len(h)
           f == IssuedUpTo(h, generation)
           k == IssuedUpTo(g, generation)
           v == Weights(h, generation)
           w == Weights(g, generation)
<1>1. Extends(g, h, e)
  BY AppendExtends DEF Tallied
<1> HIDE DEF g
<1>2. /\ n \in Nat /\ Len(g) = n + 1 /\ g[n + 1] = e /\ IsSeq(g)
      /\ \A i \in 1..n : g[i] = h[i] /\ h[i].request.count \in Nat
  BY <1>1 DEF Extends, Tallied
<1>3. Sums(f, n, v) /\ Sums(k, n + 1, w)
  BY <1>2, IssuedSums DEF Tallied
<1>4. \A i \in 1..n : v[i] = w[i] /\ v[i] \in Nat
  BY <1>2, SMTT(30) DEF Weights, IssuedBy
<1>5. w[n + 1] = IssuedBy(e, generation) /\ IssuedBy(e, generation) \in Nat
  BY <1>2, SMTT(30) DEF Weights, IssuedBy
<1> HIDE DEF f, k, v, w
<1>6. f[n] = k[n] /\ f[n] \in Nat
  <2>1. n \in 0..n /\ n <= n + 1 /\ n + 1 \in Nat
    BY <1>2, SMTT(30)
  <2> QED BY <1>2, <1>3, <1>4, <2>1, SumUnique
<1>7. k[n + 1] = k[n] + w[n + 1]
  BY <1>2, <1>3, SMTT(30) DEF Sums
<1>8. Issued(h, generation) = f[n] /\ Issued(g, generation) = k[n + 1]
  BY <1>2 DEF Issued, f, k
<1> QED BY <1>5, <1>6, <1>7, <1>8 DEF g

\* Before any decision nothing was issued.
LEMMA IssuedAtFirst ==
  ASSUME NEW generation
  PROVE  Issued(<<>>, generation) = 0
<1>1. Sums(IssuedUpTo(<<>>, generation), Len(<<>>), Weights(<<>>, generation))
  BY IssuedSums, EmptySeq
<1>2. Len(<<>>) = 0
  OBVIOUS
<1> QED BY <1>1, <1>2, SMTT(30) DEF Issued, Sums

-----------------------------------------------------------------------------
(* The attempt window.                                                     *)

EntryFields == {"incarnation", "sequence", "attempt", "request", "reason", "applied"}

(***************************************************************************)
(* An entry of the window stands for a decision of the history: it has its *)
(* slot, and, unless a restart has forgotten them, its request and outcome.*)
(***************************************************************************)
StandsFor(entry, decision) ==
  /\ entry.incarnation = decision.request.incarnation
  /\ entry.sequence = decision.request.sequence
  /\ \/ entry.request = Unset
     \/ /\ entry.request = decision.request
        /\ entry.reason = decision.reason /\ entry.applied = decision.applied

Remembers(entry, h) ==
  DOMAIN entry = EntryFields /\ \E j \in DOMAIN h : StandsFor(entry, h[j])

WindowGood(window, h) == IsSeq(window) /\ \A i \in DOMAIN window : Remembers(window[i], h)

\* A longer history loses no decision that an entry stands for.
LEMMA RemembersMore ==
  ASSUME NEW h, NEW e, IsSeq(h), NEW entry, Remembers(entry, h)
  PROVE  Remembers(entry, Append(h, e))
<1>1. Extends(Append(h, e), h, e)
  BY AppendExtends
<1>2. \A j \in DOMAIN h : j \in DOMAIN Append(h, e) /\ Append(h, e)[j] = h[j]
  BY <1>1, SMTT(30) DEF Extends
<1> QED BY <1>2 DEF Remembers

\* publish_window_locked remembers what was decided, and is no matter of the ledger.
LEMMA PublishBooks ==
  ASSUME NEW a, Shaped(a), NEW request, NEW reason, NEW applied, known(a, request.incarnation),
         NEW h, IsSeq(h), WindowGood(a.window, h)
  PROVE  LET b == publish_window(a, request, reason, applied)
             e == Decided(request, reason, applied)
         IN  /\ b.capacity = a.capacity /\ b.totals = a.totals /\ b.generation = a.generation
             /\ WindowGood(b.window, Append(h, e))
<1> DEFINE who   == request.incarnation
           entry == [incarnation |-> who, sequence |-> request.sequence, attempt |-> request.attempt,
                     request |-> request, reason |-> reason, applied |-> applied]
           m     == [a EXCEPT !.window = insert(@, entry)]
           new   == [a.incarnations[who] EXCEPT !.last_sequence = request.sequence]
           b     == publish_window(a, request, reason, applied)
           e     == Decided(request, reason, applied)
           g     == Append(h, e)
<1>1. b = with_record(m, who, new)
  BY DEF publish_window
<1>2. /\ DOMAIN a = AccountFields
      /\ {"incarnations", "capacity", "totals", "window", "generation"} \subseteq AccountFields
  BY DEF Shaped, AccountFields
<1>3. /\ DOMAIN m = AccountFields /\ m.incarnations = a.incarnations /\ m.capacity = a.capacity
      /\ m.totals = a.totals /\ m.generation = a.generation /\ m.window = insert(a.window, entry)
  BY <1>2
<1>4. DOMAIN new = RecordFields
  BY DEF Shaped, known
<1>5. /\ DOMAIN entry = EntryFields /\ entry.incarnation = who /\ entry.sequence = request.sequence
      /\ entry.request = request /\ entry.reason = reason /\ entry.applied = applied
  BY DEF EntryFields
<1>6. e.request = request /\ e.reason = reason /\ e.applied = applied
  BY DEF Decided
<1> HIDE DEF m, new, b, entry, e
<1>7. SameBooks(m, b)
  <2>1. Shaped(m)
    BY <1>3 DEF Shaped
  <2> QED BY <1>1, <1>4, <2>1, WithRecordBooks
<1>8. Len(h) + 1 \in DOMAIN g /\ g[Len(h) + 1] = e
  <2>1. Extends(g, h, e)
    BY AppendExtends
  <2> QED BY <2>1, SMTT(30) DEF Extends
<1>9. Remembers(entry, g)
  <2>1. StandsFor(entry, g[Len(h) + 1])
    BY <1>5, <1>6, <1>8 DEF StandsFor
  <2> QED BY <1>5, <1>8, <2>1 DEF Remembers
<1> HIDE DEF g
<1>10. \A i \in DOMAIN a.window : Remembers(a.window[i], g)
  BY RemembersMore DEF WindowGood, g
<1>11. WindowGood(insert(a.window, entry), g)
  <2> DEFINE v == insert(a.window, entry)
  <2>1. IsSeq(a.window)
    BY DEF WindowGood
  <2>2. /\ IsSeq(v)
        /\ \A i \in DOMAIN v : v[i] = entry \/ \E j \in DOMAIN a.window : v[i] = a.window[j]
    BY <2>1, InsertKeeps, SMTT(30)
  <2> HIDE DEF v
  <2>3. \A i \in DOMAIN v : Remembers(v[i], g)
    BY <1>9, <1>10, <2>2
  <2> QED BY <2>2, <2>3 DEF WindowGood, v
<1> QED BY <1>3, <1>7, <1>11 DEF SameBooks, b, g, e

\* A restart forgets requests and outcomes of the window, and keeps the ledger.
LEMMA FadedBooks ==
  ASSUME NEW a, Shaped(a), NEW n, NEW h, WindowGood(a.window, h)
  PROVE  LET b == faded(a, n)
         IN  /\ b.capacity = a.capacity /\ b.totals = a.totals /\ b.generation = a.generation
             /\ WindowGood(b.window, h)
<1> DEFINE f == forget_liveness(a)
           w == a.window
           v == [i \in DOMAIN w |-> IF i <= n THEN forgotten(w[i]) ELSE w[i]]
           b == faded(a, n)
<1>1. /\ DOMAIN a = AccountFields
      /\ {"incarnations", "capacity", "totals", "window", "generation"} \subseteq AccountFields
  BY DEF Shaped, AccountFields
<1>2. /\ DOMAIN f = AccountFields /\ f.capacity = a.capacity /\ f.totals = a.totals
      /\ f.generation = a.generation
  BY <1>1 DEF forget_liveness
<1>3. b.capacity = f.capacity /\ b.totals = f.totals /\ b.generation = f.generation /\ b.window = v
  BY <1>1, <1>2 DEF faded
<1>4. ASSUME NEW entry, Remembers(entry, h) PROVE Remembers(forgotten(entry), h)
  <2>1. DOMAIN entry = EntryFields /\ {"incarnation", "sequence", "request"} \subseteq EntryFields
    BY <1>4 DEF Remembers, EntryFields
  <2>2. /\ DOMAIN forgotten(entry) = EntryFields /\ forgotten(entry).request = Unset
        /\ forgotten(entry).incarnation = entry.incarnation /\ forgotten(entry).sequence = entry.sequence
    BY <2>1 DEF forgotten
  <2> QED BY <1>4, <2>2 DEF Remembers, StandsFor
<1>5. DOMAIN v = DOMAIN w /\ \A i \in DOMAIN v : Remembers(v[i], h)
  <2>1. \A i \in DOMAIN w : v[i] = forgotten(w[i]) \/ v[i] = w[i]
    OBVIOUS
  <2>2. DOMAIN v = DOMAIN w
    OBVIOUS
  <2> HIDE DEF v
  <2> QED BY <1>4, <2>1, <2>2 DEF WindowGood
<1> HIDE DEF f, b
<1>6. IsSeq(v)
  <2>1. DOMAIN w = 1..Len(w) /\ Len(w) \in Nat
    BY SMTT(30) DEF WindowGood, IsSeq
  <2> DEFINE S == {v[i] : i \in 1..Len(w)}
  <2>2. v \in [1..Len(w) -> S]
    <3>1. v = [i \in 1..Len(w) |-> v[i]]
      BY <2>1
    <3> HIDE DEF v
    <3> QED BY <3>1
  <2> HIDE DEF v, S
  <2>3. v \in Seq(S)
    BY <2>1, <2>2, SMTT(30)
  <2> QED BY <2>3 DEF IsSeq
<1> QED BY <1>2, <1>3, <1>5, <1>6 DEF WindowGood, b

-----------------------------------------------------------------------------
(***************************************************************************)
(* The inductive invariant of the books: the counters reconcile, what is   *)
(* live was issued in this era, and the window stands for the history.     *)
(***************************************************************************)
BooksGood(a, h) ==
  /\ Sound(a.capacity, a.totals)
  /\ Live(a.totals) <= Issued(h, a.generation)
  /\ WindowGood(a.window, h)

BooksInv == account # NoAccount => BooksGood(account, history)

\* The history of an account can be tallied.
LEMMA HistoryTallied ==
  ASSUME NEW a, NEW h, IsSeq(h), HistoryGood(a, h)
  PROVE  Tallied(h)
<1>1. \A i \in DOMAIN h : h[i].request.count \in U64
  BY DEF HistoryGood, IsRequest
<1>2. U64 \subseteq Nat
  BY SMTT(30) DEF U64
<1> QED BY <1>1, <1>2 DEF Tallied

\* A request that is decided, or refused without a trace, leaves good books.
LEMMA DecideBooksGood ==
  ASSUME IInv, BooksInv, NEW op \in Ops, NEW request \in Requests(op), MayDecide(request)
  PROVE  LET o == Outcome(request, decide(account, request, boot)) IN BooksGood(o.account, o.history)
<1> DEFINE d == decide(account, request, boot)
           m == d.account
           b == publish_window(m, request, d.reason, d.applied)
           e == Decided(request, d.reason, d.applied)
           o == Outcome(request, d)
           k == Issued(history, account.generation)
<1>1. IsRequest(request) /\ request.op \in DataOps \cup ControlOps
  BY RequestSent
<1>2. account # NoAccount /\ admission(account, request) = "Ok" /\ serving = TRUE
  BY DEF MayDecide, IInv
<1>3. /\ IsSeq(history) /\ Shaped(account) /\ HistoryGood(account, history)
      /\ AccountGood(account, TRUE, boot)
  BY <1>2 DEF IInv, Good, AccountGood
<1>4. /\ Sound(account.capacity, account.totals) /\ Live(account.totals) <= k
      /\ WindowGood(account.window, history) /\ Reconciled(account)
  BY <1>2, <1>3 DEF BooksInv, BooksGood, Reconciled
<1>5. Booked(account, d, request)
  BY <1>1, <1>2, <1>4, DecideBooked
<1>6. Shaped(m) /\ (d.decided => known(m, request.incarnation))
  BY <1>1, <1>2, <1>3, DecideEffect, OutcomeGood DEF AccountGood
<1>7. Tallied(history) /\ request.count \in Nat /\ request.generation = account.generation
  <2>1. request.count \in Nat
    BY <1>1, SMTT(30) DEF IsRequest, U64
  <2> QED BY <1>2, <1>3, <2>1, HistoryTallied, Admitted
<1>8. e.request = request /\ e.reason = d.reason /\ e.applied = d.applied
  BY DEF Decided
<1> HIDE DEF d, e
<1>9. \A generation : /\ Issued(history, generation) \in Nat
                      /\ IssuedBy(e, generation) \in Nat
                      /\ Issued(Append(history, e), generation)
                           = Issued(history, generation) + IssuedBy(e, generation)
  BY <1>7, <1>8, IssuedAppend
<1>10. m.window = account.window /\ Sound(m.capacity, m.totals)
  BY <1>5 DEF Booked, Books, NewEra
<1>11. Live(account.totals) \in Nat /\ Live(m.totals) \in Nat /\ k \in Nat
  BY <1>4, <1>9, <1>10, LiveNat
<1>12. CASE d.decided
  <2>1. o.account = b /\ o.history = Append(history, e)
    BY <1>12 DEF Outcome, e
  <2>2. /\ b.capacity = m.capacity /\ b.totals = m.totals /\ b.generation = m.generation
        /\ WindowGood(b.window, Append(history, e))
    BY <1>3, <1>4, <1>6, <1>10, <1>12, PublishBooks DEF e
  <2> HIDE DEF b, o
  <2>3. Live(m.totals) <= Issued(Append(history, e), m.generation)
    <3>1. CASE Books(account, m, 0)
      <4>1. m.generation = account.generation /\ Live(m.totals) <= Live(account.totals) + 0
        BY <3>1 DEF Books
      <4>2. Issued(Append(history, e), account.generation) = k + IssuedBy(e, account.generation)
            /\ IssuedBy(e, account.generation) \in Nat
        BY <1>9
      <4> HIDE DEF m, k
      <4> QED BY <1>4, <1>11, <4>1, <4>2, SMTT(30)
    <3>2. CASE /\ request.op = "Issue" /\ d.applied = TRUE /\ d.decided = TRUE
               /\ Books(account, m, request.count)
      <4>1. m.generation = account.generation /\ Live(m.totals) <= Live(account.totals) + request.count
        BY <3>2 DEF Books
      <4>2. IssuedBy(e, account.generation) = request.count
        BY <1>7, <1>8, <3>2 DEF IssuedBy
      <4>3. Issued(Append(history, e), account.generation) = k + request.count
        BY <1>9, <4>2
      <4> HIDE DEF m, k
      <4> QED BY <1>4, <1>7, <1>11, <4>1, <4>3, SMTT(30)
    <3>3. CASE NewEra(account, m)
      <4>1. Live(m.totals) = 0
        BY <3>3 DEF NewEra
      <4>2. /\ Issued(history, m.generation) \in Nat /\ IssuedBy(e, m.generation) \in Nat
            /\ Issued(Append(history, e), m.generation)
                 = Issued(history, m.generation) + IssuedBy(e, m.generation)
        BY <1>9
      <4> HIDE DEF m
      <4> QED BY <4>1, <4>2, SMTT(30)
    <3> QED BY <1>5, <3>1, <3>2, <3>3 DEF Booked
  <2>4. BooksGood(b, Append(history, e))
    BY <1>10, <2>2, <2>3 DEF BooksGood
  <2> QED BY <2>1, <2>4 DEF o, d
<1>13. CASE ~d.decided
  <2>1. o.account = m /\ o.history = history
    BY <1>13 DEF Outcome
  <2>2. Books(account, m, 0)
    BY <1>5, <1>13 DEF Booked
  <2>3. m.generation = account.generation /\ Live(m.totals) <= Live(account.totals) + 0
    BY <2>2 DEF Books
  <2> HIDE DEF o
  <2>4. Live(m.totals) <= k
    <3> HIDE DEF m, k
    <3> QED BY <1>4, <1>11, <2>3, SMTT(30)
  <2>5. BooksGood(m, history)
    BY <1>4, <1>10, <2>3, <2>4 DEF BooksGood
  <2> QED BY <2>1, <2>5 DEF o, d
<1> QED BY <1>12, <1>13

\* Opening an account leaves good books.
LEMMA OpenBooksGood ==
  ASSUME IInv, NEW request \in Opens, MayOpen(request)
  PROVE  BooksGood(OpenOutcome(request).account, OpenOutcome(request).history)
<1> DEFINE a == new_account(request)
           b == publish_window(a, request, "Ok", TRUE)
           e == Decided(request, "Ok", TRUE)
           who == request.incarnation
           rec == [FreshRecord EXCEPT !.state = "Reconciled",
                     !.reconciled_epoch = request.epoch, !.reconciled_generation = request.generation,
                     !.reconciliation_proof = request.proof, !.committed_ops = 1]
<1>1. IsRequest(request)
  BY OpenSent
<1>2. history = <<>>
  BY DEF MayOpen, IInv, Good
<1>3. DOMAIN rec = RecordFields
  BY DEF FreshRecord, RecordFields
<1> HIDE DEF rec
<1>4. /\ DOMAIN a = AccountFields /\ a.incarnations = [i \in {who} |-> rec]
      /\ a.capacity = InitialCapacity /\ a.totals = NoTotals /\ a.window = <<>>
  BY DEF new_account, AccountFields, rec
<1>5. OpenOutcome(request).account = b /\ OpenOutcome(request).history = Append(history, e)
  BY DEF OpenOutcome
<1> HIDE DEF a
<1>6. Shaped(a) /\ known(a, who)
  BY <1>3, <1>4 DEF Shaped, known
<1>7. Sound(a.capacity, a.totals) /\ Live(a.totals) = 0
  <2>1. InitialCapacity \in U64 /\ 0 \in U64
    BY AccountAssumption, MaxU64Assumption, SMTT(30) DEF U64
  <2>2. NoTotals \in CreditTotals
    BY <2>1 DEF NoTotals, CreditTotals
  <2>3. check_invariants(InitialCapacity, NoTotals) = "Ok"
    BY <2>1, <2>2, CheckMeaning, SMTT(30) DEF NoTotals, U64
  <2>4. Live(NoTotals) = 0
    BY SMTT(30) DEF NoTotals, Live, Flight
  <2> QED BY <1>4, <2>1, <2>2, <2>3, <2>4 DEF Sound
<1>8. WindowGood(a.window, history) /\ IsSeq(history)
  <2>1. DOMAIN <<>> = {}
    BY SMTT(30)
  <2> QED BY <1>2, <1>4, <2>1, EmptySeq DEF WindowGood
<1>9. /\ b.capacity = a.capacity /\ b.totals = a.totals /\ b.generation = a.generation
      /\ WindowGood(b.window, Append(history, e))
  BY <1>6, <1>8, PublishBooks
<1>10. Issued(Append(history, e), a.generation) \in Nat
  <2>1. Tallied(history)
    BY <1>2, <1>8, SMTT(30) DEF Tallied
  <2>2. e.request.count \in Nat
    BY <1>1, SMTT(30) DEF Decided, IsRequest, U64
  <2> HIDE DEF e
  <2>3. /\ Issued(history, a.generation) \in Nat /\ IssuedBy(e, a.generation) \in Nat
        /\ Issued(Append(history, e), a.generation)
             = Issued(history, a.generation) + IssuedBy(e, a.generation)
    BY <2>1, <2>2, IssuedAppend
  <2> QED BY <2>3, SMTT(30)
<1> HIDE DEF b, e
<1>11. Live(b.totals) <= Issued(Append(history, e), b.generation)
  BY <1>7, <1>9, <1>10, SMTT(30)
<1> QED BY <1>5, <1>7, <1>9, <1>11 DEF BooksGood

\* What a boot leaves of an account with good books has good books.
LEMMA EndBootBooksGood ==
  ASSUME NEW a, Shaped(a), NEW h, BooksGood(a, h), NEW n
  PROVE  BooksGood(faded(a, n), h)
<1>1. /\ faded(a, n).capacity = a.capacity /\ faded(a, n).totals = a.totals
      /\ faded(a, n).generation = a.generation /\ WindowGood(faded(a, n).window, h)
  BY FadedBooks DEF BooksGood
<1> QED BY <1>1 DEF BooksGood

\* A boot that goes on, or ends, with good books.
LEMMA BecomeBooks ==
  ASSUME NEW o, Shaped(o.account), BooksGood(o.account, o.history), Become(o) \/ EndBoot(o)
  PROVE  BooksInv'
<1>1. CASE Become(o)
  BY <1>1 DEF Become, BooksInv
<1>2. CASE EndBoot(o)
  <2>1. history' = o.history
        /\ (account' = NoAccount \/ \E n : account' = faded(o.account, n))
    BY <1>2 DEF EndBoot
  <2>2. \A n : BooksGood(faded(o.account, n), o.history)
    BY EndBootBooksGood
  <2> QED BY <2>1, <2>2 DEF BooksInv
<1> QED BY <1>1, <1>2

\* The invariant of the books is inductive, given the one of the authority.
LEMMA BooksStep ==
  ASSUME DOMAIN NoAccount # AccountFields, IInv, BooksInv, [Next]_vars
  PROVE  BooksInv'
<1>1. CASE UNCHANGED vars
  BY <1>1 DEF vars, BooksInv
<1>2. ASSUME NEW request \in Opens, Open(request) \/ InterruptedOpen(request) PROVE BooksInv'
  <2> DEFINE o == OpenOutcome(request)
  <2>1. MayOpen(request) /\ (Become(o) \/ EndBoot(o))
    BY <1>2 DEF Open, InterruptedOpen
  <2>2. Shaped(o.account) /\ BooksGood(o.account, o.history)
    BY <2>1, OpenOK, OpenBooksGood DEF OutcomeOK, AccountGood
  <2> HIDE DEF o
  <2> QED BY <2>1, <2>2, BecomeBooks
<1>3. ASSUME NEW op \in Ops, NEW request \in Requests(op), Decide(request) \/ Interrupted(request)
      PROVE  BooksInv'
  <2> DEFINE o == Outcome(request, decide(account, request, boot))
  <2>1. MayDecide(request) /\ (Become(o) \/ EndBoot(o))
    BY <1>3 DEF Decide, Interrupted
  <2>2. Shaped(o.account) /\ BooksGood(o.account, o.history)
    BY <2>1, DecideOK, DecideBooksGood DEF OutcomeOK, AccountGood
  <2> HIDE DEF o
  <2> QED BY <2>1, <2>2, BecomeBooks
<1>4. CASE Crash
  <2> DEFINE o == [account |-> account, history |-> history]
  <2>1. EndBoot(o)
    BY <1>4 DEF Crash
  <2>2. o.account = account /\ o.history = history
    OBVIOUS
  <2> HIDE DEF o
  <2>3. CASE account = NoAccount
    BY <2>1, <2>2, <2>3 DEF EndBoot, BooksInv
  <2>4. CASE account # NoAccount
    <3>1. Shaped(o.account) /\ BooksGood(o.account, o.history)
      BY <2>2, <2>4 DEF IInv, Good, AccountGood, BooksInv
    <3> QED BY <2>1, <3>1, BecomeBooks
  <2> QED BY <2>3, <2>4
<1>5. CASE Restart
  BY <1>5 DEF Restart, BooksInv
<1> QED BY <1>1, <1>2, <1>3, <1>4, <1>5 DEF Next

-----------------------------------------------------------------------------
(* Theorems.                                                               *)

(***************************************************************************)
(* The counters of the engine's account always reconcile, what is live was *)
(* issued in the current era, and every entry of the attempt window stands *)
(* for a decision of the history.                                          *)
(***************************************************************************)
THEOREM EngineBooksInvariant ==
  ASSUME DOMAIN NoAccount # AccountFields
  PROVE  Spec => []BooksInv
<1>1. Init => BooksInv
  BY DEF Init, BooksInv
<1>2. IInv /\ BooksInv /\ [Next]_vars => BooksInv'
  BY BooksStep
<1> QED BY <1>1, <1>2, EngineInvariant, PTL DEF Spec

(***************************************************************************)
(* Credit that can still be consumed was issued in the current era, for    *)
(* every word size, limit and number of decisions: quarantine_in_flight    *)
(* leaves nothing live, and no operation revives what it quarantined.      *)
(***************************************************************************)
THEOREM EngineNothingOutlivesItsEra ==
  ASSUME DOMAIN NoAccount # AccountFields
  PROVE  Spec => []NothingOutlivesItsEra
<1>1. BooksInv => NothingOutlivesItsEra
  <2> SUFFICES ASSUME BooksInv, account # NoAccount
               PROVE  view(Plan(account)).outstanding <= IssuedThisEra
    BY DEF NothingOutlivesItsEra
  <2>1. /\ Sound(account.capacity, account.totals)
        /\ Live(account.totals) <= Issued(history, account.generation)
    BY DEF BooksInv, BooksGood
  <2>2. PlanReady(account.capacity, account.totals, Plan(account))
    BY <2>1, PlanFacts DEF Plan
  <2>3. view(Plan(account)).outstanding = Live(account.totals)
    BY <2>2 DEF PlanReady, Live
  <2> QED BY <2>1, <2>3 DEF Issued, IssuedThisEra
<1> QED BY <1>1, EngineBooksInvariant, PTL

\* A slot at or below the watermark is never admitted, whatever else the request says.
LEMMA SlotTaken ==
  ASSUME NEW a, NEW request, request.sequence \in Nat,
         request.sequence <= record_of(a, request.incarnation).last_sequence
  PROVE  admission(a, request) # "Ok"
BY Admitted

AnsweredBy(a, request, k) ==
  /\ find(a.window, request.incarnation, request.sequence) = a.window[k]
  /\ a.window[k].incarnation = request.incarnation
  /\ a.window[k].sequence = request.sequence
  /\ a.window[k].request = request

\* What the window answers with: an entry of the slot whose request is the one sent.
LEMMA Duplicated ==
  ASSUME NEW a, NEW request, admission(a, request) = "Duplicate"
  PROVE  \E k \in DOMAIN a.window : AnsweredBy(a, request, k)
<1> DEFINE w == a.window
           At(k) == w[k].incarnation = request.incarnation /\ w[k].sequence = request.sequence
<1>1. authority_verdict(a, request) # "Duplicate"
  BY DEF authority_verdict, reconcile_verdict, standing_verdict
<1>2. placement_verdict(a, request) = "Duplicate"
  BY <1>1 DEF admission
<1>3. /\ in_window(w, request.incarnation, request.sequence)
      /\ same_request(find(w, request.incarnation, request.sequence), request)
  BY <1>2 DEF placement_verdict
<1>4. \E k \in DOMAIN w : At(k)
  BY <1>3 DEF in_window
<1>5. find(w, request.incarnation, request.sequence) = w[CHOOSE k \in DOMAIN w : At(k)]
  BY DEF find
<1> HIDE DEF At
<1>6. PICK k \in DOMAIN w : At(k) /\ find(w, request.incarnation, request.sequence) = w[k]
  BY <1>4, <1>5
<1> QED BY <1>3, <1>6, ZenonT(30) DEF same_request, At, AnsweredBy

(***************************************************************************)
(* A retry is answered and not executed: what was decided is never         *)
(* admitted again, whatever the window has evicted or a restart has        *)
(* forgotten; an answer from the window is the recorded one; and a request *)
(* that differs is never answered with it.  Unset, which stands in an      *)
(* entry that has lost its request, is not a request.                      *)
(***************************************************************************)
THEOREM EngineRetryIsAnswered ==
  ASSUME DOMAIN NoAccount # AccountFields, DOMAIN Unset # RequestFields
  PROVE  Spec => []RetryIsAnswered
<1>1. IInv /\ BooksInv => RetryIsAnswered
  <2> SUFFICES ASSUME IInv, BooksInv, account # NoAccount, NEW i \in Past
               PROVE  LET request == history[i].request
                          other   == [request EXCEPT !.count = @ + 1]
                          entry   == find(account.window, request.incarnation, request.sequence)
                      IN  /\ admission(account, request) # "Ok"
                          /\ admission(account, request) = "Duplicate" =>
                               entry.reason = history[i].reason /\ entry.applied = history[i].applied
                          /\ admission(account, other) \notin {"Ok", "Duplicate"}
    BY DEF RetryIsAnswered
  <2> DEFINE request == history[i].request
             other   == [request EXCEPT !.count = @ + 1]
             w       == account.window
  <2>1. HistoryGood(account, history) /\ WindowGood(w, history) /\ i \in DOMAIN history
    BY DEF IInv, Good, BooksInv, BooksGood, Past
  <2>2. IsRequest(request)
    BY <2>1 DEF HistoryGood
  <2>3. /\ other.incarnation = request.incarnation /\ other.sequence = request.sequence
        /\ other.count = request.count + 1 /\ DOMAIN other = RequestFields
    <3>1. DOMAIN request = RequestFields /\ {"incarnation", "sequence", "count"} \subseteq RequestFields
      BY <2>2 DEF IsRequest, RequestFields
    <3> HIDE DEF request
    <3> QED BY <3>1
  <2> HIDE DEF other
  <2>4. request # Unset /\ other # Unset /\ other # request
    <3>1. request.count \in Nat /\ DOMAIN request = RequestFields
      BY <2>2, SMTT(30) DEF IsRequest, U64
    <3>2. request.count + 1 # request.count
      BY <3>1, SMTT(30)
    <3> HIDE DEF request
    <3> QED BY <2>3, <3>1, <3>2, ZenonT(30)
  <2>5. /\ request.sequence \in Nat
        /\ request.sequence <= record_of(account, request.incarnation).last_sequence
    <3>1. request.incarnation \in Incarnations /\ request.sequence \in Nat
      BY <2>2 DEF IsRequest
    <3>2. request.sequence \in SlotsOf(history, request.incarnation)
      BY <2>1 DEF SlotsOf
    <3>3. SlotsOf(history, request.incarnation) = 1..record_of(account, request.incarnation).last_sequence
      BY <2>1, <3>1 DEF HistoryGood
    <3> QED BY <3>1, <3>2, <3>3, SMTT(30)
  <2>6. admission(account, request) # "Ok" /\ admission(account, other) # "Ok"
    BY <2>3, <2>5, SlotTaken
  <2>7. ASSUME NEW k \in DOMAIN w, w[k].incarnation = request.incarnation,
               w[k].sequence = request.sequence, w[k].request # Unset
        PROVE  /\ w[k].request = request
               /\ w[k].reason = history[i].reason /\ w[k].applied = history[i].applied
    <3>1. PICK j \in DOMAIN history : StandsFor(w[k], history[j])
      BY <2>1, <2>7 DEF WindowGood, Remembers
    <3>2. Slot(history[j]) = Slot(history[i])
      BY <2>7, <3>1 DEF StandsFor, Slot
    <3>3. j = i
      BY <2>1, <3>1, <3>2 DEF HistoryGood
    <3> QED BY <2>7, <3>1, <3>3 DEF StandsFor
  <2>8. admission(account, other) # "Duplicate"
    <3> SUFFICES ASSUME admission(account, other) = "Duplicate" PROVE FALSE
      OBVIOUS
    <3>1. PICK k \in DOMAIN w : AnsweredBy(account, other, k)
      BY Duplicated
    <3>2. w[k].incarnation = other.incarnation /\ w[k].sequence = other.sequence /\ w[k].request = other
      BY <3>1 DEF AnsweredBy
    <3> QED BY <2>3, <2>4, <2>7, <3>2
  <2>9. ASSUME admission(account, request) = "Duplicate"
        PROVE  LET entry == find(w, request.incarnation, request.sequence) IN
               entry.reason = history[i].reason /\ entry.applied = history[i].applied
    <3>1. PICK k \in DOMAIN w : AnsweredBy(account, request, k)
      BY <2>9, Duplicated
    <3>2. /\ find(w, request.incarnation, request.sequence) = w[k]
          /\ w[k].incarnation = request.incarnation
          /\ w[k].sequence = request.sequence /\ w[k].request = request
      BY <3>1 DEF AnsweredBy
    <3> QED BY <2>4, <2>7, <3>2
  <2> QED BY <2>6, <2>8, <2>9 DEF other
<1> QED BY <1>1, EngineInvariant, EngineBooksInvariant, PTL
=============================================================================
