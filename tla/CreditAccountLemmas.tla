----------------------- MODULE CreditAccountLemmas -----------------------
(***************************************************************************)
(* Accounts and their incarnations, for any account, request and limit:    *)
(* what most operations keep, what apply_locked has established of a       *)
(* request that it decides, and what publish_window_locked does.  The      *)
(* lemmas need no types but the shape of an account: the fields of its     *)
(* record and of its incarnations' records.                                *)
(***************************************************************************)
EXTENDS CreditAccount, TLAPS

AccountFields == {"epoch", "generation", "capacity", "totals", "hard_exhausted",
                  "incarnations", "fences", "window"}

RecordFields == {"state", "reconciled_epoch", "reconciled_generation", "reconciliation_proof",
                 "producer", "consumer", "grant", "last_sequence", "committed_ops", "refused_ops"}

Shaped(a) ==
  /\ DOMAIN a = AccountFields
  /\ \A i \in DOMAIN a.incarnations : DOMAIN a.incarnations[i] = RecordFields

(***************************************************************************)
(* What most operations do to an incarnation and to an account.            *)
(***************************************************************************)
RecordKept(old, new) ==
  /\ new.last_sequence = old.last_sequence
  /\ new.state = "Fenced" <=> old.state = "Fenced"
  /\ old.state = "Retired" => new.state = "Retired"
  /\ new.state = "Reconciled" =>
       old.state = "Reconciled" /\ new.reconciliation_proof = old.reconciliation_proof

Keeps(a, b) ==
  /\ Shaped(b)
  /\ DOMAIN a.incarnations \subseteq DOMAIN b.incarnations
  /\ b.epoch = a.epoch /\ b.generation = a.generation /\ b.fences = a.fences
  /\ \A i : RecordKept(record_of(a, i), record_of(b, i))

-----------------------------------------------------------------------------
(* Sequences.                                                              *)

IsSeq(h) == \E S : h \in Seq(S)

\* g is h with e at its end.
Extends(g, h, e) ==
  /\ IsSeq(g)
  /\ Len(h) \in Nat /\ DOMAIN h = 1..Len(h) /\ DOMAIN g = 1..(Len(h) + 1)
  /\ Len(g) = Len(h) + 1
  /\ \A k \in 1..Len(h) : g[k] = h[k]
  /\ g[Len(h) + 1] = e

\* Nothing is appended to at first.
LEMMA EmptySeq == IsSeq(<<>>)
<1>1. <<>> \in Seq({})
  OBVIOUS
<1> QED BY <1>1 DEF IsSeq

\* That is what Append does: the history, the fence list and the window grow by it.
LEMMA AppendExtends ==
  ASSUME NEW h, IsSeq(h), NEW e
  PROVE  Extends(Append(h, e), h, e)
<1>1. PICK S : h \in Seq(S)
  BY DEF IsSeq
<1> DEFINE T == S \cup {e}
           g == Append(h, e)
<1>2. h \in Seq(T) /\ e \in T
  BY <1>1
<1> HIDE DEF T
<1>3. g \in Seq(T) /\ Len(g) = Len(h) + 1 /\ Len(h) \in Nat
  BY <1>2
<1>4. DOMAIN h = 1..Len(h) /\ DOMAIN g = 1..Len(g)
  BY <1>2, <1>3
<1>5. \A k \in 1..Len(h) : g[k] = h[k]
  BY <1>2
<1>6. g[Len(h) + 1] = e
  BY <1>2
<1> QED BY <1>3, <1>4, <1>5, <1>6 DEF Extends, IsSeq

\* insert keeps entries it had, apart perhaps from the oldest, and adds one.
LEMMA InsertKeeps ==
  ASSUME NEW window, IsSeq(window), NEW entry
  PROVE  /\ IsSeq(insert(window, entry))
         /\ \A i \in DOMAIN insert(window, entry) :
              \/ insert(window, entry)[i] = entry
              \/ \E j \in DOMAIN window : insert(window, entry)[i] = window[j]
<1> DEFINE all == Append(window, entry)
           new == insert(window, entry)
<1>1. Extends(all, window, entry)
  BY AppendExtends
<1>2. \A i \in DOMAIN all : all[i] = entry \/ \E j \in DOMAIN window : all[i] = window[j]
  BY <1>1 DEF Extends
<1>3. new = all \/ (Len(all) > WindowLimit /\ new = Tail(all))
  BY DEF insert
<1>4. PICK S : all \in Seq(S)
  BY <1>1 DEF Extends, IsSeq
<1>5. all # <<>>
  BY <1>1 DEF Extends
<1> HIDE DEF all, new
<1>6. CASE new = all
  BY <1>1, <1>2, <1>6, SMTT(30) DEF new, Extends
<1>7. CASE Len(all) > WindowLimit /\ new = Tail(all)
  <2>1. new \in Seq(S) /\ \A i \in DOMAIN new : i + 1 \in DOMAIN all /\ new[i] = all[i + 1]
    BY <1>4, <1>5, <1>7, SMTT(30)
  <2> QED BY <1>2, <2>1 DEF IsSeq, new
<1> QED BY <1>3, <1>6, <1>7, SMTT(30)

-----------------------------------------------------------------------------
(* Records and accounts.                                                   *)

\* Every record of a shaped account has the fields of IncarnationRecord.
LEMMA RecordShape ==
  ASSUME NEW a, Shaped(a), NEW i
  PROVE  DOMAIN record_of(a, i) = RecordFields
<1>1. DOMAIN FreshRecord = RecordFields
  BY DEF FreshRecord, RecordFields
<1>2. CASE known(a, i)
  BY <1>2 DEF record_of, known, Shaped
<1>3. CASE ~known(a, i)
  BY <1>1, <1>3 DEF record_of
<1> QED BY <1>2, <1>3

\* with_record puts one record and leaves the others and the other fields.
LEMMA WithRecord ==
  ASSUME NEW a, Shaped(a), NEW who, NEW rec, DOMAIN rec = RecordFields
  PROVE  /\ Shaped(with_record(a, who, rec))
         /\ DOMAIN with_record(a, who, rec).incarnations = DOMAIN a.incarnations \cup {who}
         /\ \A i : record_of(with_record(a, who, rec), i) = IF i = who THEN rec ELSE record_of(a, i)
         /\ \A f \in AccountFields \ {"incarnations"} : with_record(a, who, rec)[f] = a[f]
<1> DEFINE new == [i \in DOMAIN a.incarnations \cup {who} |-> IF i = who THEN rec ELSE a.incarnations[i]]
           b == with_record(a, who, rec)
<1>1. "incarnations" \in DOMAIN a
  BY DEF Shaped, AccountFields
<1>2. DOMAIN b = DOMAIN a /\ b.incarnations = new
  BY <1>1, Zenon DEF with_record
<1>3. \A f \in AccountFields \ {"incarnations"} : b[f] = a[f]
  BY Zenon DEF with_record, Shaped
<1>4. DOMAIN new = DOMAIN a.incarnations \cup {who}
  OBVIOUS
<1>5. Shaped(b)
  BY <1>2, <1>4, Zenon DEF Shaped
<1>6. \A i : record_of(b, i) = IF i = who THEN rec ELSE record_of(a, i)
  BY <1>2, <1>4, Zenon DEF record_of, known
<1> QED BY <1>2, <1>3, <1>4, <1>5, <1>6

\* Replacing a record by one that keeps what matters of it keeps the account.
LEMMA WithRecordKeeps ==
  ASSUME NEW a, Shaped(a), NEW who, NEW rec, DOMAIN rec = RecordFields,
         RecordKept(record_of(a, who), rec)
  PROVE  Keeps(a, with_record(a, who, rec))
<1> DEFINE b == with_record(a, who, rec)
<1>1. Shaped(b) /\ DOMAIN a.incarnations \subseteq DOMAIN b.incarnations
  BY WithRecord
<1>2. b.epoch = a.epoch /\ b.generation = a.generation /\ b.fences = a.fences
  <2>1. {"epoch", "generation", "fences"} \subseteq AccountFields \ {"incarnations"}
    BY DEF AccountFields
  <2>2. \A f \in AccountFields \ {"incarnations"} : b[f] = a[f]
    BY WithRecord
  <2> QED BY <2>1, <2>2, Zenon
<1>3. ASSUME NEW i PROVE RecordKept(record_of(a, i), record_of(b, i))
  <2>1. record_of(b, i) = IF i = who THEN rec ELSE record_of(a, i)
    BY WithRecord
  <2>2. CASE i = who
    BY <2>1, <2>2, Zenon
  <2>3. CASE i # who
    BY <2>1, <2>3, Zenon DEF RecordKept
  <2> QED BY <2>2, <2>3
<1> QED BY <1>1, <1>2, <1>3, Zenon DEF Keeps

\* Keeping is transitive.
LEMMA KeepsTransitive ==
  ASSUME NEW a, NEW b, NEW c, Keeps(a, b), Keeps(b, c)
  PROVE  Keeps(a, c)
<1>1. \A i : RecordKept(record_of(a, i), record_of(c, i))
  BY Zenon DEF Keeps, RecordKept
<1> QED BY <1>1, Zenon DEF Keeps

\* An account that differs in the ledger, the latch or the window only is kept.
LEMMA SameIncarnations ==
  ASSUME NEW a, NEW b, Shaped(a), DOMAIN b = AccountFields, b.incarnations = a.incarnations,
         b.epoch = a.epoch, b.generation = a.generation, b.fences = a.fences
  PROVE  Keeps(a, b)
<1>1. \A i : record_of(b, i) = record_of(a, i)
  BY Zenon DEF record_of, known
<1>2. \A i : RecordKept(record_of(a, i), record_of(b, i))
  BY <1>1, Zenon DEF RecordKept
<1>3. Shaped(b)
  BY Zenon DEF Shaped
<1> QED BY <1>2, <1>3, Zenon DEF Keeps

\* Counting a decision changes a counter of the caller and makes the caller known.
LEMMA CountKeeps ==
  ASSUME NEW a, Shaped(a), NEW who
  PROVE  /\ Keeps(a, count_refused(a, who)) /\ known(count_refused(a, who), who)
         /\ Keeps(a, count_committed(a, who)) /\ known(count_committed(a, who), who)
<1> DEFINE old == record_of(a, who)
           refused == [old EXCEPT !.refused_ops = @ + 1]
           committed == [old EXCEPT !.committed_ops = @ + 1]
<1>1. DOMAIN old = RecordFields
  BY RecordShape
<1>2. {"last_sequence", "state", "reconciliation_proof"} \subseteq RecordFields
  BY DEF RecordFields
<1>3. DOMAIN refused = RecordFields /\ DOMAIN committed = RecordFields
  BY <1>1, Zenon
<1>4. /\ refused.last_sequence = old.last_sequence /\ refused.state = old.state
      /\ refused.reconciliation_proof = old.reconciliation_proof
  BY <1>1, <1>2, Zenon
<1>5. /\ committed.last_sequence = old.last_sequence /\ committed.state = old.state
      /\ committed.reconciliation_proof = old.reconciliation_proof
  BY <1>1, <1>2, Zenon
<1>6. RecordKept(old, refused) /\ RecordKept(old, committed)
  BY <1>4, <1>5, Zenon DEF RecordKept
<1> HIDE DEF refused, committed
<1>7. Keeps(a, with_record(a, who, refused)) /\ Keeps(a, with_record(a, who, committed))
  BY <1>3, <1>6, WithRecordKeeps
<1>8. known(with_record(a, who, refused), who) /\ known(with_record(a, who, committed), who)
  BY <1>3, WithRecord DEF known
<1> QED BY <1>7, <1>8 DEF count_refused, count_committed, refused, committed

\* forget_liveness leaves nobody Reconciled and keeps everything else.
LEMMA ForgetLiveness ==
  ASSUME NEW a, Shaped(a)
  PROVE  /\ Keeps(a, forget_liveness(a))
         /\ \A i : record_of(forget_liveness(a), i).state # "Reconciled"
         /\ forget_liveness(a).window = a.window
<1> DEFINE new == [i \in DOMAIN a.incarnations |->
                     IF a.incarnations[i].state = "Reconciled"
                       THEN [a.incarnations[i] EXCEPT !.state = "Unknown"] ELSE a.incarnations[i]]
           b == forget_liveness(a)
<1>1. "incarnations" \in DOMAIN a /\ DOMAIN a = AccountFields
  BY DEF Shaped, AccountFields
<1>2. DOMAIN b = AccountFields /\ b.incarnations = new
  BY <1>1, Zenon DEF forget_liveness
<1>3. b.epoch = a.epoch /\ b.generation = a.generation /\ b.fences = a.fences /\ b.window = a.window
  <2>1. {"epoch", "generation", "fences", "window"} \subseteq AccountFields
    BY DEF AccountFields
  <2> QED BY <1>1, <2>1, Zenon DEF forget_liveness
<1>4. DOMAIN new = DOMAIN a.incarnations
  OBVIOUS
<1>5. ASSUME NEW i \in DOMAIN a.incarnations
      PROVE  /\ DOMAIN new[i] = RecordFields
             /\ RecordKept(a.incarnations[i], new[i]) /\ new[i].state # "Reconciled"
  <2>1. DOMAIN a.incarnations[i] = RecordFields
    BY <1>5 DEF Shaped
  <2>2. {"last_sequence", "state", "reconciliation_proof"} \subseteq RecordFields
    BY DEF RecordFields
  <2>3. CASE a.incarnations[i].state = "Reconciled"
    <3>1. new[i] = [a.incarnations[i] EXCEPT !.state = "Unknown"]
      BY <2>3, Zenon
    <3>2. DOMAIN new[i] = RecordFields /\ new[i].state = "Unknown"
      BY <3>1, <2>1, <2>2, Zenon
    <3>3. new[i].last_sequence = a.incarnations[i].last_sequence
      BY <3>1, <2>1, <2>2, Zenon
    <3> QED BY <3>2, <3>3, <2>3 DEF RecordKept
  <2>4. CASE a.incarnations[i].state # "Reconciled"
    <3>1. new[i] = a.incarnations[i]
      BY <2>4, Zenon
    <3> QED BY <3>1, <2>1, <2>4, Zenon DEF RecordKept
  <2> QED BY <2>3, <2>4
<1>6. Shaped(b)
  BY <1>2, <1>4, <1>5, Zenon DEF Shaped
<1>7. ASSUME NEW i
      PROVE  RecordKept(record_of(a, i), record_of(b, i)) /\ record_of(b, i).state # "Reconciled"
  <2>1. CASE i \in DOMAIN a.incarnations
    <3>1. record_of(a, i) = a.incarnations[i] /\ record_of(b, i) = new[i]
      BY <2>1, <1>2, <1>4, Zenon DEF record_of, known
    <3> QED BY <3>1, <2>1, <1>5, Zenon
  <2>2. CASE i \notin DOMAIN a.incarnations
    <3>1. record_of(a, i) = FreshRecord /\ record_of(b, i) = FreshRecord
      BY <2>2, <1>2, <1>4, Zenon DEF record_of, known
    <3>2. FreshRecord.state = "Unknown"
      BY DEF FreshRecord
    <3> QED BY <3>1, <3>2 DEF RecordKept
  <2> QED BY <2>1, <2>2
<1>8. Keeps(a, b)
  BY <1>2, <1>3, <1>4, <1>6, <1>7, Zenon DEF Keeps
<1> QED BY <1>3, <1>7, <1>8, Zenon

\* The end of a boot keeps the account, and nobody is live in what it leaves.
LEMMA FadedKeeps ==
  ASSUME NEW a, Shaped(a), NEW n
  PROVE  Keeps(a, faded(a, n)) /\ \A i : record_of(faded(a, n), i).state # "Reconciled"
<1> DEFINE m == forget_liveness(a)
           b == faded(a, n)
<1>1. Keeps(a, m) /\ Shaped(m) /\ \A i : record_of(m, i).state # "Reconciled"
  BY ForgetLiveness DEF Keeps
<1>2. DOMAIN m = AccountFields /\ {"incarnations", "epoch", "generation", "fences", "window"} \subseteq AccountFields
  BY <1>1 DEF Shaped, AccountFields
<1>3. /\ DOMAIN b = AccountFields /\ b.incarnations = m.incarnations /\ b.epoch = m.epoch
      /\ b.generation = m.generation /\ b.fences = m.fences
  BY <1>2, Zenon DEF faded
<1> HIDE DEF m, b
<1>4. Keeps(m, b)
  BY <1>1, <1>3, SameIncarnations
<1>5. \A i : record_of(b, i) = record_of(m, i)
  BY <1>3, Zenon DEF record_of, known
<1>6. Keeps(a, b) /\ \A i : record_of(b, i).state # "Reconciled"
  BY <1>1, <1>4, <1>5, KeepsTransitive
<1> QED BY <1>6 DEF b

-----------------------------------------------------------------------------
(* Decisions.                                                              *)

\* No incarnation is forgotten.
Grown(a, b) == Shaped(b) /\ DOMAIN a.incarnations \subseteq DOMAIN b.incarnations

\* What apply_locked has established of a request that it goes on to decide.
LEMMA Admitted ==
  ASSUME NEW a, NEW request, admission(a, request) = "Ok"
  PROVE  /\ request.epoch = a.epoch /\ request.generation = a.generation
         /\ ~lacks_control(request)
         /\ request.op # "Reconcile" =>
              /\ known(a, request.incarnation)
              /\ a.incarnations[request.incarnation].state \notin {"Fenced", "Retired"}
         /\ request.op = "Reconcile" =>
              /\ ~is_fenced(a, request.incarnation)
              /\ record_of(a, request.incarnation).state # "Retired"
         /\ ~(request.sequence <= record_of(a, request.incarnation).last_sequence)
         /\ ~(request.sequence > record_of(a, request.incarnation).last_sequence + 1)
<1>1. authority_verdict(a, request) = "Ok" /\ placement_verdict(a, request) = "Ok"
  BY DEF admission
<1>2. /\ request.epoch = a.epoch /\ request.generation = a.generation
      /\ ~lacks_control(request)
      /\ request.op = "Reconcile" => reconcile_verdict(a, request.incarnation) = "Ok"
      /\ request.op # "Reconcile" => standing_verdict(a, request.incarnation) = "Ok"
  BY <1>1 DEF authority_verdict
<1>3. reconcile_verdict(a, request.incarnation) = "Ok" =>
        ~is_fenced(a, request.incarnation) /\ record_of(a, request.incarnation).state # "Retired"
  BY DEF reconcile_verdict
<1>4. standing_verdict(a, request.incarnation) = "Ok" =>
        /\ known(a, request.incarnation)
        /\ a.incarnations[request.incarnation].state \notin {"Fenced", "Retired"}
  BY DEF standing_verdict
<1>5. /\ ~(request.sequence <= record_of(a, request.incarnation).last_sequence)
      /\ ~(request.sequence > record_of(a, request.incarnation).last_sequence + 1)
  BY <1>1 DEF placement_verdict
<1> QED BY <1>2, <1>3, <1>4, <1>5

\* From a to b the caller's watermark moves to the slot of the request, and no authority moves.
Published(a, b, request) ==
  LET who == request.incarnation IN
  /\ Grown(a, b)
  /\ b.epoch = a.epoch /\ b.generation = a.generation /\ b.fences = a.fences
  /\ \A i : i # who => record_of(b, i) = record_of(a, i)
  /\ record_of(b, who).last_sequence = request.sequence
  /\ record_of(b, who).state = record_of(a, who).state
  /\ record_of(b, who).reconciliation_proof = record_of(a, who).reconciliation_proof

\* That is what publish_window_locked does.
LEMMA Publish ==
  ASSUME NEW a, Shaped(a), NEW request, known(a, request.incarnation), NEW reason, NEW applied
  PROVE  Published(a, publish_window(a, request, reason, applied), request)
<1> DEFINE who == request.incarnation
           entry == [incarnation |-> who, sequence |-> request.sequence, attempt |-> request.attempt,
                     request |-> request, reason |-> reason, applied |-> applied]
           m   == [a EXCEPT !.window = insert(@, entry)]
           old == a.incarnations[who]
           new == [old EXCEPT !.last_sequence = request.sequence]
           b   == publish_window(a, request, reason, applied)
<1>1. b = with_record(m, who, new)
  BY Zenon DEF publish_window
<1>2. DOMAIN a = AccountFields /\ {"incarnations", "epoch", "generation", "fences"} \subseteq AccountFields
  BY DEF Shaped, AccountFields
<1>3. /\ DOMAIN m = AccountFields /\ m.incarnations = a.incarnations /\ m.epoch = a.epoch
      /\ m.generation = a.generation /\ m.fences = a.fences
  BY <1>2, Zenon
<1> HIDE DEF m
<1>4. Shaped(m) /\ \A i : record_of(m, i) = record_of(a, i)
  BY <1>3, Zenon DEF Shaped, record_of, known
<1>5. old = record_of(a, who)
  BY DEF record_of
<1>6. DOMAIN old = RecordFields /\ {"last_sequence", "state", "reconciliation_proof"} \subseteq RecordFields
  BY <1>5, RecordShape DEF RecordFields
<1>7. /\ DOMAIN new = RecordFields /\ new.last_sequence = request.sequence /\ new.state = old.state
      /\ new.reconciliation_proof = old.reconciliation_proof
  BY <1>6, Zenon
<1> HIDE DEF new, b
<1>8. /\ Shaped(b) /\ DOMAIN m.incarnations \subseteq DOMAIN b.incarnations
      /\ \A i : record_of(b, i) = IF i = who THEN new ELSE record_of(m, i)
  BY <1>1, <1>4, <1>7, WithRecord
<1>9. b.epoch = m.epoch /\ b.generation = m.generation /\ b.fences = m.fences
  <2>1. {"epoch", "generation", "fences"} \subseteq AccountFields \ {"incarnations"}
    BY DEF AccountFields
  <2>2. \A f \in AccountFields \ {"incarnations"} : b[f] = m[f]
    BY <1>1, <1>4, <1>7, WithRecord
  <2> QED BY <2>1, <2>2, Zenon
<1>10. Grown(a, b)
  BY <1>3, <1>8 DEF Grown
<1>11. Published(a, b, request)
  BY <1>3, <1>4, <1>5, <1>7, <1>8, <1>9, <1>10 DEF Published
<1> QED BY <1>11 DEF b

-----------------------------------------------------------------------------
(* Requests.                                                               *)

RequestFields == {"op", "incarnation", "epoch", "generation", "sequence", "attempt", "count",
                  "producer", "consumer", "grant", "target", "proof", "decision", "expected", "cause"}

IsRequest(request) ==
  /\ DOMAIN request = RequestFields
  /\ request.incarnation \in Incarnations
  /\ request.sequence \in Nat \ {0}
  /\ request.count \in U64

-----------------------------------------------------------------------------
(* What a caller sees of a decision: answers, standing and placement.      *)

\* The prover of every leaf from here on that does not name another.
USE ZenonT(60)

\* The reasons that neither ask a client to reconcile nor find fault with its place.
Plain(reason) ==
  reason \notin {"ReconciliationRequired", "StaleAuthority", "UnknownIncarnation",
                 "SequenceGap", "StaleReplay", "AttemptConflict"}

\* Whatever a mutator of a plan answers is a plain reason.
LEMMA PlanAnswers ==
  ASSUME NEW a, NEW count, NEW allowed, NEW most
  PROVE  /\ Plain(issue(Plan(a), count, MinIssue, MaxIssue).status)
         /\ Plain(consume(Plan(a), count).status)
         /\ Plain(give_back(Plan(a), count).status)
         /\ Plain(protect(Plan(a), count, allowed).status)
         /\ Plain(unprotect(Plan(a), count).status)
         /\ Plain(retire_stale(Plan(a), count).status)
         /\ Plain(quarantine_in_flight(Plan(a)).status)
         /\ Plain(revalidate_to_returned(Plan(a), count).status)
         /\ Plain(revalidate_to_consumed(Plan(a), count).status)
         /\ Plain(set_capacity(Plan(a), count, most, allowed).status)
         /\ Plain(refuse(Plan(a), "PolicyRefused").status)
<1> DEFINE p == Plan(a)
<1>1. ASSUME NEW c, NEW t PROVE Plain(check_invariants(c, t))
  BY DEF check_invariants, Plain
<1>2. DOMAIN p = {"capacity", "totals", "status"} /\ Plain(p.status)
  BY <1>1 DEF Plan, LedgerPlan
<1> HIDE DEF p
<1>3. ASSUME NEW reason, Plain(reason) PROVE Plain(refuse(p, reason).status)
  <2>1. refuse(p, reason).status = reason
    BY <1>2 DEF refuse
  <2> QED BY <1>3, <2>1
<1>4. ASSUME NEW t PROVE Plain(commit(p, t).status)
  <2>1. [p EXCEPT !.totals = t].status = p.status
    BY <1>2
  <2> QED BY <1>1, <1>2, <1>3, <2>1 DEF commit
<1>5. /\ Plain("CountZero") /\ Plain("PolicyRefused") /\ Plain("InsufficientAvailable")
      /\ Plain("InsufficientOutstanding") /\ Plain("CountOverflow")
      /\ Plain("InsufficientProtected") /\ Plain("NothingToRetire") /\ Plain("CapacityOutOfRange")
      /\ Plain("CapacityExceeded") /\ Plain("CapacityShrinkViolation")
  BY DEF Plain
<1>6. Plain(issue(p, count, MinIssue, MaxIssue).status) /\ Plain(consume(p, count).status)
  BY <1>2, <1>3, <1>4, <1>5 DEF issue, consume
<1>7. Plain(give_back(p, count).status) /\ Plain(protect(p, count, allowed).status)
  BY <1>2, <1>3, <1>4, <1>5 DEF give_back, protect
<1>8. Plain(unprotect(p, count).status) /\ Plain(retire_stale(p, count).status)
  BY <1>2, <1>3, <1>4, <1>5 DEF unprotect, retire_stale
<1>9. Plain(quarantine_in_flight(p).status)
  BY <1>2, <1>3, <1>4, <1>5 DEF quarantine_in_flight
<1>10. Plain(revalidate_to_returned(p, count).status) /\ Plain(revalidate_to_consumed(p, count).status)
  BY <1>2, <1>3, <1>4, <1>5 DEF revalidate_to_returned, revalidate_to_consumed
<1>11. Plain(set_capacity(p, count, most, allowed).status)
  <2>1. [p EXCEPT !.capacity = count].status = p.status
    BY <1>2
  <2> QED BY <1>2, <1>3, <1>5, <2>1 DEF set_capacity
<1>12. Plain(refuse(p, "PolicyRefused").status)
  BY <1>3, <1>5
<1> QED BY <1>6, <1>7, <1>8, <1>9, <1>10, <1>11, <1>12 DEF p

\* So is what an operation on the ledger answers.
LEMMA LedgerAnswers ==
  ASSUME NEW a, NEW request, request.op \in DataOps, request.op # "Reconcile"
  PROVE  Plain(ledger_apply(a, request).status)
<1>1. CASE request.op = "Issue"
  <2>1. ledger_apply(a, request) = issue(Plan(a), request.count, MinIssue, MaxIssue)
    BY <1>1 DEF ledger_apply
  <2> QED BY <2>1, PlanAnswers
<1>2. CASE request.op = "Consume"
  <2>1. ledger_apply(a, request) = consume(Plan(a), request.count)
    BY <1>2 DEF ledger_apply
  <2> QED BY <2>1, PlanAnswers
<1>3. CASE request.op = "Return"
  <2>1. \/ ledger_apply(a, request) = give_back(Plan(a), request.count)
        \/ ledger_apply(a, request) = refuse(Plan(a), "PolicyRefused")
    BY <1>3 DEF ledger_apply
  <2> QED BY <2>1, PlanAnswers
<1>4. CASE request.op = "Protect"
  <2>1. ledger_apply(a, request) = protect(Plan(a), request.count, AllowProtect)
    BY <1>4 DEF ledger_apply
  <2> QED BY <2>1, PlanAnswers
<1>5. CASE request.op = "Unprotect"
  <2>1. ledger_apply(a, request) = unprotect(Plan(a), request.count)
    BY <1>5 DEF ledger_apply
  <2> QED BY <2>1, PlanAnswers
<1> QED BY <1>1, <1>2, <1>3, <1>4, <1>5 DEF DataOps

\* What of an incarnation's record admission looks at.
Marks(r) == <<r.state, r.reconciled_epoch, r.reconciled_generation, r.last_sequence>>

SameMarks(a, b) ==
  /\ Shaped(b) /\ DOMAIN a.incarnations \subseteq DOMAIN b.incarnations
  /\ b.epoch = a.epoch /\ b.generation = a.generation /\ b.window = a.window
  /\ \A i : Marks(record_of(b, i)) = Marks(record_of(a, i))

\* Marks that stay twice stay.
LEMMA SameMarksTransitive ==
  ASSUME NEW a, NEW b, NEW c, SameMarks(a, b), SameMarks(b, c)
  PROVE  SameMarks(a, c)
BY DEF SameMarks

\* A record that is changed elsewhere leaves the marks.
LEMMA WithRecordMarks ==
  ASSUME NEW a, Shaped(a), NEW who, NEW rec, DOMAIN rec = RecordFields,
         Marks(rec) = Marks(record_of(a, who))
  PROVE  SameMarks(a, with_record(a, who, rec))
<1> DEFINE b == with_record(a, who, rec)
<1>1. /\ Shaped(b) /\ DOMAIN a.incarnations \subseteq DOMAIN b.incarnations
      /\ \A i : record_of(b, i) = IF i = who THEN rec ELSE record_of(a, i)
      /\ \A f \in AccountFields \ {"incarnations"} : b[f] = a[f]
  BY WithRecord, SMTT(30)
<1>2. {"epoch", "generation", "window"} \subseteq AccountFields \ {"incarnations"}
  BY DEF AccountFields
<1> HIDE DEF b
<1>3. b.epoch = a.epoch /\ b.generation = a.generation /\ b.window = a.window
  BY <1>1, <1>2
<1>4. \A i : Marks(record_of(b, i)) = Marks(record_of(a, i))
  BY <1>1
<1> QED BY <1>1, <1>3, <1>4 DEF SameMarks, b

\* So does a new ledger.
LEMMA SameRecordsMarks ==
  ASSUME NEW a, Shaped(a), NEW b, DOMAIN b = AccountFields, b.incarnations = a.incarnations,
         b.epoch = a.epoch, b.generation = a.generation, b.window = a.window
  PROVE  SameMarks(a, b)
BY DEF SameMarks, Shaped, record_of, known

\* Counting leaves the marks, and the caller is known from then on.
LEMMA CountMarks ==
  ASSUME NEW a, Shaped(a), NEW who
  PROVE  /\ SameMarks(a, count_refused(a, who)) /\ known(count_refused(a, who), who)
         /\ SameMarks(a, count_committed(a, who)) /\ known(count_committed(a, who), who)
<1> DEFINE old == record_of(a, who)
           refused == [old EXCEPT !.refused_ops = @ + 1]
           committed == [old EXCEPT !.committed_ops = @ + 1]
<1>1. DOMAIN old = RecordFields
  BY RecordShape
<1>2. {"last_sequence", "state", "reconciled_epoch", "reconciled_generation"} \subseteq RecordFields
  BY DEF RecordFields
<1>3. DOMAIN refused = RecordFields /\ DOMAIN committed = RecordFields
  BY <1>1
<1>4. /\ refused.last_sequence = old.last_sequence /\ refused.state = old.state
      /\ refused.reconciled_epoch = old.reconciled_epoch
      /\ refused.reconciled_generation = old.reconciled_generation
  BY <1>1, <1>2
<1>5. /\ committed.last_sequence = old.last_sequence /\ committed.state = old.state
      /\ committed.reconciled_epoch = old.reconciled_epoch
      /\ committed.reconciled_generation = old.reconciled_generation
  BY <1>1, <1>2
<1>6. Marks(refused) = Marks(old) /\ Marks(committed) = Marks(old)
  BY <1>4, <1>5 DEF Marks
<1> HIDE DEF refused, committed
<1>7. SameMarks(a, with_record(a, who, refused)) /\ SameMarks(a, with_record(a, who, committed))
  BY <1>3, <1>6, WithRecordMarks
<1>8. known(with_record(a, who, refused), who) /\ known(with_record(a, who, committed), who)
  BY CountKeeps DEF count_refused, count_committed, refused, committed
<1> QED BY <1>7, <1>8 DEF count_refused, count_committed, refused, committed

\* The incarnation is not asked to reconcile: it may act, or is barred for good.
Stands(a, i) ==
  known(a, i) /\ (a.incarnations[i].state \in {"Fenced", "Retired"} \/ is_live(a, i))

\* Standing is a matter of the marks and the era.
LEMMA MarksStand ==
  ASSUME NEW a, NEW b, SameMarks(a, b), NEW i
  PROVE  /\ record_of(b, i).last_sequence = record_of(a, i).last_sequence
         /\ Stands(a, i) => Stands(b, i)
<1> DEFINE r == record_of(a, i)
           q == record_of(b, i)
<1>1. Marks(q) = Marks(r)
  BY DEF SameMarks
<1> HIDE DEF r, q
<1>2. /\ q.state = r.state /\ q.reconciled_epoch = r.reconciled_epoch
      /\ q.reconciled_generation = r.reconciled_generation /\ q.last_sequence = r.last_sequence
  BY <1>1 DEF Marks
<1>3. ASSUME Stands(a, i) PROVE Stands(b, i)
  <2>1. known(a, i) /\ known(b, i)
    BY <1>3 DEF Stands, SameMarks, known
  <2>2. r = a.incarnations[i] /\ q = b.incarnations[i]
    BY <2>1 DEF r, q, record_of
  <2>3. b.epoch = a.epoch /\ b.generation = a.generation
    BY DEF SameMarks
  <2> QED BY <1>2, <1>3, <2>1, <2>2, <2>3 DEF Stands, is_live
<1> QED BY <1>2, <1>3 DEF r, q

\* Neither the era, nor a watermark, nor the window, nor anyone's standing is touched.
Calm(a, b) ==
  /\ Shaped(b) /\ DOMAIN a.incarnations \subseteq DOMAIN b.incarnations
  /\ b.epoch = a.epoch /\ b.generation = a.generation /\ b.window = a.window
  /\ \A i : /\ record_of(b, i).last_sequence = record_of(a, i).last_sequence
            /\ Stands(a, i) => Stands(b, i)

\* That is so when the marks stay.
LEMMA SameMarksCalm ==
  ASSUME NEW a, NEW b, SameMarks(a, b)
  PROVE  Calm(a, b)
<1>1. \A i : /\ record_of(b, i).last_sequence = record_of(a, i).last_sequence
             /\ Stands(a, i) => Stands(b, i)
  BY MarksStand
<1> QED BY <1>1 DEF Calm, SameMarks

\* The marks stay, or nothing happens at all.
Same(a, b) == b = a \/ (Shaped(a) /\ IsSeq(a.window) /\ SameMarks(a, b))

\* The era of b follows that of a: by AdvanceEpoch, or by Rotate to the epoch it names.
NextEra(a, b, request) ==
  /\ b.generation = a.generation + 1
  /\ \/ b.epoch = a.epoch + 1
     \/ b.epoch = request.count /\ ~(request.count <= a.epoch)

\* From a to b, before it is published, a decided request moves the account so.
Moved(a, b, request) ==
  /\ Shaped(b) /\ DOMAIN a.incarnations \subseteq DOMAIN b.incarnations /\ b.window = a.window
  /\ known(b, request.incarnation)
  /\ \A i : record_of(b, i).last_sequence = record_of(a, i).last_sequence
  /\ request.op \in EraEnds => NextEra(a, b, request)
  /\ request.op \notin EraEnds => /\ b.epoch = a.epoch /\ b.generation = a.generation
                                  /\ \A i : Stands(a, i) => Stands(b, i)
  /\ request.op = "Reconcile" => Stands(b, request.incarnation)

\* A refusal that only looks like a demand to reconcile: the target is not known.
Misread(op, reason) == op = "RetireIncarnation" /\ reason = "UnknownIncarnation"

\* What a decision tells its caller, and what it has done.
Told(a, d, request, nonce) ==
  \/ d.decided = TRUE /\ Plain(d.reason) /\ Moved(a, d.account, request)
  \/ /\ d.decided = FALSE /\ Same(a, d.account) /\ d.reason # "Ok"
     /\ \/ Plain(d.reason)
        \/ /\ d.reason = "ReconciliationRequired"
           /\ request.op = "Reconcile" /\ ~verify(nonce, request)
        \/ Misread(request.op, d.reason)

\* The outcomes say whether they are decided.
LEMMA Flags ==
  ASSUME NEW a, NEW b, NEW request, NEW reason, NEW subject
  PROVE  /\ undecided(a, reason).decided = FALSE
         /\ decided_applied(a, b, request, subject).decided = TRUE
BY DEF undecided, decided_applied

\* A refusal that decides nothing.
LEMMA UndecidedTold ==
  ASSUME NEW a, NEW b, Same(a, b), NEW request, NEW nonce, NEW reason, reason # "Ok",
         Plain(reason) \/ Misread(request.op, reason)
  PROVE  Told(a, undecided(b, reason), request, nonce)
<1> DEFINE d == undecided(b, reason)
<1>1. d.account = b /\ d.reason = reason
  BY SMTT(30) DEF undecided
<1>2. d.decided = FALSE
  BY Flags
<1> HIDE DEF d
<1>3. Told(a, d, request, nonce)
  BY <1>1, <1>2 DEF Told
<1> QED BY <1>3 DEF d

\* An operation that neither reconciles nor ends the era.
Plainly(request) == request.op \notin EraEnds \cup {"Reconcile"}

\* Calm is a move of any such operation.
LEMMA CalmMoved ==
  ASSUME NEW a, NEW b, Calm(a, b), NEW request, known(b, request.incarnation), Plainly(request)
  PROVE  Moved(a, b, request)
BY DEF Moved, Calm, Plainly

\* So is what is applied to an account that is calm.
LEMMA AppliedTold ==
  ASSUME NEW a, NEW m, Calm(a, m), NEW request, NEW before, NEW subject, Plainly(request), NEW nonce
  PROVE  Told(a, decided_applied(before, m, request, subject), request, nonce)
<1> DEFINE who == request.incarnation
           d == decided_applied(before, m, request, subject)
<1>1. d.account = count_committed(m, who) /\ d.reason = "Ok"
  BY SMTT(30) DEF decided_applied
<1>2. d.decided = TRUE
  BY Flags
<1>3. Shaped(m)
  BY DEF Calm
<1>4. SameMarks(m, d.account) /\ known(d.account, who)
  BY <1>1, <1>3, CountMarks
<1> HIDE DEF d
<1>5. Calm(m, d.account)
  BY <1>4, SameMarksCalm
<1>6. Calm(a, d.account)
  BY <1>5 DEF Calm
<1>7. Moved(a, d.account, request)
  BY <1>4, <1>6, CalmMoved
<1>8. Plain(d.reason)
  BY <1>1 DEF Plain
<1>9. Told(a, d, request, nonce)
  BY <1>2, <1>7, <1>8 DEF Told
<1> QED BY <1>9 DEF d

\* A refusal leaves the marks, and so does what is applied to an account with the same marks.
LEMMA VerdictMarks ==
  ASSUME NEW a, NEW m, Shaped(m), SameMarks(a, m), NEW request, NEW reason, NEW before, NEW subject,
         Plainly(request), Plain(reason), NEW nonce
  PROVE  /\ Told(a, decided_refusal(m, request, reason), request, nonce)
         /\ Told(a, decided_applied(before, m, request, subject), request, nonce)
<1> DEFINE who == request.incarnation
           r == decided_refusal(m, request, reason)
           d == decided_applied(before, m, request, subject)
<1>1. /\ r.account = count_refused(m, who) /\ d.account = count_committed(m, who)
      /\ r.reason = reason /\ d.reason = "Ok"
  BY DEF decided_refusal, decided_applied
<1>2. r.decided = TRUE /\ d.decided = TRUE
  BY DEF decided_refusal, decided_applied
<1>3. /\ SameMarks(m, r.account) /\ known(r.account, who)
      /\ SameMarks(m, d.account) /\ known(d.account, who)
  BY <1>1, CountMarks
<1>4. SameMarks(a, r.account) /\ SameMarks(a, d.account)
  BY <1>3, SameMarksTransitive
<1> HIDE DEF r, d
<1>5. Moved(a, r.account, request) /\ Moved(a, d.account, request)
  BY <1>3, <1>4, SameMarksCalm, CalmMoved
<1>6. Plain("Ok")
  BY DEF Plain
<1>7. Told(a, r, request, nonce) /\ Told(a, d, request, nonce)
  BY <1>1, <1>2, <1>5, <1>6 DEF Told
<1> QED BY <1>7 DEF r, d

\* So does a verdict of the ledger.
LEMMA SettleTold ==
  ASSUME NEW before, NEW a, NEW m, Shaped(m), SameMarks(a, m), NEW request, NEW plan, NEW nonce,
         Plain(plan.status), Plainly(request)
  PROVE  Told(a, settle(before, m, request, plan), request, nonce)
<1> DEFINE n == [m EXCEPT !.capacity = plan.capacity, !.totals = plan.totals]
           d == settle(before, m, request, plan)
<1>1. DOMAIN m = AccountFields /\ {"incarnations", "epoch", "generation", "window"} \subseteq AccountFields
  BY DEF Shaped, AccountFields
<1>2. /\ DOMAIN n = AccountFields /\ n.incarnations = m.incarnations /\ n.epoch = m.epoch
      /\ n.generation = m.generation /\ n.window = m.window
  BY <1>1
<1>3. CASE plan.status = "Ok"
  <2>1. d = decided_applied(before, n, request, Unset)
    BY <1>3 DEF settle
  <2> HIDE DEF n, d
  <2>2. SameMarks(m, n) /\ Shaped(n)
    BY <1>2, SameRecordsMarks DEF SameMarks
  <2>3. SameMarks(a, n)
    BY <2>2, SameMarksTransitive
  <2>4. Told(a, d, request, nonce)
    BY <2>1, <2>2, <2>3, VerdictMarks
  <2> QED BY <2>4 DEF d
<1>4. CASE plan.status # "Ok"
  <2>1. d = decided_refusal(m, request, plan.status)
    BY <1>4 DEF settle
  <2> QED BY <2>1, VerdictMarks
<1> QED BY <1>3, <1>4

\* An Issue binds the roles of its caller, which are no marks, and settles.
LEMMA IssueTold ==
  ASSUME NEW a, Shaped(a), NEW request, request.op = "Issue", known(a, request.incarnation), NEW nonce
  PROVE  Told(a, decide_issue(a, request), request, nonce)
<1> DEFINE who    == request.incarnation
           record == a.incarnations[who]
           wrong  == mismatches(record, request)
           first  == IF wrong = {} THEN 4 ELSE CHOOSE i \in wrong : \A j \in wrong : i <= j
           tied   == bind(record, request, first)
           bound  == with_record(a, who, tied)
           d      == decide_issue(a, request)
<1>1. record = record_of(a, who)
  BY DEF record_of
<1>2. DOMAIN record = RecordFields
  BY <1>1, RecordShape
<1>3. DOMAIN tied = RecordFields /\ Marks(tied) = Marks(record)
  <2>1. \A n : /\ DOMAIN bind(record, request, n) = DOMAIN record
               /\ \A f \in DOMAIN record \ {"producer", "consumer", "grant"} :
                    bind(record, request, n)[f] = record[f]
    BY DEF bind
  <2>2. {"last_sequence", "state", "reconciled_epoch", "reconciled_generation"}
          \subseteq DOMAIN record \ {"producer", "consumer", "grant"}
    BY <1>2 DEF RecordFields
  <2>3. /\ tied.last_sequence = record.last_sequence /\ tied.state = record.state
        /\ tied.reconciled_epoch = record.reconciled_epoch
        /\ tied.reconciled_generation = record.reconciled_generation
    BY <2>1, <2>2
  <2> QED BY <1>2, <2>1, <2>3 DEF Marks
<1> HIDE DEF tied
<1>4. SameMarks(a, bound) /\ Shaped(bound)
  BY <1>1, <1>3, WithRecordMarks, SMTT(30) DEF SameMarks
<1>5. SameMarks(a, a)
  BY SameRecordsMarks DEF Shaped
<1>6. Plainly(request)
  BY DEF Plainly, EraEnds
<1>7. CASE a.hard_exhausted
  <2>1. d = decided_refusal(a, request, "ExhaustedHard")
    BY <1>7 DEF decide_issue
  <2>2. Plain("ExhaustedHard")
    BY DEF Plain
  <2> QED BY <1>5, <1>6, <2>1, <2>2, VerdictMarks
<1>8. CASE ~a.hard_exhausted /\ wrong # {}
  <2> DEFINE reason == <<"ProducerMismatch", "ConsumerMismatch", "GrantMismatch">>[first]
  <2>1. d = decided_refusal(bound, request, reason)
    BY <1>8 DEF decide_issue, tied
  <2>2. Plain(reason)
    <3>1. wrong \subseteq 1..3
      BY DEF mismatches
    <3> HIDE DEF wrong
    <3>2. \E i \in wrong : \A j \in wrong : i <= j
      <4>1. CASE 1 \in wrong
        BY <3>1, <4>1, SMTT(30)
      <4>2. CASE 1 \notin wrong /\ 2 \in wrong
        BY <3>1, <4>2, SMTT(30)
      <4>3. CASE 1 \notin wrong /\ 2 \notin wrong
        <5>1. PICK x \in wrong : TRUE
          BY <1>8
        <5>2. \A j \in wrong : j = 3
          BY <3>1, <4>3, SMTT(30)
        <5> QED BY <5>1, <5>2, SMTT(30)
      <4> QED BY <4>1, <4>2, <4>3
    <3>3. first \in 1..3
      <4>1. first \in wrong
        BY <1>8, <3>2
      <4> QED BY <3>1, <4>1
    <3> HIDE DEF first
    <3> QED BY <3>3, SMTT(30) DEF Plain
  <2> HIDE DEF bound, reason
  <2> QED BY <1>4, <1>6, <2>1, <2>2, VerdictMarks
<1>9. CASE ~a.hard_exhausted /\ wrong = {}
  <2> DEFINE plan == ledger_apply(bound, request)
  <2>1. d = settle(a, bound, request, plan)
    BY <1>9 DEF decide_issue, tied
  <2>2. request.op \in DataOps /\ request.op # "Reconcile"
    BY DEF DataOps
  <2>3. Plain(plan.status)
    BY <2>2, LedgerAnswers
  <2> HIDE DEF bound, plan
  <2> QED BY <1>4, <1>6, <2>1, <2>3, SettleTold
<1> QED BY <1>7, <1>8, <1>9

\* A Reconcile makes its caller stand, and touches nobody else's marks.
LEMMA ReconcileTold ==
  ASSUME NEW a, Shaped(a), NEW request, request.op = "Reconcile", NEW nonce
  PROVE  Told(a, reconcile(a, request, nonce), request, nonce)
<1> DEFINE who == request.incarnation
           old == record_of(a, who)
           new == [old EXCEPT !.state = "Reconciled", !.reconciled_epoch = a.epoch,
                              !.reconciled_generation = a.generation,
                              !.reconciliation_proof = request.proof]
           m   == with_record(a, who, new)
           d   == reconcile(a, request, nonce)
<1>1. CASE ~verify(nonce, request)
  <2>1. d = undecided(a, "ReconciliationRequired")
    BY <1>1 DEF reconcile
  <2>2. d.account = a /\ d.reason = "ReconciliationRequired"
    BY <2>1, SMTT(30) DEF undecided
  <2>3. d.decided = FALSE
    BY <2>1, Flags
  <2>4. d.reason # "Ok"
    BY <2>2
  <2> QED BY <1>1, <2>2, <2>3, <2>4 DEF Told, Same
<1>2. CASE verify(nonce, request)
  <2>1. d = decided_applied(a, m, request, Unset)
    BY <1>2 DEF reconcile
  <2>2. DOMAIN old = RecordFields
    BY RecordShape
  <2>3. {"last_sequence", "state", "reconciled_epoch", "reconciled_generation"} \subseteq RecordFields
    BY DEF RecordFields
  <2>4. /\ DOMAIN new = RecordFields /\ new.last_sequence = old.last_sequence
        /\ new.state = "Reconciled" /\ new.reconciled_epoch = a.epoch
        /\ new.reconciled_generation = a.generation
    BY <2>2, <2>3
  <2> HIDE DEF new
  <2>5. /\ Shaped(m) /\ DOMAIN m.incarnations = DOMAIN a.incarnations \cup {who}
        /\ \A i : record_of(m, i) = IF i = who THEN new ELSE record_of(a, i)
    BY <2>4, WithRecord, SMTT(30)
  <2>6. m.epoch = a.epoch /\ m.generation = a.generation /\ m.window = a.window
    <3>1. {"epoch", "generation", "window"} \subseteq AccountFields \ {"incarnations"}
      BY DEF AccountFields
    <3>2. \A f \in AccountFields \ {"incarnations"} : m[f] = a[f]
      BY <2>4, WithRecord, SMTT(30)
    <3> QED BY <3>1, <3>2
  <2> HIDE DEF m
  <2>7. ASSUME NEW i, i = who \/ Stands(a, i) PROVE Stands(m, i)
    <3>1. known(m, i)
      BY <2>5, <2>7 DEF known, Stands
    <3>2. m.incarnations[i] = record_of(m, i)
      BY <3>1 DEF record_of
    <3>3. CASE i = who
      BY <2>4, <2>5, <2>6, <3>1, <3>2, <3>3 DEF Stands, is_live
    <3>4. CASE i # who
      <4>1. Stands(a, i)
        BY <2>7, <3>4
      <4>2. m.incarnations[i] = a.incarnations[i]
        BY <2>5, <3>2, <3>4, <4>1 DEF record_of, Stands
      <4> QED BY <2>6, <3>1, <4>1, <4>2 DEF Stands, is_live
    <3> QED BY <3>3, <3>4
  <2>8. d.account = count_committed(m, who) /\ d.reason = "Ok"
    BY <2>1, SMTT(30) DEF decided_applied
  <2>9. d.decided = TRUE
    BY <2>1, Flags
  <2>10. SameMarks(m, d.account) /\ known(d.account, who)
    BY <2>5, <2>8, CountMarks
  <2> DEFINE b == d.account
  <2> HIDE DEF b, d
  <2>11. \A i : /\ record_of(b, i).last_sequence = record_of(m, i).last_sequence
                /\ Stands(m, i) => Stands(b, i)
    BY <2>10, MarksStand DEF b
  <2>12. \A i : record_of(m, i).last_sequence = record_of(a, i).last_sequence
    BY <2>4, <2>5
  <2>13. /\ Shaped(b) /\ DOMAIN a.incarnations \subseteq DOMAIN b.incarnations
         /\ b.epoch = a.epoch /\ b.generation = a.generation /\ b.window = a.window
    BY <2>5, <2>6, <2>10 DEF SameMarks, b
  <2>14. request.op \notin EraEnds
    BY DEF EraEnds
  <2>15. Moved(a, b, request)
    BY <2>7, <2>10, <2>11, <2>12, <2>13, <2>14 DEF Moved, b
  <2>16. Plain(d.reason)
    BY <2>8 DEF Plain
  <2>17. Told(a, d, request, nonce)
    BY <2>9, <2>15, <2>16 DEF Told, b
  <2> QED BY <2>17 DEF d
<1> QED BY <1>1, <1>2

\* AdvanceEpoch and Rotate move the era on, and no watermark.
LEMMA EraTold ==
  ASSUME NEW a, Shaped(a), NEW request, request.op \in EraEnds, NEW nonce
  PROVE  Told(a, end_era(a, request), request, nonce)
<1> DEFINE next == IF request.op = "Rotate" THEN request.count ELSE a.epoch + 1
           plan == quarantine_in_flight(Plan(a))
           f    == forget_liveness(a)
           m    == [f EXCEPT !.totals = plan.totals, !.epoch = next, !.generation = @ + 1]
           d    == end_era(a, request)
<1>1. \/ \E reason : d = undecided(a, reason) /\ Plain(reason) /\ reason # "Ok"
      \/ /\ d = decided_applied(a, m, request, request.target)
         /\ next = a.epoch + 1 \/ (next = request.count /\ ~(request.count <= a.epoch))
  <2>1. /\ Plain(plan.status) /\ Plain("CountOverflow") /\ "CountOverflow" # "Ok"
        /\ Plain("InvalidState") /\ "InvalidState" # "Ok"
    BY PlanAnswers DEF Plain
  <2> QED BY <2>1 DEF end_era
<1>2. CASE \E reason : d = undecided(a, reason) /\ Plain(reason) /\ reason # "Ok"
  BY <1>2, UndecidedTold DEF Same
<1>3. CASE /\ d = decided_applied(a, m, request, request.target)
           /\ next = a.epoch + 1 \/ (next = request.count /\ ~(request.count <= a.epoch))
  <2> HIDE DEF next
  <2>1. /\ Keeps(a, f) /\ Shaped(f) /\ f.window = a.window
    BY ForgetLiveness DEF Keeps
  <2>2. /\ DOMAIN f = AccountFields
        /\ {"incarnations", "epoch", "generation", "window"} \subseteq AccountFields
    BY <2>1 DEF Shaped, AccountFields
  <2>3. /\ DOMAIN m = AccountFields /\ m.incarnations = f.incarnations /\ m.epoch = next
        /\ m.generation = f.generation + 1 /\ m.window = f.window
    BY <2>2
  <2> HIDE DEF m, f
  <2>4. Shaped(m) /\ \A i : record_of(m, i) = record_of(f, i)
    BY <2>1, <2>3 DEF Shaped, record_of, known
  <2>5. d.account = count_committed(m, request.incarnation) /\ d.reason = "Ok"
    BY <1>3, SMTT(30) DEF decided_applied
  <2>6. d.decided = TRUE
    BY <1>3, Flags
  <2>7. SameMarks(m, d.account) /\ known(d.account, request.incarnation)
    BY <2>4, <2>5, CountMarks
  <2> DEFINE b == d.account
  <2> HIDE DEF b, d
  <2>8. \A i : record_of(b, i).last_sequence = record_of(m, i).last_sequence
    BY <2>7, MarksStand DEF b
  <2>9. \A i : record_of(f, i).last_sequence = record_of(a, i).last_sequence
    BY <2>1 DEF Keeps, RecordKept
  <2>10. /\ Shaped(b) /\ DOMAIN a.incarnations \subseteq DOMAIN b.incarnations
         /\ b.epoch = next /\ b.generation = a.generation + 1 /\ b.window = a.window
    BY <2>1, <2>3, <2>7 DEF SameMarks, Keeps, b
  <2>11. request.op # "Reconcile"
    BY DEF EraEnds
  <2>12. NextEra(a, b, request)
    BY <1>3, <2>10 DEF NextEra
  <2>13. Moved(a, b, request)
    BY <2>4, <2>7, <2>8, <2>9, <2>10, <2>11, <2>12 DEF Moved, b
  <2>14. Plain(d.reason)
    BY <2>5 DEF Plain
  <2>15. Told(a, d, request, nonce)
    BY <2>6, <2>13, <2>14 DEF Told, b
  <2> QED BY <2>15 DEF d
<1> QED BY <1>1, <1>2, <1>3

\* The latch of exhaustion is no mark.
LEMMA LatchTold ==
  ASSUME NEW a, Shaped(a), NEW request, Plainly(request), NEW nonce
  PROVE  /\ Told(a, exhaust(a, request), request, nonce)
         /\ Told(a, clear_exhaustion(a, request), request, nonce)
<1>1. SameMarks(a, a) /\ Same(a, a)
  BY SameRecordsMarks DEF Shaped, Same
<1>2. /\ Plain("ExhaustedHard") /\ Plain("PolicyRefused") /\ Plain("NotExhausted")
      /\ "PolicyRefused" # "Ok"
  BY DEF Plain
<1>3. ASSUME NEW latch PROVE SameMarks(a, [a EXCEPT !.hard_exhausted = latch])
  <2> DEFINE b == [a EXCEPT !.hard_exhausted = latch]
  <2>1. DOMAIN a = AccountFields /\ {"incarnations", "epoch", "generation", "window"} \subseteq AccountFields
    BY DEF Shaped, AccountFields
  <2>2. /\ DOMAIN b = AccountFields /\ b.incarnations = a.incarnations /\ b.epoch = a.epoch
        /\ b.generation = a.generation /\ b.window = a.window
    BY <2>1
  <2> HIDE DEF b
  <2>3. SameMarks(a, b)
    BY <2>2, SameRecordsMarks
  <2> QED BY <2>3 DEF b
<1>4. ASSUME NEW latch
      PROVE  Told(a, decided_applied(a, [a EXCEPT !.hard_exhausted = latch], request, request.target),
                  request, nonce)
  BY <1>1, <1>3, SameMarksCalm, AppliedTold
<1>5. ASSUME NEW reason, Plain(reason) PROVE Told(a, decided_refusal(a, request, reason), request, nonce)
  BY <1>1, <1>5, VerdictMarks
<1>6. Told(a, undecided(a, "PolicyRefused"), request, nonce)
  BY <1>1, <1>2, UndecidedTold
<1>7. Told(a, exhaust(a, request), request, nonce)
  BY <1>2, <1>4, <1>5, <1>6 DEF exhaust
<1>8. Told(a, clear_exhaustion(a, request), request, nonce)
  BY <1>2, <1>4, <1>5 DEF clear_exhaustion
<1> QED BY <1>7, <1>8

\* An incarnation that is barred for good is asked for no reconciliation.
LEMMA Barred ==
  ASSUME NEW a, Shaped(a), NEW target, NEW state, state \in {"Fenced", "Retired"}
  PROVE  Calm(a, with_record(a, target, [record_of(a, target) EXCEPT !.state = state]))
<1> DEFINE old == record_of(a, target)
           new == [old EXCEPT !.state = state]
           b   == with_record(a, target, new)
<1>1. DOMAIN old = RecordFields /\ {"state", "last_sequence"} \subseteq RecordFields
  BY RecordShape DEF RecordFields
<1>2. DOMAIN new = RecordFields /\ new.state = state /\ new.last_sequence = old.last_sequence
  BY <1>1
<1> HIDE DEF new
<1>3. /\ Shaped(b) /\ DOMAIN b.incarnations = DOMAIN a.incarnations \cup {target}
      /\ \A i : record_of(b, i) = IF i = target THEN new ELSE record_of(a, i)
  BY <1>2, WithRecord, SMTT(30)
<1>4. b.epoch = a.epoch /\ b.generation = a.generation /\ b.window = a.window
  <2>1. {"epoch", "generation", "window"} \subseteq AccountFields \ {"incarnations"}
    BY DEF AccountFields
  <2>2. \A f \in AccountFields \ {"incarnations"} : b[f] = a[f]
    BY <1>2, WithRecord, SMTT(30)
  <2> QED BY <2>1, <2>2
<1> HIDE DEF b
<1>5. ASSUME NEW i, Stands(a, i) PROVE Stands(b, i)
  <2>1. known(a, i) /\ known(b, i)
    BY <1>3, <1>5 DEF Stands, known
  <2>2. b.incarnations[i] = record_of(b, i) /\ a.incarnations[i] = record_of(a, i)
    BY <2>1 DEF record_of
  <2>3. CASE i = target
    BY <1>2, <1>3, <2>1, <2>2, <2>3 DEF Stands
  <2>4. CASE i # target
    <3>1. b.incarnations[i] = a.incarnations[i]
      BY <1>3, <2>2, <2>4
    <3> QED BY <1>4, <1>5, <2>1, <3>1 DEF Stands, is_live
  <2> QED BY <2>3, <2>4
<1>6. \A i : record_of(b, i).last_sequence = record_of(a, i).last_sequence
  BY <1>2, <1>3
<1>7. Calm(a, b)
  BY <1>3, <1>4, <1>5, <1>6 DEF Calm
<1> QED BY <1>7 DEF b, new

\* A Fence bars its target, or lists it and refuses.
LEMMA FenceTold ==
  ASSUME NEW a, Shaped(a), IsSeq(a.window), NEW request, request.op = "Fence", NEW nonce
  PROVE  Told(a, fence(a, request), request, nonce)
<1> DEFINE target == request.target
           listed == with_record(a, target, record_of(a, target))
           fenced == with_record(a, target, [record_of(a, target) EXCEPT !.state = "Fenced"])
           m      == [fenced EXCEPT !.fences = Append(@, target)]
<1>1. Plainly(request) /\ SameMarks(a, a) /\ Same(a, a)
  BY SameRecordsMarks DEF Plainly, EraEnds, Shaped, Same
<1>2. /\ Plain("MalformedMessage") /\ Plain("PolicyRefused") /\ Plain("InvalidState")
      /\ Plain("BudgetExceeded")
      /\ "MalformedMessage" # "Ok" /\ "PolicyRefused" # "Ok" /\ "BudgetExceeded" # "Ok"
  BY DEF Plain
<1>3. Same(a, listed)
  <2>1. DOMAIN record_of(a, target) = RecordFields
    BY RecordShape
  <2>2. SameMarks(a, listed)
    BY <2>1, WithRecordMarks
  <2> QED BY <2>2 DEF Same
<1>4. Calm(a, m)
  <2>1. Calm(a, fenced)
    BY Barred
  <2> HIDE DEF fenced
  <2>2. Shaped(fenced)
    BY <2>1 DEF Calm
  <2>3. /\ DOMAIN fenced = AccountFields
        /\ {"incarnations", "epoch", "generation", "window"} \subseteq AccountFields
    BY <2>2 DEF Shaped, AccountFields
  <2>4. /\ DOMAIN m = AccountFields /\ m.incarnations = fenced.incarnations /\ m.epoch = fenced.epoch
        /\ m.generation = fenced.generation /\ m.window = fenced.window
    BY <2>3
  <2> HIDE DEF m
  <2>5. Calm(fenced, m)
    BY <2>2, <2>4, SameRecordsMarks, SameMarksCalm
  <2> QED BY <2>1, <2>5 DEF Calm
<1>5. Told(a, decided_applied(a, m, request, target), request, nonce)
  BY <1>1, <1>4, AppliedTold
<1>6. Told(a, decided_refusal(a, request, "InvalidState"), request, nonce)
  BY <1>1, <1>2, VerdictMarks
<1>7. /\ Told(a, undecided(a, "MalformedMessage"), request, nonce)
      /\ Told(a, undecided(a, "PolicyRefused"), request, nonce)
      /\ Told(a, undecided(a, "BudgetExceeded"), request, nonce)
      /\ Told(a, undecided(listed, "BudgetExceeded"), request, nonce)
  BY <1>1, <1>2, <1>3, UndecidedTold
<1> QED BY <1>5, <1>6, <1>7 DEF fence

\* A RetireIncarnation bars its target, which has to be known.
LEMMA RetireTold ==
  ASSUME NEW a, Shaped(a), NEW request, request.op = "RetireIncarnation", NEW nonce
  PROVE  Told(a, retire_incarnation(a, request), request, nonce)
<1> DEFINE target == request.target
           m == with_record(a, target, [a.incarnations[target] EXCEPT !.state = "Retired"])
<1>1. Plainly(request) /\ SameMarks(a, a) /\ Same(a, a)
  BY SameRecordsMarks DEF Plainly, EraEnds, Shaped, Same
<1>2. /\ Plain("MalformedMessage") /\ "MalformedMessage" # "Ok" /\ Plain("FencedIncarnation")
      /\ Misread(request.op, "UnknownIncarnation") /\ "UnknownIncarnation" # "Ok"
  BY DEF Plain, Misread
<1>3. ASSUME known(a, target) PROVE Told(a, decided_applied(a, m, request, target), request, nonce)
  <2>1. record_of(a, target) = a.incarnations[target]
    BY <1>3 DEF record_of
  <2>2. Calm(a, m)
    BY <2>1, Barred
  <2> HIDE DEF m
  <2> QED BY <1>1, <2>2, AppliedTold
<1>4. Told(a, decided_refusal(a, request, "FencedIncarnation"), request, nonce)
  BY <1>1, <1>2, VerdictMarks
<1>5. /\ Told(a, undecided(a, "MalformedMessage"), request, nonce)
      /\ Told(a, undecided(a, "UnknownIncarnation"), request, nonce)
  BY <1>1, <1>2, UndecidedTold
<1> QED BY <1>3, <1>4, <1>5 DEF retire_incarnation

\* The other operations of the operator settle a plan.
LEMMA ControlTold ==
  ASSUME NEW a, Shaped(a), IsSeq(a.window), NEW request, request.op \in ControlOps, NEW nonce
  PROVE  Told(a, decide_control(a, request), request, nonce)
<1> DEFINE d == decide_control(a, request)
<1>1. SameMarks(a, a) /\ Same(a, a)
  BY SameRecordsMarks DEF Shaped, Same
<1>2. CASE request.expected = "stale"
  <2>1. d = undecided(a, "StaleEvidence") /\ Plain("StaleEvidence") /\ "StaleEvidence" # "Ok"
    BY <1>2 DEF decide_control, Plain
  <2> QED BY <1>1, <2>1, UndecidedTold
<1> SUFFICES ASSUME request.expected # "stale" PROVE Told(a, d, request, nonce)
  BY <1>2
<1>3. CASE request.op \in EraEnds
  <2>1. d = end_era(a, request)
    BY <1>3 DEF decide_control, EraEnds
  <2> QED BY <1>3, <2>1, EraTold
<1>4. CASE request.op \in {"Exhaust", "ClearExhaustion"}
  <2>1. Plainly(request)
    BY <1>4 DEF Plainly, EraEnds
  <2>2. /\ Told(a, exhaust(a, request), request, nonce)
        /\ Told(a, clear_exhaustion(a, request), request, nonce)
    BY <2>1, LatchTold
  <2> QED BY <1>4, <2>2 DEF decide_control
<1>5. CASE request.op = "Fence"
  <2>1. d = fence(a, request)
    BY <1>5 DEF decide_control
  <2> QED BY <1>5, <2>1, FenceTold
<1>6. CASE request.op = "RetireIncarnation"
  <2>1. d = retire_incarnation(a, request)
    BY <1>6 DEF decide_control
  <2> QED BY <1>6, <2>1, RetireTold
<1>7. CASE request.op \in {"SetCapacity", "Retire", "Revalidate"}
  <2>1. Plainly(request)
    BY <1>7 DEF Plainly, EraEnds
  <2>2. ASSUME NEW plan, Plain(plan.status) PROVE Told(a, settle(a, a, request, plan), request, nonce)
    BY <1>1, <2>1, <2>2, SettleTold
  <2>3. CASE request.op = "SetCapacity"
    <3> DEFINE plan == set_capacity(Plan(a), request.count, MaxCapacity, AllowGrowth)
    <3>1. d = settle(a, a, request, plan)
      BY <2>3 DEF decide_control
    <3>2. Plain(plan.status)
      BY PlanAnswers
    <3> HIDE DEF plan, d
    <3> QED BY <2>2, <3>1, <3>2 DEF d
  <2>4. CASE request.op = "Retire"
    <3> DEFINE plan == retire_stale(Plan(a), request.count)
    <3>1. d = settle(a, a, request, plan)
      BY <2>4 DEF decide_control
    <3>2. Plain(plan.status)
      BY PlanAnswers
    <3> HIDE DEF plan, d
    <3> QED BY <2>2, <3>1, <3>2 DEF d
  <2>5. CASE request.op = "Revalidate"
    <3>1. d = revalidate(a, request)
      BY <2>5 DEF decide_control
    <3>2. Plain("PolicyRefused") /\ "PolicyRefused" # "Ok"
      BY DEF Plain
    <3>3. Told(a, undecided(a, "PolicyRefused"), request, nonce)
      BY <1>1, <3>2, UndecidedTold
    <3>4. /\ Told(a, settle(a, a, request, revalidate_to_returned(Plan(a), request.count)), request, nonce)
          /\ Told(a, settle(a, a, request, revalidate_to_consumed(Plan(a), request.count)), request, nonce)
      BY <2>2, PlanAnswers
    <3> QED BY <3>1, <3>3, <3>4 DEF revalidate
  <2> QED BY <1>7, <2>3, <2>4, <2>5
<1> QED BY <1>3, <1>4, <1>5, <1>6, <1>7 DEF ControlOps, EraEnds

\* Every operation that is admitted.
LEMMA DecideTold ==
  ASSUME NEW a, Shaped(a), IsSeq(a.window), NEW request, request.op \in DataOps \cup ControlOps,
         admission(a, request) = "Ok", NEW nonce
  PROVE  Told(a, decide(a, request, nonce), request, nonce)
<1> DEFINE d == decide(a, request, nonce)
<1>1. CASE request.op \in ControlOps
  <2>1. d = decide_control(a, request)
    BY <1>1 DEF decide
  <2> QED BY <1>1, <2>1, ControlTold
<1>2. CASE request.op = "Reconcile"
  <2>1. d = reconcile(a, request, nonce)
    BY <1>2 DEF decide, decide_data, ControlOps
  <2> QED BY <1>2, <2>1, ReconcileTold
<1>3. CASE request.op = "Issue"
  <2>1. d = decide_issue(a, request)
    BY <1>3 DEF decide, decide_data, ControlOps
  <2>2. known(a, request.incarnation)
    BY <1>3, Admitted
  <2> QED BY <1>3, <2>1, <2>2, IssueTold
<1>4. CASE request.op \in DataOps \ {"Reconcile", "Issue"}
  <2> DEFINE plan == ledger_apply(a, request)
  <2>1. request.op \notin ControlOps
    BY <1>4 DEF DataOps, ControlOps
  <2>2. d = settle(a, a, request, plan)
    BY <1>4, <2>1 DEF decide, decide_data
  <2>3. Plain(plan.status)
    BY <1>4, LedgerAnswers
  <2>4. SameMarks(a, a)
    BY SameRecordsMarks DEF Shaped
  <2>5. Plainly(request)
    BY <1>4, <2>1 DEF Plainly, EraEnds, ControlOps
  <2> HIDE DEF plan, d
  <2> QED BY <2>2, <2>3, <2>4, <2>5, SettleTold DEF d
<1> QED BY <1>1, <1>2, <1>3, <1>4

\* An entry of the window is the request's or was there.
Entered(window, new, request) ==
  /\ IsSeq(new)
  /\ \A k \in DOMAIN new :
       \/ /\ new[k].incarnation = request.incarnation /\ new[k].sequence = request.sequence
          /\ new[k].attempt = request.attempt
       \/ \E j \in DOMAIN window : new[k] = window[j]

\* From a to b a request is decided and published.
Turn(a, b, request) ==
  /\ Shaped(b) /\ Entered(a.window, b.window, request)
  /\ \A i : i # request.incarnation => record_of(b, i).last_sequence = record_of(a, i).last_sequence
  /\ record_of(b, request.incarnation).last_sequence = request.sequence
  /\ request.op \in EraEnds => NextEra(a, b, request)
  /\ request.op \notin EraEnds => /\ b.epoch = a.epoch /\ b.generation = a.generation
                                  /\ \A i : Stands(a, i) => Stands(b, i)
  /\ request.op = "Reconcile" => Stands(b, request.incarnation)

\* publish_window_locked touches neither the era nor anyone's standing.
LEMMA PublishStands ==
  ASSUME NEW a, Shaped(a), IsSeq(a.window), NEW request, known(a, request.incarnation),
         NEW reason, NEW applied
  PROVE  LET b == publish_window(a, request, reason, applied) IN
         /\ Published(a, b, request) /\ Entered(a.window, b.window, request)
         /\ \A i : Stands(a, i) => Stands(b, i)
<1> DEFINE who == request.incarnation
           entry == [incarnation |-> who, sequence |-> request.sequence, attempt |-> request.attempt,
                     request |-> request, reason |-> reason, applied |-> applied]
           m   == [a EXCEPT !.window = insert(@, entry)]
           old == a.incarnations[who]
           new == [old EXCEPT !.last_sequence = request.sequence]
           b   == publish_window(a, request, reason, applied)
<1>1. b = with_record(m, who, new)
  BY DEF publish_window
<1>2. DOMAIN a = AccountFields /\ {"incarnations", "epoch", "generation", "window"} \subseteq AccountFields
  BY DEF Shaped, AccountFields
<1>3. entry.incarnation = who /\ entry.sequence = request.sequence /\ entry.attempt = request.attempt
  OBVIOUS
<1> HIDE DEF entry
<1>4. /\ DOMAIN m = AccountFields /\ m.incarnations = a.incarnations /\ m.epoch = a.epoch
      /\ m.generation = a.generation /\ m.window = insert(a.window, entry)
  BY <1>2
<1> HIDE DEF m
<1>5. Shaped(m) /\ \A i : record_of(m, i) = record_of(a, i)
  BY <1>4 DEF Shaped, record_of, known
<1>6. old = record_of(a, who)
  BY DEF record_of
<1>7. DOMAIN old = RecordFields /\ {"state", "reconciled_epoch", "reconciled_generation"} \subseteq RecordFields
  BY <1>6, RecordShape DEF RecordFields
<1>8. /\ DOMAIN new = RecordFields /\ new.state = old.state
      /\ new.reconciled_epoch = old.reconciled_epoch
      /\ new.reconciled_generation = old.reconciled_generation
  BY <1>7
<1> HIDE DEF new, b
<1>9. /\ Shaped(b) /\ DOMAIN m.incarnations \subseteq DOMAIN b.incarnations
      /\ \A i : record_of(b, i) = IF i = who THEN new ELSE record_of(m, i)
  BY <1>1, <1>5, <1>8, WithRecord, SMTT(30)
<1>10. b.epoch = m.epoch /\ b.generation = m.generation /\ b.window = m.window
  <2>1. {"epoch", "generation", "window"} \subseteq AccountFields \ {"incarnations"}
    BY DEF AccountFields
  <2>2. \A f \in AccountFields \ {"incarnations"} : b[f] = m[f]
    BY <1>1, <1>5, <1>8, WithRecord, SMTT(30)
  <2> QED BY <2>1, <2>2
<1>11. Published(a, b, request)
  BY Publish DEF b
<1>12. Entered(a.window, b.window, request)
  <2>1. /\ IsSeq(insert(a.window, entry))
        /\ \A k \in DOMAIN insert(a.window, entry) :
             \/ insert(a.window, entry)[k] = entry
             \/ \E j \in DOMAIN a.window : insert(a.window, entry)[k] = a.window[j]
    BY InsertKeeps, SMTT(30)
  <2> DEFINE v == insert(a.window, entry)
  <2>2. b.window = v
    BY <1>4, <1>10
  <2> HIDE DEF v
  <2>3. IsSeq(v)
    BY <2>1 DEF v
  <2>4. ASSUME NEW k \in DOMAIN v
        PROVE  \/ /\ v[k].incarnation = request.incarnation /\ v[k].sequence = request.sequence
                  /\ v[k].attempt = request.attempt
               \/ \E j \in DOMAIN a.window : v[k] = a.window[j]
    <3>1. v[k] = entry \/ \E j \in DOMAIN a.window : v[k] = a.window[j]
      BY <2>1, <2>4 DEF v
    <3> QED BY <1>3, <3>1
  <2>5. Entered(a.window, v, request)
    BY <2>3, <2>4 DEF Entered
  <2> QED BY <2>2, <2>5
<1>13. ASSUME NEW i, Stands(a, i) PROVE Stands(b, i)
  <2>1. known(a, i) /\ known(b, i)
    BY <1>4, <1>9, <1>13 DEF Stands, known
  <2>2. b.incarnations[i] = record_of(b, i) /\ a.incarnations[i] = record_of(a, i)
    BY <2>1 DEF record_of
  <2>3. /\ b.incarnations[i].state = a.incarnations[i].state
        /\ b.incarnations[i].reconciled_epoch = a.incarnations[i].reconciled_epoch
        /\ b.incarnations[i].reconciled_generation = a.incarnations[i].reconciled_generation
    BY <1>5, <1>6, <1>8, <1>9, <2>2
  <2> QED BY <1>4, <1>10, <1>13, <2>1, <2>3 DEF Stands, is_live
<1>14. \A i : Stands(a, i) => Stands(b, i)
  BY <1>13
<1> QED BY <1>11, <1>12, <1>14 DEF b

\* So a decided request makes one turn of its account.
LEMMA MovedTurn ==
  ASSUME NEW a, NEW m, NEW request, Moved(a, m, request), IsSeq(a.window), NEW reason, NEW applied
  PROVE  Turn(a, publish_window(m, request, reason, applied), request)
<1> DEFINE b == publish_window(m, request, reason, applied)
<1>1. Shaped(m) /\ m.window = a.window /\ IsSeq(m.window) /\ known(m, request.incarnation)
  BY DEF Moved
<1>2. /\ Published(m, b, request) /\ Entered(m.window, b.window, request)
      /\ \A i : Stands(m, i) => Stands(b, i)
  BY <1>1, PublishStands
<1> HIDE DEF b
<1>3. Shaped(b) /\ b.epoch = m.epoch /\ b.generation = m.generation
  BY <1>2 DEF Published, Grown
<1>4. /\ \A i : i # request.incarnation => record_of(b, i).last_sequence = record_of(a, i).last_sequence
      /\ record_of(b, request.incarnation).last_sequence = request.sequence
  BY <1>2 DEF Published, Moved
<1>5. Turn(a, b, request)
  BY <1>1, <1>2, <1>3, <1>4 DEF Turn, Moved, NextEra
<1> QED BY <1>5 DEF b

\* create_account_locked publishes an account in which the opener stands.
LEMMA OpenedAccount ==
  ASSUME NEW request
  PROVE  LET b == publish_window(new_account(request), request, "Ok", TRUE) IN
         /\ Shaped(b) /\ Entered(<<>>, b.window, request)
         /\ b.epoch = request.epoch /\ b.generation = request.generation
         /\ Stands(b, request.incarnation)
         /\ \A i : i # request.incarnation => record_of(b, i).last_sequence = 0
         /\ record_of(b, request.incarnation).last_sequence = request.sequence
<1> DEFINE who == request.incarnation
           new == [FreshRecord EXCEPT !.state = "Reconciled",
                     !.reconciled_epoch = request.epoch, !.reconciled_generation = request.generation,
                     !.reconciliation_proof = request.proof, !.committed_ops = 1]
           f == [i \in {who} |-> new]
           a == new_account(request)
           b == publish_window(a, request, "Ok", TRUE)
<1>1. DOMAIN FreshRecord = RecordFields /\ FreshRecord.last_sequence = 0
  BY DEF FreshRecord, RecordFields
<1>2. {"state", "reconciled_epoch", "reconciled_generation"} \subseteq RecordFields
  BY DEF RecordFields
<1>3. /\ DOMAIN new = RecordFields /\ new.state = "Reconciled"
      /\ new.reconciled_epoch = request.epoch /\ new.reconciled_generation = request.generation
  BY <1>1, <1>2
<1>4. /\ DOMAIN a = AccountFields /\ a.incarnations = f /\ a.window = <<>>
      /\ a.epoch = request.epoch /\ a.generation = request.generation
  BY DEF new_account, AccountFields
<1> HIDE DEF new
<1>5. DOMAIN f = {who} /\ f[who] = new
  OBVIOUS
<1> HIDE DEF f, a, b
<1>6. Shaped(a) /\ known(a, who) /\ IsSeq(a.window)
  BY <1>3, <1>4, <1>5, EmptySeq DEF Shaped, known
<1>7. Stands(a, who)
  BY <1>3, <1>4, <1>5, <1>6 DEF Stands, is_live
<1>8. \A i : i # who => record_of(a, i).last_sequence = 0
  BY <1>1, <1>4, <1>5 DEF record_of, known
<1>9. /\ Published(a, b, request) /\ Entered(a.window, b.window, request)
      /\ \A i : Stands(a, i) => Stands(b, i)
  BY <1>6, PublishStands DEF b
<1>10. /\ Shaped(b) /\ b.epoch = a.epoch /\ b.generation = a.generation
       /\ \A i : i # who => record_of(b, i) = record_of(a, i)
       /\ record_of(b, who).last_sequence = request.sequence
  BY <1>9 DEF Published, Grown
<1>11. /\ Stands(b, who) /\ Entered(<<>>, b.window, request)
       /\ \A i : i # who => record_of(b, i).last_sequence = 0
  BY <1>4, <1>7, <1>8, <1>9, <1>10
<1> QED BY <1>4, <1>10, <1>11 DEF a, b
=============================================================================
