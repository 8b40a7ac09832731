--------------------------- MODULE DurableEngine ---------------------------
(***************************************************************************)
(* The engine with its journal: persist_locked, snapshot_locked, the       *)
(* rollback and latch on a journal error, and recover, over a disk that    *)
(* may fail or be cut off at any write.                                    *)
(*                                                                         *)
(* The variables of CreditEngine are the engine's memory: account is the   *)
(* entry of accounts_, and serving is recovered_ and not journal_failed_.  *)
(*                                                                         *)
(*   journal_failed   the latch                                            *)
(*   ambiguous        the slots of the account's AmbiguousNotes            *)
(*   cursor           next: next_journal_sequence_;  chain: chain_;        *)
(*                    records: journal_records_;  torn: FileJournal::torn_ *)
(*   disk             journal: the records a replay would meet;            *)
(*                    torn: bytes after them that are no record;           *)
(*                    gap: the file is shorter than write_offset_;         *)
(*                    stray: the last record is beyond write_offset_;      *)
(*                    snapshot: the snapshot file                          *)
(*   recovered        what recover would make of the disk; not a variable  *)
(*                    of the code, it is recover(disk) in every state      *)
(*   orphans          the slots of the account with a durable intent and   *)
(*                    no durable decision; not a variable of the code      *)
(*                                                                         *)
(* The engine's mutex is held from admission to answer and nothing else    *)
(* touches the files, so a request and its disk writes are one step, in    *)
(* which a failure or the end of the process may fall between any two      *)
(* writes.  A digest is modelled by the fields it digests; the chain value *)
(* by the commits it was chained from.                                     *)
(***************************************************************************)
EXTENDS CreditEngine, SequencesExt

CONSTANTS
  RecordsPerSnapshot,  \* EngineLimits::journal_records_per_snapshot
  MaxAmbiguous,        \* EngineLimits::max_ambiguous_attempts
  Faults,              \* the journal calls that may fail in a run
  Snapshots,           \* whether snapshot() is called
  BytesFill,           \* whether the journal may reach EngineLimits::max_journal_bytes
  MaxJournalSequence,  \* bound on the journal's sequence numbers
  NoSnapshot

ASSUME DurableAssumption ==
  /\ RecordsPerSnapshot \in Nat \ {0} /\ MaxAmbiguous \in Nat \ {0}
  /\ Faults \subseteq {"append", "write_snapshot", "rotate", "rotate_flush"}
  /\ Snapshots \in BOOLEAN /\ BytesFill \in BOOLEAN /\ MaxJournalSequence \in Nat

VARIABLES journal_failed, ambiguous, cursor, disk, recovered, orphans

durable_vars == <<vars, journal_failed, ambiguous, cursor, disk, recovered, orphans>>

-----------------------------------------------------------------------------
\* account_digest: everything but the window, the proofs and the spent counter.
account_digest(a) ==
  [a EXCEPT !.window = <<>>, !.totals.spent = 0,
     !.incarnations = [i \in DOMAIN a.incarnations |->
                         [a.incarnations[i] EXCEPT !.reconciliation_proof = <<>>]]]

slot(request) == <<request.incarnation, request.sequence>>

\* mark_ambiguous: at the limit the oldest note makes room.
mark_ambiguous(notes, request) ==
  IF Contains(notes, slot(request)) THEN notes
  ELSE Append(IF Len(notes) >= MaxAmbiguous THEN Tail(notes) ELSE notes, slot(request))

resolve_ambiguous(notes, request) == SelectSeq(notes, LAMBDA n : n # slot(request))

(***************************************************************************)
(* The writes.  A stage is [disk, cursor].  A record written behind a gap  *)
(* is on the disk and out of a replay's reach.  A stray record is written  *)
(* over, and what was longer in it stays behind.                           *)
(***************************************************************************)
overwritten(d) ==
  IF d.stray THEN [d EXCEPT !.journal = Front(@), !.stray = FALSE, !.torn = TRUE] ELSE d

append(stage, record) ==
  LET d == overwritten(stage.disk)
  IN  IF d.gap THEN [d EXCEPT !.torn = TRUE] ELSE [d EXCEPT !.journal = Append(@, record)]

write_intent(stage, request) ==
  [disk   |-> append(stage, [kind |-> "Intent", sequence |-> stage.cursor.next, request |-> request]),
   cursor |-> [stage.cursor EXCEPT !.next = @ + 1]]

write_attempt(stage, request, d, created) ==
  LET chain == Append(stage.cursor.chain, stage.cursor.next) IN
  [disk   |-> append(stage, [kind |-> "Attempt", sequence |-> stage.cursor.next, chain |-> chain,
                             request |-> request, reason |-> d.reason, applied |-> d.applied,
                             created |-> created, digest |-> account_digest(d.account),
                             totals |-> d.account.totals]),
   cursor |-> [stage.cursor EXCEPT !.next = @ + 1, !.chain = chain, !.records = @ + 2]]

\* Mutant: the snapshot leaves the ambiguous notes out.
durable_state_unnoted(a, notes) ==
  [account |-> IF a = NoAccount THEN a
               ELSE [a EXCEPT !.window = [i \in DOMAIN a.window |-> forgotten(a.window[i])]],
   notes   |-> <<>>]

\* DurableState: of the window only the identities are kept.
durable_state(a, notes) ==
  [account |-> IF a = NoAccount THEN a
               ELSE [a EXCEPT !.window = [i \in DOMAIN a.window |-> forgotten(a.window[i])]],
   notes   |-> notes]

snapshot_record(stage, a, notes) ==
  [kind |-> "Snapshot", sequence |-> stage.cursor.next, chain |-> stage.cursor.chain,
   state |-> durable_state(a, notes)]

\* snapshot_locked: the record, the snapshot file, the rotation.
snapshot_stages(stage, a, notes) ==
  LET record  == snapshot_record(stage, a, notes)
      logged  == [disk   |-> append(stage, record),
                  cursor |-> [stage.cursor EXCEPT !.next = @ + 1, !.records = @ + 1]]
      filed   == [logged EXCEPT !.disk.snapshot = record]
      rotated == [disk   |-> [filed.disk EXCEPT !.journal = <<>>, !.torn = FALSE, !.gap = FALSE],
                  cursor |-> [filed.cursor EXCEPT !.records = 0, !.torn = FALSE]]
  IN  <<logged, filed, rotated>>

\* Mutant: the answer does not wait for the commit record.
persist_intent_only(request, d, created, full) ==
  LET start == [disk |-> disk, cursor |-> cursor] IN <<start, write_intent(start, request)>>

(***************************************************************************)
(* persist_locked: the intent, the commit record and, when it is due, a    *)
(* snapshot of the account as it is before the attempt is published.  It   *)
(* is due by the number of records or by their bytes; records have no size *)
(* here, and full says that they have come to max_journal_bytes.           *)
(***************************************************************************)
persist_stages(request, d, created, full) ==
  LET start     == [disk |-> disk, cursor |-> cursor]
      intended  == write_intent(start, request)
      committed == write_attempt(intended, request, d, created)
  IN  <<start, intended, committed>> \o
      IF committed.cursor.records >= RecordsPerSnapshot \/ full
        THEN snapshot_stages(committed, d.account, ambiguous) ELSE <<>>

-----------------------------------------------------------------------------
(***************************************************************************)
(* Replay.  apply_replay_transition and the bookkeeping of replay_attempt  *)
(* re-derive the account from a commit record; the result must have the    *)
(* digest that the record carries.                                         *)
(***************************************************************************)
replay_plan(a, request) ==
  CASE request.op \in DataOps       -> ledger_apply(a, request)
    [] request.op = "SetCapacity"   -> set_capacity(Plan(a), request.count, MaxCapacity, AllowGrowth)
    [] request.op \in {"AdvanceEpoch", "Rotate"} -> quarantine_in_flight(Plan(a))
    [] request.op = "Retire"        -> retire_stale(Plan(a), request.count)
    [] request.op = "Revalidate"    ->
         IF request.decision = "ToReturned" THEN revalidate_to_returned(Plan(a), request.count)
                                            ELSE revalidate_to_consumed(Plan(a), request.count)

Unplanned == {"Reconcile", "Fence", "RetireIncarnation", "Exhaust", "ClearExhaustion"}

\* Mutant: replay of SetCapacity does not install the capacity.
replay_totals_only(a, request) == [a EXCEPT !.totals = replay_plan(a, request).totals]

replay_ledger(a, request) ==
  [a EXCEPT !.capacity = replay_plan(a, request).capacity, !.totals = replay_plan(a, request).totals]

replay_transition(a, request) ==
  CASE request.op = "Exhaust"         -> [a EXCEPT !.hard_exhausted = TRUE]
    [] request.op = "ClearExhaustion" -> [a EXCEPT !.hard_exhausted = FALSE]
    [] request.op \in {"AdvanceEpoch", "Rotate"} ->
         [forget_liveness(replay_ledger(a, request)) EXCEPT
            !.epoch = IF request.op = "Rotate" THEN request.count ELSE @ + 1, !.generation = @ + 1]
    [] request.op = "Reconcile" ->
         with_record(a, request.incarnation,
           [record_of(a, request.incarnation) EXCEPT
              !.state = "Reconciled", !.reconciled_epoch = a.epoch,
              !.reconciled_generation = a.generation, !.reconciliation_proof = request.proof])
    [] request.op = "Fence" ->
         [with_record(a, request.target, [record_of(a, request.target) EXCEPT !.state = "Fenced"])
            EXCEPT !.fences = Append(@, request.target)]
    [] request.op = "RetireIncarnation" ->
         with_record(a, request.target, [record_of(a, request.target) EXCEPT !.state = "Retired"])
    [] request.op = "Issue" ->
         with_record(replay_ledger(a, request), request.incarnation,
                     bind(a.incarnations[request.incarnation], request, 4))
    [] OTHER -> replay_ledger(a, request)

replayable(a, request) ==
  /\ request.op \notin Unplanned => replay_plan(a, request).status = "Ok"
  /\ request.op = "Issue" => known(a, request.incarnation)
  /\ request.op = "RetireIncarnation" => known(a, request.target)

\* Mutant: replay does not count the decided refusals.
replayed_uncounted(a, record) ==
  LET request == record.request IN
  IF record.created THEN new_account(request)
  ELSE IF record.applied THEN count_committed(replay_transition(a, request), request.incarnation)
  ELSE a

\* The account after a commit record, before it is compared and published.
replayed(a, record) ==
  LET request == record.request IN
  IF record.created THEN new_account(request)
  ELSE IF record.applied THEN count_committed(replay_transition(a, request), request.incarnation)
  ELSE count_refused(a, request.incarnation)

\* What recover holds while it replays.
Refused(state, reason) == [state EXCEPT !.status = reason]

replay_attempt(state, record) ==
  LET a == replayed(state.account, record) IN
  IF record.chain # Append(state.chain, record.sequence) THEN Refused(state, "JournalDigestMismatch")
  ELSE IF record.created # (state.account = NoAccount) THEN Refused(state, "JournalCorrupt")
  ELSE IF record.applied /\ ~record.created /\ ~replayable(state.account, record.request)
    THEN Refused(state, "JournalDigestMismatch")
  ELSE IF account_digest(a) # record.digest \/ a.totals # record.totals
    THEN Refused(state, "JournalDigestMismatch")
  ELSE [status  |-> "Ok",
        account |-> publish_window(a, record.request, record.reason, record.applied),
        notes   |-> resolve_ambiguous(state.notes, record.request),
        next    |-> record.sequence + 1, chain |-> record.chain, records |-> state.records + 1]

\* Mutant: the identities of the window are not put back.
restore_without_window(state, record) ==
  [state EXCEPT !.account = IF record.state.account = NoAccount THEN NoAccount
                            ELSE [record.state.account EXCEPT !.window = <<>>],
                !.notes = record.state.notes,
                !.next = record.sequence + 1, !.chain = record.chain]

\* restore_durable_state, from the snapshot file or from a snapshot record.
restore(state, record) ==
  [state EXCEPT !.account = record.state.account, !.notes = record.state.notes,
                !.next = record.sequence + 1, !.chain = record.chain]

replay(state, record, covered) ==
  IF state.status # "Ok" \/ record.sequence <= covered THEN state
  ELSE CASE record.kind = "Intent"   -> IF state.account = NoAccount THEN state
                                        ELSE [state EXCEPT !.notes = mark_ambiguous(@, record.request)]
         [] record.kind = "Snapshot" -> restore(state, record)
         [] record.kind = "Attempt"  -> replay_attempt(state, record)

blank == [status |-> "Ok", account |-> NoAccount, notes |-> <<>>, next |-> 1, chain |-> <<>>, records |-> 0]

\* Durable bytes never restore liveness.
reset_liveness(state) ==
  IF state.status = "Ok" /\ state.account # NoAccount
    THEN [state EXCEPT !.account = forget_liveness(@)] ELSE state

\* recover: the snapshot file, then every record of the journal that is newer.
recover(d) ==
  LET start   == IF d.snapshot = NoSnapshot THEN blank ELSE restore(blank, d.snapshot)
      covered == IF d.snapshot = NoSnapshot THEN 0 ELSE d.snapshot.sequence
      upto[n \in 0..Len(d.journal)] ==
        IF n = 0 THEN start ELSE replay(upto[n - 1], d.journal[n], covered)
  IN  reset_liveness(upto[Len(d.journal)])

-----------------------------------------------------------------------------
DurableInit ==
  /\ Init
  /\ journal_failed = FALSE
  /\ ambiguous = <<>>
  /\ cursor = [next |-> 1, chain |-> <<>>, records |-> 0, torn |-> FALSE]
  /\ disk = [journal |-> <<>>, torn |-> FALSE, gap |-> FALSE, stray |-> FALSE, snapshot |-> NoSnapshot]
  /\ recovered = recover(disk)
  /\ orphans = {}

\* The decision on a request, Open included.
decision(request) ==
  IF request.op = "Open"
    THEN [reason |-> "Ok", applied |-> TRUE, decided |-> TRUE, account |-> new_account(request)]
    ELSE decide(account, request, boot)

May(request) ==
  /\ cursor.next <= MaxJournalSequence
  /\ IF request.op = "Open" THEN MayOpen(request) ELSE MayDecide(request)

\* Whether the commit record may fill the journal.
Full == IF BytesFill THEN BOOLEAN ELSE {FALSE}

\* The request is decided and every write succeeds, or it leaves no durable trace.
Apply(request, full) ==
  LET d      == decision(request)
      stages == persist_stages(request, d, request.op = "Open", full)
  IN  /\ May(request)
      /\ Become(Outcome(request, d))
      /\ IF d.decided
           THEN /\ ~cursor.torn
                /\ disk' = Last(stages).disk /\ cursor' = Last(stages).cursor
                /\ ambiguous' = resolve_ambiguous(ambiguous, request)
                /\ orphans' = orphans \ {slot(request)}
           ELSE UNCHANGED <<disk, cursor, ambiguous, orphans>>
      /\ UNCHANGED journal_failed

\* The calls between the stages of persist_locked and of snapshot_locked.
SnapshotCalls == <<"append", "write_snapshot", "rotate">>

PersistCalls == <<"append", "append">> \o SnapshotCalls

\* The disks that the j-th write may leave when it is cut off.
Cut(stages, calls, j) ==
  {stages[j].disk} \cup
  IF calls[j] = "append" THEN {[overwritten(stages[j].disk) EXCEPT !.torn = TRUE]} ELSE {}

\* A failed append or rotation may also have happened in full.
Botched(stages, calls, j) ==
  Cut(stages, calls, j) \cup
  IF calls[j] \in {"append", "rotate"} THEN {stages[j + 1].disk} ELSE {}

\* A replay of the disk d meets the commit record of the decision under way.
Committed(d) ==
  \/ \E i \in DOMAIN d.journal : d.journal[i].kind = "Attempt" /\ d.journal[i].sequence > cursor.next
  \/ d.snapshot # disk.snapshot

\* It meets the intent.
Intended(d) ==
  \E i \in DOMAIN d.journal : d.journal[i].kind = "Intent" /\ i > Len(overwritten(disk).journal)

\* restore_backup; a failed Open takes its account away again.
rollback(request, d) ==
  IF request.op = "Open" THEN NoAccount ELSE restore_backup(d, request.incarnation)

\* A boot ends over this request: a durable decision has happened, a durable
\* intent alone is an orphan.
Remember(request, d) ==
  IF Committed(disk')
    THEN /\ history' = Outcome(request, d).history
         /\ orphans' = orphans \ {slot(request)}
    ELSE /\ UNCHANGED history
         /\ orphans' = IF Intended(disk') /\ request.op # "Open"
                         THEN orphans \cup {slot(request)} ELSE orphans

(***************************************************************************)
(* A journal call fails: the mutation is rolled back, the engine latches   *)
(* and answers with a failure.                                             *)
(***************************************************************************)
FailApply(request, full) ==
  LET d      == decision(request)
      stages == persist_stages(request, d, request.op = "Open", full)
  IN  /\ May(request) /\ d.decided
      /\ \/ cursor.torn /\ disk' = disk
         \/ /\ ~cursor.torn
            /\ \E j \in 1..Len(stages) - 1 :
                 PersistCalls[j] \in Faults /\ disk' \in Botched(stages, PersistCalls, j)
      /\ serving' = FALSE /\ journal_failed' = TRUE
      /\ account' = rollback(request, d)
      /\ Remember(request, d)
      /\ UNCHANGED <<boot, ambiguous, cursor>>

\* The process is gone, and with it everything but the disk and its past.
Gone ==
  /\ boot < MaxBoots
  /\ serving' = FALSE /\ journal_failed' = FALSE
  /\ account' = NoAccount /\ ambiguous' = <<>>
  /\ cursor' = [next |-> 1, chain |-> <<>>, records |-> 0, torn |-> FALSE]
  /\ UNCHANGED boot

\* The disks that a process leaves that ends during these writes or right after.
Leftovers(stages, calls) ==
  {Last(stages).disk} \cup UNION {Cut(stages, calls, j) : j \in 1..Len(stages) - 1}

CrashApply(request, full) ==
  LET d == decision(request) IN
  /\ May(request) /\ d.decided /\ ~cursor.torn
  /\ disk' \in Leftovers(persist_stages(request, d, request.op = "Open", full), PersistCalls)
  /\ Remember(request, d)
  /\ Gone

CrashIdle == serving /\ Gone /\ UNCHANGED <<disk, history, orphans>>

-----------------------------------------------------------------------------
\* CreditEngine::snapshot, which does not latch when it fails.
manual_stages ==
  LET start == [disk |-> disk, cursor |-> cursor]
  IN  <<start>> \o snapshot_stages(start, account, ambiguous)

MaySnapshot == Snapshots /\ serving /\ ~cursor.torn /\ cursor.next <= MaxJournalSequence

Snapshot ==
  /\ MaySnapshot
  /\ disk' = Last(manual_stages).disk /\ cursor' = Last(manual_stages).cursor
  /\ UNCHANGED <<vars, journal_failed, ambiguous, orphans>>

(***************************************************************************)
(* The engine goes on after a failure.  An append that fails at its flush  *)
(* has written its record and not moved write_offset_; a rotation that     *)
(* fails at its last flush has truncated the file and not moved it either. *)
(***************************************************************************)
FailSnapshot ==
  /\ MaySnapshot
  /\ \/ \E j \in 1..3 : /\ SnapshotCalls[j] \in Faults
                        /\ disk' \in Cut(manual_stages, SnapshotCalls, j)
                        /\ cursor' = manual_stages[j].cursor
     \/ /\ "append" \in Faults
        /\ disk' = [manual_stages[2].disk EXCEPT !.stray = ~disk.gap]
        /\ UNCHANGED cursor
     \/ /\ "rotate_flush" \in Faults
        /\ disk' = [Last(manual_stages).disk EXCEPT !.gap = TRUE]
        /\ cursor' = manual_stages[3].cursor
  /\ UNCHANGED <<vars, journal_failed, ambiguous, orphans>>

CrashSnapshot ==
  /\ MaySnapshot
  /\ disk' \in Leftovers(manual_stages, SnapshotCalls)
  /\ UNCHANGED <<history, orphans>>
  /\ Gone

(***************************************************************************)
(* The next boot: recover succeeds, end_replay cuts off what was torn, and *)
(* the journal object still counts as torn.                                *)
(***************************************************************************)
Recover ==
  /\ ~serving /\ boot < MaxBoots
  /\ recovered.status = "Ok"
  /\ serving' = TRUE /\ journal_failed' = FALSE
  /\ boot' = boot + 1
  /\ account' = recovered.account
  /\ ambiguous' = recovered.notes
  /\ cursor' = [next |-> recovered.next, chain |-> recovered.chain,
                 records |-> recovered.records, torn |-> disk.torn]
  /\ disk' = [disk EXCEPT !.torn = FALSE, !.gap = FALSE, !.stray = FALSE]
  /\ UNCHANGED <<history, orphans>>

Step ==
  \/ /\ serving
     /\ \E request \in IF account = NoAccount THEN Opens
                       ELSE IF Len(history) < MaxDecisions THEN UNION {Requests(op) : op \in Ops}
                       ELSE {} :
          \E full \in Full :
            Apply(request, full) \/ FailApply(request, full) \/ CrashApply(request, full)
  \/ CrashIdle
  \/ Snapshot \/ FailSnapshot \/ CrashSnapshot
  \/ Recover

DurableNext == Step /\ recovered' = recover(disk')

DurableSpec == DurableInit /\ [][DurableNext]_durable_vars

-----------------------------------------------------------------------------
(* Properties.                                                             *)

\* The engine as its callers see it: in memory while it serves, else on disk.  A
\* journal that fails ends a boot, the last one of a run included.
Engine == INSTANCE CreditEngine WITH account <- IF serving THEN account ELSE recovered.account,
                                     MaxBoots <- MaxBoots + 1

(***************************************************************************)
(* The journalled engine implements CreditEngine: whatever fails and       *)
(* whenever the process ends, an acknowledged decision is there after      *)
(* recovery, an unacknowledged one is there whole or not at all, and       *)
(* recovery changes nothing but liveness and the recall of the window.     *)
(***************************************************************************)
EngineSpec == Engine!Spec

(***************************************************************************)
(* If the process ended now, the next one would come up: replay re-derives *)
(* every digest it finds in the journal.                                   *)
(***************************************************************************)
RecoverySucceeds == recovered.status = "Ok"

(***************************************************************************)
(* A journal failure rolls the in-memory mutation back, whatever the       *)
(* operation and whichever incarnations it touched, but for what           *)
(* restore_backup does not keep: a failed AdvanceEpoch or Rotate leaves    *)
(* the other incarnations without the standing they had, and nothing else; *)
(* a failed refusal of an Issue leaves the caller the role it was bound to *)
(* before the backup was taken, and nothing else.                          *)
(***************************************************************************)
RollbackExact ==
  [][serving /\ journal_failed' /\ account' # account =>
       /\ account # NoAccount
       /\ \E request \in UNION {Requests(op) : op \in Ops \cap {"AdvanceEpoch", "Rotate", "Issue"}} :
            LET who    == request.incarnation
                record == record_of(account, who)
            IN  /\ \E full \in Full : FailApply(request, full)
                /\ account' = IF request.op = "Issue"
                     THEN with_record(account, who, [record EXCEPT !.producer = request.producer])
                     ELSE with_record(forget_liveness(account), who, record)]_durable_vars

(***************************************************************************)
(* After recovery the ambiguous notes are exactly the attempts whose       *)
(* intent is durable and whose decision is not: none is lost by a restart  *)
(* or a snapshot, and a note goes when its slot is decided and not before. *)
(***************************************************************************)
AmbiguityExact == serving => {ambiguous[i] : i \in DOMAIN ambiguous} = orphans

-----------------------------------------------------------------------------
(* What the README says of the journal and the code does not do.           *)

(***************************************************************************)
(* A journal failure rolls back the in-memory mutation exactly (README     *)
(* 347).  restore_backup keeps the caller's record and the target's, and a *)
(* failed AdvanceEpoch has reset the others'.                              *)
(***************************************************************************)
RollbackComplete == [][serving /\ journal_failed' => account' = account]_durable_vars

(***************************************************************************)
(* A torn tail is truncated before the next append resumes (README 331).   *)
(* end_replay truncates it and leaves torn_ set, and append refuses.       *)
(***************************************************************************)
AppendsResume == serving => ~cursor.torn

(***************************************************************************)
(* A conflict is a request that differs from the one that took its slot    *)
(* (README, attempt identity, rules 1 and 2); an attempt whose outcome was *)
(* dropped by a snapshot is a stale replay (remaining limitations, 6).     *)
(* The identities that restore_durable_state puts back into the window     *)
(* carry no digest, and an identical retry compares unequal.               *)
(***************************************************************************)
RetryIsNoConflict ==
  account # NoAccount =>
    \A i \in Past : admission(account, history[i].request) # "AttemptConflict"

(***************************************************************************)
(* Work that is not decided never mutates authoritative state (README      *)
(* 404).  An error after the commit record reached the disk is answered    *)
(* with decided = false, and the decision is there after the restart.      *)
(***************************************************************************)
UndecidedLeavesNoTrace ==
  [][serving /\ journal_failed' => recovered'.account = recovered.account]_durable_vars

(***************************************************************************)
(* No acknowledgement before durability (README 347): what the engine      *)
(* holds in memory, liveness apart, is what it would recover.              *)
(***************************************************************************)
AcknowledgedIsDurable ==
  serving /\ account # NoAccount =>
    /\ recovered.account # NoAccount
    /\ account_digest(recovered.account) = account_digest(forget_liveness(account))
=============================================================================
