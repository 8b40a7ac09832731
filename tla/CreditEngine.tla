---------------------------- MODULE CreditEngine ----------------------------
(***************************************************************************)
(* The engine as its callers see it: requests are decided one at a time    *)
(* under the engine's mutex, a decided request is durable, and a boot ends *)
(* at any moment.  How the journal makes that so is DurableEngine, which   *)
(* is checked against this specification.                                  *)
(*                                                                         *)
(*   account    the account, or NoAccount before Open                      *)
(*   serving    the engine is recovered and its journal has not failed     *)
(*   boot       the number of this boot; the nonce of its challenge        *)
(*   history    every decided request so far, in order                     *)
(*                                                                         *)
(* A request that is refused without a durable trace changes nothing and   *)
(* is a stuttering step, with one exception in `fence'.                    *)
(***************************************************************************)
EXTENDS CreditAccount

CONSTANTS
  NoAccount,
  Ops,            \* the operations callers use
  Counts,         \* counts, capacities and epochs callers ask for
  Producers,      \* producer identities an Issue may carry
  MaxSequence,    \* bound on the sequence numbers presented
  MaxDecisions,   \* bound on the requests decided
  MaxBoots        \* bound on the boots

ASSUME EngineAssumption ==
  /\ Ops \subseteq DataOps \cup ControlOps
  /\ Counts \subseteq U64 /\ MaxSequence \in U64
  /\ MaxDecisions \in Nat /\ MaxBoots \in Nat \ {0}
  /\ Unset \notin Nat

VARIABLES account, serving, boot, history

vars == <<account, serving, boot, history>>

Init ==
  /\ account = NoAccount
  /\ serving = TRUE
  /\ boot = 1
  /\ history = <<>>

-----------------------------------------------------------------------------
(***************************************************************************)
(* What callers send.  A caller quotes the current era or the first one,   *)
(* any sequence number, and an attempt identity that is fresh or was used  *)
(* before; a proof answers the challenge of this boot or of an earlier.    *)
(***************************************************************************)
Eras == {<<1, 1>>, <<account.epoch, account.generation>>}

Headers(op) ==
  {CreditRequest(op, who, era[1], era[2], sequence, attempt) :
     who \in Incarnations, era \in Eras, sequence \in 1..MaxSequence,
     attempt \in 1..Len(history) + 1}

Counted(op) == {[r EXCEPT !.count = n] : r \in Headers(op), n \in Counts}

Proven(r) == {[r EXCEPT !.proof = challenge(n, r.incarnation, r.epoch, r.generation)] : n \in 1..boot}

Opens ==
  UNION {Proven(CreditRequest("Open", who, 1, 1, sequence, 1)) :
           who \in Incarnations, sequence \in 1..MaxSequence}

Requests(op) ==
  CASE op = "Reconcile" -> UNION {Proven(r) : r \in Headers(op)}
    [] op = "Issue" -> {[r EXCEPT !.producer = p] : r \in Counted(op), p \in Producers \cup {Unset}}
    [] op \in {"Consume", "Return", "Protect", "Unprotect", "SetCapacity", "Rotate", "Retire"} -> Counted(op)
    [] op = "Revalidate" ->
         {[r EXCEPT !.decision = d] : r \in Counted(op), d \in {"None", "ToReturned", "ToConsumed"}}
    [] op \in {"Fence", "RetireIncarnation"} ->
         {[r EXCEPT !.target = t] : r \in Headers(op), t \in Incarnations}
    [] op = "Exhaust" -> {[r EXCEPT !.cause = c] : r \in Headers(op), c \in {"Ok", "UnknownState"}}
    [] op = "AdvanceEpoch" -> {[r EXCEPT !.expected = x] : r \in Headers(op), x \in {"none", "stale"}}
    [] op = "ClearExhaustion" -> Headers(op)

-----------------------------------------------------------------------------
Decided(request, reason, applied) ==
  [request |-> request, reason |-> reason, applied |-> applied]

(***************************************************************************)
(* The account and the history once a request has been decided.            *)
(***************************************************************************)
Outcome(request, d) ==
  IF d.decided
    THEN [account |-> publish_window(d.account, request, d.reason, d.applied),
          history |-> Append(history, Decided(request, d.reason, d.applied))]
    ELSE [account |-> d.account, history |-> history]

OpenOutcome(request) ==
  [account |-> publish_window(new_account(request), request, "Ok", TRUE),
   history |-> Append(history, Decided(request, "Ok", TRUE))]

MayDecide(request) ==
  /\ serving /\ account # NoAccount
  /\ admission(account, request) = "Ok"

MayOpen(request) ==
  /\ serving /\ account = NoAccount
  /\ open_verdict(request, boot) = "Ok"

Become(outcome) ==
  /\ account' = outcome.account
  /\ history' = outcome.history
  /\ UNCHANGED <<serving, boot>>

\* apply_locked for every operation but Describe, which only reads, and Open.
Decide(request) == MayDecide(request) /\ Become(Outcome(request, decide(account, request, boot)))

Open(request) == MayOpen(request) /\ Become(OpenOutcome(request))

-----------------------------------------------------------------------------
(***************************************************************************)
(* The end of a boot: the account fades to what is durable of it.          *)
(***************************************************************************)
EndBoot(outcome) ==
  /\ boot < MaxBoots
  /\ serving' = FALSE
  /\ history' = outcome.history
  /\ UNCHANGED boot
  /\ IF outcome.account = NoAccount THEN account' = NoAccount
     ELSE \E n \in 0..Len(outcome.account.window) : account' = faded(outcome.account, n)

\* The process ends, or its journal fails, between two decisions.
Crash == serving /\ EndBoot([account |-> account, history |-> history])

\* It ends after a decision became durable and before the caller has its answer.
Interrupted(request) ==
  MayDecide(request) /\ EndBoot(Outcome(request, decide(account, request, boot)))

InterruptedOpen(request) == MayOpen(request) /\ EndBoot(OpenOutcome(request))

\* The next boot has recovered.
Restart ==
  /\ ~serving
  /\ serving' = TRUE
  /\ boot' = boot + 1
  /\ UNCHANGED <<account, history>>

Next ==
  \/ Crash
  \/ Restart
  \/ \E request \in Opens : Open(request) \/ InterruptedOpen(request)
  \/ /\ serving /\ account # NoAccount /\ Len(history) < MaxDecisions
     /\ \E op \in Ops : \E request \in Requests(op) : Decide(request) \/ Interrupted(request)

Spec == Init /\ [][Next]_vars

-----------------------------------------------------------------------------
(* Types.                                                                  *)

Proofs == {<<>>} \cup (Nat \X Incarnations \X U64 \X U64)

AuthorityState == {"Unknown", "Reconciled", "Fenced", "Retired"}

IncarnationRecord ==
  [state : AuthorityState, reconciled_epoch : U64, reconciled_generation : U64,
   reconciliation_proof : Proofs, producer : Producers \cup {Unset},
   consumer : {Unset}, grant : {Unset},
   last_sequence : U64, committed_ops : Nat, refused_ops : Nat]

\* The types of the account, its ledger included, in the engine.
TypeOK ==
  /\ serving \in BOOLEAN
  /\ boot \in Nat \ {0}
  /\ account # NoAccount =>
       /\ account.epoch \in U64 /\ account.generation \in U64 /\ account.capacity \in U64
       /\ account.totals \in CreditTotals
       /\ account.hard_exhausted \in BOOLEAN
       /\ DOMAIN account.incarnations \subseteq Incarnations
       /\ \A i \in DOMAIN account.incarnations : account.incarnations[i] \in IncarnationRecord

-----------------------------------------------------------------------------
(* Properties.                                                             *)

Past == DOMAIN history

Slot(entry) == <<entry.request.incarnation, entry.request.sequence>>

(***************************************************************************)
(* A slot (incarnation, sequence) is decided at most once, across retries, *)
(* window evictions, crashes and restarts.                                 *)
(***************************************************************************)
DecidedOnce == \A i, j \in Past : Slot(history[i]) = Slot(history[j]) => i = j

(***************************************************************************)
(* The watermark of an incarnation is exact: the slots decided for it are  *)
(* 1 to last_sequence, with no gap and nothing beyond.                     *)
(***************************************************************************)
WatermarkExact ==
  account # NoAccount =>
    \A who \in Incarnations :
      {history[i].request.sequence : i \in {k \in Past : history[k].request.incarnation = who}}
        = 1..record_of(account, who).last_sequence

(***************************************************************************)
(* A retry is answered and not executed: no request that was decided is    *)
(* ever admitted again; if the window answers it, the answer is the        *)
(* recorded one; and the window never answers a request that differs.      *)
(***************************************************************************)
RetryIsAnswered ==
  account # NoAccount =>
    \A i \in Past :
      LET request == history[i].request
          other   == [request EXCEPT !.count = @ + 1]
          entry   == find(account.window, request.incarnation, request.sequence)
      IN  /\ admission(account, request) # "Ok"
          /\ admission(account, request) = "Duplicate" =>
               entry.reason = history[i].reason /\ entry.applied = history[i].applied
          /\ admission(account, other) \notin {"Ok", "Duplicate"}

(***************************************************************************)
(* A fence is for ever: the fenced state and the fence list agree, and     *)
(* after an applied Fence no request of its target is decided, whatever    *)
(* eras and boots follow.                                                  *)
(***************************************************************************)
FencedForEver ==
  account # NoAccount =>
    /\ \A who \in Incarnations : is_fenced(account, who) <=> record_of(account, who).state = "Fenced"
    /\ \A i, j \in Past :
         (i < j /\ history[i].request.op = "Fence" /\ history[i].applied)
           => history[j].request.incarnation # history[i].request.target

(***************************************************************************)
(* Who is live has answered the challenge of this boot in this era: proofs *)
(* of an earlier boot or era open nothing.                                 *)
(***************************************************************************)
LiveByThisChallenge ==
  account # NoAccount =>
    \A who \in DOMAIN account.incarnations :
      account.incarnations[who].state = "Reconciled" =>
        /\ serving
        /\ account.incarnations[who].reconciliation_proof
             = challenge(boot, who, account.epoch, account.generation)

(***************************************************************************)
(* Credit that can still be consumed was issued in the current era: what   *)
(* an earlier era left in flight is stale and never becomes live again,    *)
(* whatever the operator then decides about it.                            *)
(***************************************************************************)
IssuedBy(entry, generation) ==
  IF entry.request.op = "Issue" /\ entry.applied /\ entry.request.generation = generation
    THEN entry.request.count ELSE 0

\* What the first n decisions of h issued in the era, for every n.
IssuedUpTo(h, generation) ==
  LET upto[n \in 0..Len(h)] ==
        IF n = 0 THEN 0 ELSE upto[n - 1] + IssuedBy(h[n], generation)
  IN  upto

IssuedThisEra == IssuedUpTo(history, account.generation)[Len(history)]

NothingOutlivesItsEra ==
  account # NoAccount =>
    view(Plan(account)).outstanding <= IssuedThisEra

(***************************************************************************)
(* Only the operator's control requests are ever decided, Open apart.      *)
(***************************************************************************)
OperatorControls ==
  \A i \in Past : history[i].request.op \in ControlOps => history[i].request.incarnation = Operator

(***************************************************************************)
(* What a step may do to the authority: an era never comes back, a fence   *)
(* and a retirement are never undone, a watermark never moves back.        *)
(***************************************************************************)
AuthorityStep ==
  account # NoAccount =>
    /\ account' # NoAccount
    /\ \/ account'.generation = account.generation /\ account'.epoch = account.epoch
       \/ account'.generation = account.generation + 1 /\ account'.epoch > account.epoch
    /\ \A who \in DOMAIN account.incarnations :
         LET old == account.incarnations[who]
             new == account'.incarnations[who]
         IN  /\ old.state = "Fenced" => new.state = "Fenced"
             /\ old.state = "Retired" => new.state \in {"Retired", "Fenced"}
             /\ new.last_sequence >= old.last_sequence

AuthorityMonotone == [][AuthorityStep]_vars

-----------------------------------------------------------------------------
(* What the comments and the README say and the code does not do.          *)

(***************************************************************************)
(* Open is a control operation (engine.hpp:37), control operations need    *)
(* the operator's incarnation (engine.hpp:64), so only the operator opens  *)
(* an account.  apply_locked leaves for create_account_locked before it    *)
(* compares the caller with the operator.                                  *)
(***************************************************************************)
OpenNeedsOperator ==
  \A i \in Past : history[i].request.op = "Open" => history[i].request.incarnation = Operator

(***************************************************************************)
(* A retired incarnation may be re-opened by reconciliation                *)
(* (authority.hpp:30).  apply_locked refuses its Reconcile.                *)
(***************************************************************************)
RetiredMayReopen ==
  account # NoAccount =>
    \A who \in DOMAIN account.incarnations :
      account.incarnations[who].state = "Retired" =>
        authority_verdict(account,
          CreditRequest("Reconcile", who, account.epoch, account.generation,
                        account.incarnations[who].last_sequence + 1, Len(history) + 1)) = "Ok"

(***************************************************************************)
(* An answer with `decided' set means that the attempt consumed its        *)
(* sequence (engine.hpp:113).  The two answers apply_locked gives from the *)
(* window carry the flag, and a conflict over the attempt identity is      *)
(* found before the sequence is placed.                                    *)
(***************************************************************************)
DecidedConsumesSlot ==
  account # NoAccount =>
    \A op \in Ops : \A request \in Requests(op) :
      admission(account, request) \in {"Duplicate", "AttemptConflict"} =>
        request.sequence <= record_of(account, request.incarnation).last_sequence
=============================================================================
