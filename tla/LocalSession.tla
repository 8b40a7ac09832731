---------------------------- MODULE LocalSession ----------------------------
(***************************************************************************)
(* The command line tools that own an engine: cfctl without --port runs    *)
(* one command in a LocalSession (src/apps/local_session.hpp), and         *)
(* cf_coordinator, which opens the account in such a session when it is    *)
(* started with --open, then serves clients.  They take turns on one       *)
(* journal, always as the same incarnation, the operator; each is a boot   *)
(* of the engine, and each may be killed at any point.                     *)
(*                                                                         *)
(*   process   the tool that is running, or "none"                         *)
(*   session   its LocalSession: the command, the engine call that comes   *)
(*             next (phase), authority_, sequence_, reconciled_, the turns *)
(*             taken in the loops of reconcile (tries) and call (retries), *)
(*             the answer; and, as a ghost, the length of the history when *)
(*             the tool started                                            *)
(*                                                                         *)
(* A step of a session is one call of the engine.                          *)
(***************************************************************************)
EXTENDS CreditEngine

CONSTANTS
  Commands,    \* the operations that cfctl is asked for
  MaxTries     \* turns of the loops of reconcile and call

ASSUME SessionAssumption ==
  /\ Commands \subseteq DataOps \cup ControlOps \cup {"Open"}
  /\ MaxTries \in Nat \ {0}

VARIABLES process, session

toolvars == <<vars, process, session>>

NoSession == [phase |-> "none"]

\* LocalSession as constructed: main decides which member it calls first.
NewSession(command) ==
  [command |-> command, phase |-> IF command.op = "Open" THEN "open" ELSE "explain",
   reconciled |-> FALSE, epoch |-> 0, generation |-> 0, sequence |-> 1,
   tries |-> 0, retries |-> 0, answer |-> "none", started |-> Len(history)]

SessionInit == Init /\ process = "none" /\ session = NoSession

-----------------------------------------------------------------------------
(* The command line.                                                       *)

Bare(op) == CreditRequest(op, Operator, 0, 0, 0, Unset)

Numbered(op) == {[Bare(op) EXCEPT !.count = n] : n \in Counts \cup {0}}

\* build_request: what the options make of a command; Rotate is epoch with --to.
build_request(op) ==
  CASE op \in {"Open", "Reconcile", "AdvanceEpoch", "ClearExhaustion"} -> {Bare(op)}
    [] op = "Issue" -> {[r EXCEPT !.producer = p] : r \in Numbered(op), p \in Producers \cup {Unset}}
    [] op = "Rotate" -> {r \in Numbered(op) : r.count # 0}
    [] op = "Revalidate" ->
         {[r EXCEPT !.decision = d] : r \in Numbered(op), d \in {"None", "ToReturned", "ToConsumed"}}
    [] op = "Exhaust" -> {[Bare(op) EXCEPT !.cause = c] : c \in {"Ok", "UnknownState"}}
    [] op = "Fence" ->
         {[Bare(op) EXCEPT !.target = t, !.cause = c] :
            t \in Incarnations \cup {Unset}, c \in {"Ok", "UnknownState"}}
    [] OTHER -> Numbered(op)

-----------------------------------------------------------------------------
(* The engine's answer.                                                    *)

watermark == record_of(account, Operator).last_sequence

verdict(request) ==
  IF request.op = "Open"
    THEN IF account # NoAccount THEN "AccountExists" ELSE open_verdict(request, boot)
  ELSE IF account = NoAccount THEN "AccountUnknown"
  ELSE admission(account, request)

\* Status::detail of the two placement refusals.
detail(reason) ==
  CASE reason = "StaleReplay" -> watermark
    [] reason = "SequenceGap" -> watermark + 1
    [] OTHER -> 0

outcome_of(request) ==
  LET refusal == verdict(request) IN
  IF refusal # "Ok"
    THEN [reason |-> refusal, decided |-> refusal \in {"Duplicate", "AttemptConflict"},
          detail |-> detail(refusal)]
  ELSE IF request.op = "Open" THEN [reason |-> "Ok", decided |-> TRUE, detail |-> 0]
  ELSE LET d == decide(account, request, boot)
       IN  [reason |-> d.reason, decided |-> d.decided, detail |-> 0]

effect(request) ==
  IF verdict(request) # "Ok" THEN [account |-> account, history |-> history]
  ELSE IF request.op = "Open" THEN OpenOutcome(request)
  ELSE Outcome(request, decide(account, request, boot))

-----------------------------------------------------------------------------
(* LocalSession.                                                           *)

\* sequence_ is a 64-bit counter.
after(sequence) == (sequence + 1) % (MaxU64 + 1)

return(s, reason) == [s EXCEPT !.phase = "done", !.answer = reason]

\* A SequenceGap or a StaleReplay says where the next attempt goes.
misplaced(reason) == reason \in {"SequenceGap", "StaleReplay"}

corrected(s, outcome) ==
  [s EXCEPT !.sequence = IF outcome.reason = "SequenceGap" THEN outcome.detail
                                                           ELSE after(outcome.detail)]

\* open
opened(s, outcome) ==
  LET ok == outcome.reason = "Ok" IN
  return([s EXCEPT !.sequence = IF outcome.decided THEN 2 ELSE @, !.reconciled = ok,
                   !.epoch = IF ok THEN 1 ELSE @, !.generation = IF ok THEN 1 ELSE @],
         outcome.reason)

\* reconcile: the era, as explain shows it
explained(s) ==
  IF account = NoAccount THEN return(s, "AccountUnknown")
  ELSE [s EXCEPT !.phase = "probe", !.epoch = account.epoch, !.generation = account.generation]

\* Mutant: the probe's watermark is taken for the next sequence.
probed_at_watermark(s) == [s EXCEPT !.phase = "reconcile", !.tries = 0, !.sequence = watermark]

\* reconcile: the watermark, as Describe reports it
probed(s) == [s EXCEPT !.phase = "reconcile", !.tries = 0, !.sequence = after(watermark)]

\* call: its loop is entered, or left after its last turn
turn(s) == IF s.retries = MaxTries THEN return(s, "BudgetExceeded") ELSE [s EXCEPT !.phase = "call"]

\* reconcile: a turn of its loop
reconciled(s, outcome) ==
  IF outcome.reason = "Ok"
    THEN LET live == [s EXCEPT !.sequence = after(@), !.reconciled = TRUE]
         IN  IF s.command.op = "Reconcile" THEN return(live, "Ok") ELSE turn(live)
  ELSE IF ~misplaced(outcome.reason) THEN return(s, outcome.reason)
  ELSE IF s.tries + 1 = MaxTries THEN return(s, "BudgetExceeded")
  ELSE [corrected(s, outcome) EXCEPT !.tries = @ + 1]

lost_standing(reason) ==
  reason \in {"ReconciliationRequired", "UnknownIncarnation", "StaleAuthority"}

\* Mutant: only an applied attempt ends the loop, a decided refusal does not.
called_until_ok(s, outcome) ==
  IF outcome.reason = "Ok" THEN return([s EXCEPT !.sequence = after(@)], "Ok")
  ELSE [s EXCEPT !.phase = "explain", !.retries = @ + 1]

\* call: a turn of its loop; a lost standing is reconciled before the next
called(s, outcome) ==
  IF outcome.decided THEN return([s EXCEPT !.sequence = after(@)], outcome.reason)
  ELSE IF misplaced(outcome.reason) THEN turn([corrected(s, outcome) EXCEPT !.retries = @ + 1])
  ELSE IF lost_standing(outcome.reason) THEN [s EXCEPT !.phase = "explain", !.retries = @ + 1]
  ELSE return(s, outcome.reason)

\* The request of the next call of the engine; attempts_.next() is always fresh.
presented ==
  LET s       == session
      fresh   == Len(history) + 1
      placed  == CreditRequest("Reconcile", Operator, s.epoch, s.generation, s.sequence, fresh)
  IN  CASE s.phase = "open" ->
             [CreditRequest("Open", Operator, 1, 1, 1, fresh) EXCEPT !.proof = challenge(boot, Operator, 1, 1)]
        [] s.phase = "reconcile" ->
             [placed EXCEPT !.proof = challenge(boot, Operator, s.epoch, s.generation)]
        [] s.phase = "call" ->
             [s.command EXCEPT !.epoch = s.epoch, !.generation = s.generation,
                               !.sequence = s.sequence, !.attempt = fresh]

continue(outcome) ==
  CASE session.phase = "open"      -> opened(session, outcome)
    [] session.phase = "reconcile" -> reconciled(session, outcome)
    [] session.phase = "call"      -> called(session, outcome)

-----------------------------------------------------------------------------
(* The processes.                                                          *)

Applying == session.phase \in {"open", "reconcile", "call"}

\* The next tool has been started and has recovered the engine.
Cfctl(command) ==
  /\ process = "none" /\ serving
  /\ process' = "cfctl" /\ session' = NewSession(command)
  /\ UNCHANGED vars

CfCoordinator(open) ==
  /\ process = "none" /\ serving
  /\ process' = "coordinator"
  /\ session' = IF open THEN NewSession(Bare("Open")) ELSE NoSession
  /\ UNCHANGED vars

Read ==
  /\ session' = CASE session.phase = "explain" -> explained(session)
                  [] session.phase = "probe" -> probed(session)
  /\ UNCHANGED <<vars, process>>

Apply ==
  /\ Become(effect(presented))
  /\ session' = continue(outcome_of(presented))
  /\ UNCHANGED process

\* The journal fails the attempt, which may be durable all the same.
JournalFails ==
  /\ outcome_of(presented).decided
  /\ EndBoot(effect(presented)) \/ EndBoot([account |-> account, history |-> history])
  /\ session' = return(session, "IoError")
  /\ UNCHANGED process

\* The account is open, the server starts.
Listen ==
  /\ process = "coordinator" /\ session.phase = "done" /\ session.answer = "Ok"
  /\ session' = NoSession
  /\ UNCHANGED <<vars, process>>

Serve(request) ==
  /\ process = "coordinator" /\ session = NoSession
  /\ Decide(request)
  /\ UNCHANGED <<process, session>>

Gone == process' = "none" /\ session' = NoSession

Exit ==
  /\ session.phase = "done" /\ (process = "cfctl" \/ session.answer # "Ok")
  /\ Gone
  /\ IF serving THEN Crash ELSE UNCHANGED vars

Killed == process # "none" /\ Gone /\ Crash

\* The process is killed when its attempt is durable and it has not seen the answer.
KilledBeforeAnswer == outcome_of(presented).decided /\ Gone /\ EndBoot(effect(presented))

Recover == process = "none" /\ Restart /\ UNCHANGED <<process, session>>

SessionNext ==
  \/ \E op \in Commands : \E command \in build_request(op) : Cfctl(command)
  \/ \E open \in BOOLEAN : CfCoordinator(open)
  \/ session.phase \in {"explain", "probe"} /\ Read
  \/ Applying /\ (Apply \/ JournalFails \/ KilledBeforeAnswer)
  \/ Listen
  \/ /\ account # NoAccount /\ Len(history) < MaxDecisions
     /\ \E op \in Ops : \E request \in Requests(op) : Serve(request)
  \/ Exit
  \/ Killed
  \/ Recover

SessionSpec == SessionInit /\ [][SessionNext]_toolvars

-----------------------------------------------------------------------------
(* Properties.                                                             *)

Added == SubSeq(history, session.started + 1, Len(history))

\* What one run of a tool may have decided, in this order.
Course == IF session.command.op \in {"Open", "Reconcile"} THEN <<session.command.op>>
                                                          ELSE <<"Reconcile", session.command.op>>

(***************************************************************************)
(* A command has one effect.  Whatever was served, killed or failed before *)
(* it, LocalSession decides one Reconcile and then the command, each at    *)
(* most once and nothing else; the answer it gives is the decision on the  *)
(* command, and an answer of Ok is given only when the command was         *)
(* decided.  After a failure of the journal the answer says neither.       *)
(***************************************************************************)
CommandDecidedOnce ==
  session # NoSession =>
    /\ Len(Added) <= Len(Course)
    /\ \A i \in DOMAIN Added :
         Added[i].request.op = Course[i] /\ Added[i].request.incarnation = Operator
    /\ session.phase = "done" /\ session.answer # "IoError" =>
         IF Len(Added) = Len(Course) THEN session.answer = Added[Len(Added)].reason
                                     ELSE session.answer # "Ok"

(***************************************************************************)
(* The probe is exact.  Each run of a tool starts with nothing but the     *)
(* operator's name, in a boot and maybe an era that its predecessors and   *)
(* the served clients left; the era of explain and the watermark of        *)
(* Describe place its attempts so that no loop of LocalSession takes a     *)
(* second turn.                                                            *)
(***************************************************************************)
SettledAtFirstTurn == session # NoSession => session.tries = 0 /\ session.retries = 0
=============================================================================
