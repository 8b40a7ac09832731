------------------------- MODULE CoordinatorClient -------------------------
(***************************************************************************)
(* CoordinatorClient against the engine: how a client places its attempts, *)
(* keeps up with the authority era, and what a lost connection, a restart  *)
(* of the coordinator or a killed client does to a call.                   *)
(*                                                                         *)
(*   accounts   the engine's accounts (CreditAccount), or NoAccount        *)
(*   boot       the coordinator's boot, the nonce of its challenge         *)
(*   history    the decided attempts, in order                             *)
(*   client     the client of each incarnation: connected_, challenge_,    *)
(*              next_sequence_, placed_, authority_ (account, epoch,       *)
(*              generation), the call it is in, and the last call's result *)
(*   wire       the connection of each client and the one message on it    *)
(*   limbo      the request of a killed client that its connection thread  *)
(*              has read and not yet applied                               *)
(*   raced, disturbed   ghosts for the properties: such a request was      *)
(*              applied; the era ended since the call's last description   *)
(*   faults     the restarts, killed clients and broken connections, for   *)
(*              the bound                                                  *)
(*                                                                         *)
(* A call is a chain of exchanges, one message each way; between any two   *)
(* messages other clients, and the coordinator's restart, may come.  An    *)
(* attempt identity is <<client, call, exchange>>, never used twice.       *)
(***************************************************************************)
EXTENDS CreditAccount

CONSTANTS
  Accounts, NoAccount,
  Ops,        \* the operations clients submit
  Counts,     \* the counts that a request carries
  Targets,    \* the incarnations that a Fence or a RetireIncarnation names
  MaxCalls,   \* bound on the calls of a client
  MaxFaults   \* bound on the restarts, the clients killed and the connections broken

\* Every operation but Describe and Reconcile, which have calls of their own.
ASSUME ClientAssumption ==
  /\ Ops \subseteq {"Open"} \cup (DataOps \ {"Reconcile"}) \cup ControlOps
  /\ Counts \subseteq U64 /\ Targets \subseteq Incarnations /\ MaxCalls \in Nat /\ MaxFaults \in Nat

VARIABLES accounts, boot, history, client, wire, limbo, raced, disturbed, faults

engine == <<accounts, boot, history>>

vars == <<engine, client, wire, limbo, raced, disturbed, faults>>

\* What the caller of submit fills in and submit leaves alone; no roles are named.
NoArguments ==
  [count |-> 0, target |-> Unset, decision |-> "None", cause |-> "UnknownState", expected |-> "none"]

NoCall == [step |-> "none", op |-> "none", account |-> Unset, number |-> 0, args |-> NoArguments]

\* A client as it is constructed; the number of its last call is a ghost.
NewClient(number) ==
  [connected |-> FALSE, challenge |-> 0, next_sequence |-> 1, placed |-> FALSE,
   account |-> Unset, epoch |-> 0, generation |-> 0,
   call |-> [NoCall EXCEPT !.number = number], result |-> "none"]

Down == [state |-> "down"]
Quiet == [state |-> "idle"]

Init ==
  /\ accounts = [a \in Accounts |-> NoAccount]
  /\ boot = 1 /\ history = <<>>
  /\ client = [i \in Incarnations |-> NewClient(0)]
  /\ wire = [i \in Incarnations |-> Down]
  /\ limbo = [i \in Incarnations |-> Down]
  /\ raced = [i \in Incarnations |-> FALSE]
  /\ disturbed = [i \in Incarnations |-> FALSE]
  /\ faults = 0

-----------------------------------------------------------------------------
(* The engine's answer to one request: apply_locked.                       *)

Answer(message, reason, decided) ==
  [state |-> "reply", reason |-> reason, decided |-> decided, account |-> message.account,
   sequence |-> message.request.sequence,
   epoch |-> message.request.epoch, generation |-> message.request.generation]

\* Describe: the account's era and the caller's watermark.
described(a, message) ==
  [Answer(message, "Ok", FALSE) EXCEPT
     !.sequence = record_of(a, message.request.incarnation).last_sequence,
     !.epoch = a.epoch, !.generation = a.generation]

answered(a, message) ==
  LET request == message.request
      verdict == admission(a, request)
      d       == decide(a, request, boot)
  IN  IF verdict = "Ok"
        THEN [reply |-> Answer(message, d.reason, d.decided), decided |-> d.decided,
              account |-> IF d.decided THEN publish_window(d.account, request, d.reason, d.applied)
                                       ELSE d.account]
        ELSE [reply |-> Answer(message, verdict, verdict \in {"Duplicate", "AttemptConflict"}),
              decided |-> FALSE, account |-> a]

\* create_account_locked
opened(a, message) ==
  LET request == message.request
      verdict == IF a # NoAccount THEN "AccountExists" ELSE open_verdict(request, boot)
  IN  [reply |-> Answer(message, verdict, verdict = "Ok"), decided |-> verdict = "Ok",
       account |-> IF verdict = "Ok" THEN publish_window(new_account(request), request, "Ok", TRUE)
                                     ELSE a]

apply(message) ==
  LET a == accounts[message.account] IN
  IF message.request.op = "Open" THEN opened(a, message)
  ELSE IF a = NoAccount
    THEN [reply |-> Answer(message, "AccountUnknown", FALSE), decided |-> FALSE, account |-> a]
  ELSE IF message.request.op = "Describe"
    THEN [reply |-> described(a, message), decided |-> FALSE, account |-> a]
  ELSE answered(a, message)

\* The engine takes a message: the account, the history and whose era ended.
Take(message) ==
  LET outcome == apply(message) IN
  /\ accounts' = [accounts EXCEPT ![message.account] = outcome.account]
  /\ history' = IF outcome.decided THEN Append(history, message) ELSE history
  /\ disturbed' = [i \in Incarnations |->
       IF message.request.op \in EraEnds /\ outcome.decided THEN TRUE
       ELSE IF message.request.op = "Describe" /\ message = wire[i] THEN FALSE
       ELSE disturbed[i]]
  /\ UNCHANGED <<boot, faults>>

-----------------------------------------------------------------------------
(* The client's side of an exchange.                                       *)

\* Mutant: every refusal is tried once more.
any_refusal(reason) == reason # "Ok"

\* The refusals after which submit reconciles and tries once more.
needs_revalidation(reason) ==
  reason \in {"ReconciliationRequired", "StaleAuthority", "UnknownIncarnation"}

\* The request of each step of a call.
request_of(i, c) ==
  LET op  == CASE c.call.step \in {"describe", "redescribe"} -> "Describe"
               [] c.call.step = "reconcile" -> "Reconcile"
               [] OTHER -> c.call.op
      era == IF op = "Open" THEN <<1, 1>> ELSE <<c.epoch, c.generation>>
      attempt == <<i, c.call.number, c.call.step>>
      header == CreditRequest(op, i, era[1], era[2],
                              IF op = "Open" THEN 1 ELSE c.next_sequence, attempt)
  IN  [state   |-> "request", account |-> c.call.account,
       request |-> IF op \in {"Open", "Reconcile"}
                     THEN [header EXCEPT !.proof = challenge(c.challenge, i, era[1], era[2])]
                   ELSE IF op = "Describe" THEN header
                   ELSE [header EXCEPT !.count = c.call.args.count, !.target = c.call.args.target,
                           !.decision = c.call.args.decision, !.cause = c.call.args.cause,
                           !.expected = c.call.args.expected]]

return(c, reason) == [c EXCEPT !.call.step = "none", !.result = reason]

\* Mutant: a connection that was closed cleanly leaves the status as it was.
lost_unset == "Ok"

\* The outcome of an exchange that got no response.
lost == "TransportError"

\* exchange: the next message of the call goes out, if there is a connection.
Exchange(i, c) ==
  IF c.connected /\ wire[i].state # "down"
    THEN /\ client' = [client EXCEPT ![i] = c]
         /\ wire' = [wire EXCEPT ![i] = request_of(i, c)]
    ELSE /\ client' = [client EXCEPT ![i] = return([c EXCEPT !.connected = FALSE], lost)]
         /\ UNCHANGED wire

\* The call is over.
Finish(i, c, reason) ==
  /\ client' = [client EXCEPT ![i] = return(c, reason)]
  /\ wire' = [wire EXCEPT ![i] = Quiet]

\* Mutant: the counter moves with every answer, decided or not.
absorb_always(c, reply) ==
  [c EXCEPT !.next_sequence = reply.sequence + 1, !.account = reply.account,
            !.epoch = IF reply.epoch # 0 THEN reply.epoch ELSE @,
            !.generation = IF reply.generation # 0 THEN reply.generation ELSE @]

\* exchange, after the response: a decided attempt moves the counter.
absorb(c, reply) ==
  [c EXCEPT !.next_sequence = IF reply.decided THEN reply.sequence + 1 ELSE @,
            !.account = reply.account,
            !.epoch = IF reply.epoch # 0 THEN reply.epoch ELSE @,
            !.generation = IF reply.generation # 0 THEN reply.generation ELSE @]

go(c, step) == [c EXCEPT !.call.step = step]

\* submit places itself: the counter only moves up.
placed(c, reply) ==
  [c EXCEPT !.placed = TRUE,
            !.next_sequence = IF reply.sequence + 1 > @ THEN reply.sequence + 1 ELSE @]

\* Mutant: the retry quotes the era of the first try.
reconciled_stale(c, reply) == [c EXCEPT !.placed = TRUE, !.epoch = 1, !.generation = 1]

\* reconcile has succeeded.
reconciled(c, reply) ==
  [c EXCEPT !.placed = TRUE, !.epoch = reply.epoch, !.generation = reply.generation]

\* The rest of the call, once exchange has returned.
Receive(i) ==
  LET reply == wire[i]
      c     == absorb(client[i], reply)
      step  == c.call.step
  IN  /\ reply.state = "reply"
      /\ CASE step = "describe" /\ reply.reason = "Ok" -> Exchange(i, go(placed(c, reply), "first"))
           [] step = "first" /\ needs_revalidation(reply.reason) -> Exchange(i, go(c, "redescribe"))
           [] step = "redescribe" /\ reply.reason = "Ok" ->
                Exchange(i, go([c EXCEPT !.next_sequence = reply.sequence + 1], "reconcile"))
           [] step = "reconcile" /\ reply.reason = "Ok" ->
                IF c.call.op = "Reconcile" THEN Finish(i, reconciled(c, reply), "Ok")
                                           ELSE Exchange(i, go(reconciled(c, reply), "retry"))
           [] OTHER -> Finish(i, c, reply.reason)
      /\ UNCHANGED <<engine, limbo, raced, disturbed, faults>>

-----------------------------------------------------------------------------
(* The calls: connect, describe, reconcile and submit.                     *)

Idle(i) == client[i].call.step = "none"

\* connect and its handshake; a call on an open connection closes it first.
connect(i) ==
  /\ Idle(i) /\ client[i].call.number < MaxCalls
  /\ client' = [client EXCEPT ![i].connected = TRUE, ![i].challenge = boot, ![i].placed = FALSE]
  /\ wire' = [wire EXCEPT ![i] = Quiet]
  /\ UNCHANGED <<engine, limbo, raced, disturbed, faults>>

\* Where a call begins.
first_step(c, op, a) ==
  CASE op = "Reconcile" -> "redescribe"
    [] op \in {"Open", "Describe"} -> "only"
    [] OTHER            -> IF ~c.placed \/ c.account # a THEN "describe" ELSE "first"

\* The requests that callers make.
Arguments(op) ==
  [count    : IF op \in CountedOps \cup {"SetCapacity", "Rotate"} THEN Counts ELSE {0},
   target   : IF op \in {"Fence", "RetireIncarnation"} THEN Targets ELSE {Unset},
   decision : IF op = "Revalidate" THEN {"None", "ToReturned", "ToConsumed"} ELSE {"None"},
   cause    : IF op = "Exhaust" THEN {"Ok", "UnknownState"} ELSE {"UnknownState"},
   expected : {"none"}]

submit(i, op, a, args) ==
  LET c == client[i] IN
  /\ Idle(i) /\ c.call.number < MaxCalls
  /\ Exchange(i, [c EXCEPT !.call = [step |-> first_step(c, op, a), op |-> op, account |-> a,
                                     number |-> c.call.number + 1, args |-> args]])
  /\ UNCHANGED <<engine, limbo, raced, disturbed, faults>>

-----------------------------------------------------------------------------
(* The coordinator and the surroundings.                                   *)

Serve(i) ==
  /\ wire[i].state = "request"
  /\ Take(wire[i])
  /\ wire' = [wire EXCEPT ![i] = apply(wire[i]).reply]
  /\ UNCHANGED <<client, limbo, raced>>

\* A connection fails, with the message that is on it.
Break(i) ==
  /\ wire[i].state # "down" /\ faults < MaxFaults
  /\ wire' = [wire EXCEPT ![i] = Down]
  /\ faults' = faults + 1
  /\ UNCHANGED <<engine, client, limbo, raced, disturbed>>

\* A call whose connection has failed.
ExchangeFails(i) ==
  /\ ~Idle(i) /\ wire[i].state = "down"
  /\ client' = [client EXCEPT ![i] = return([@ EXCEPT !.connected = FALSE], lost)]
  /\ UNCHANGED <<engine, wire, limbo, raced, disturbed, faults>>

\* A client is killed and started again with its publisher and boot; the
\* request it had sent may have been read.
Kill(i) ==
  /\ faults < MaxFaults /\ ~Idle(i)
  /\ client' = [client EXCEPT ![i] = NewClient(@.call.number)]
  /\ limbo' = [limbo EXCEPT ![i] = IF wire[i].state = "request" THEN wire[i] ELSE @]
  /\ wire' = [wire EXCEPT ![i] = Down]
  /\ faults' = faults + 1
  /\ UNCHANGED <<engine, raced, disturbed>>

ServeLate(i) ==
  /\ limbo[i].state = "request"
  /\ Take(limbo[i])
  /\ limbo' = [limbo EXCEPT ![i] = Down]
  /\ raced' = [raced EXCEPT ![i] = TRUE]
  /\ UNCHANGED <<client, wire>>

\* The coordinator ends and its next boot recovers.
Restart ==
  /\ faults < MaxFaults
  /\ boot' = boot + 1 /\ faults' = faults + 1
  /\ accounts' = [a \in Accounts |-> IF accounts[a] = NoAccount THEN NoAccount
                                     ELSE forget_liveness(accounts[a])]
  /\ wire' = [i \in Incarnations |-> Down]
  /\ limbo' = [i \in Incarnations |-> Down]
  /\ UNCHANGED <<history, client, raced, disturbed>>

Next ==
  \/ \E i \in Incarnations :
       \/ connect(i) \/ Receive(i) \/ Serve(i)
       \/ Break(i) \/ ExchangeFails(i) \/ Kill(i) \/ ServeLate(i)
       \/ \E op \in Ops \cup {"Describe", "Reconcile"} : \E a \in Accounts :
            \E args \in Arguments(op) : submit(i, op, a, args)
  \/ Restart

Spec == Init /\ [][Next]_vars

-----------------------------------------------------------------------------
(* Properties.                                                             *)

Past == DOMAIN history

(***************************************************************************)
(* A call of submit decides at most one attempt for its operation, the     *)
(* automatic reconciliation and second try included, whatever is lost.     *)
(***************************************************************************)
SubmitDecidesOnce ==
  \A j, k \in Past :
    LET r == history[j].request
        q == history[k].request
    IN  /\ r.op # "Reconcile" /\ q.op # "Reconcile"
        /\ r.attempt[1] = q.attempt[1] /\ r.attempt[2] = q.attempt[2]
        => j = k

(***************************************************************************)
(* An attempt of a client is at watermark + 1 when the engine takes it:    *)
(* no answer finds fault with its place, unless an attempt of the client's *)
(* killed predecessor was applied late.                                    *)
(***************************************************************************)
WellPlaced ==
  \A i \in Incarnations :
    wire[i].state = "reply" /\ wire[i].reason \in {"SequenceGap", "StaleReplay", "AttemptConflict"}
      => raced[i]

(***************************************************************************)
(* The one automatic reconciliation is enough: a call ends with a demand   *)
(* to revalidate only if the era ended after its last description.  One    *)
(* answer is only taken for such a demand: the engine says with the same   *)
(* reason that the target of a RetireIncarnation is not known, and submit  *)
(* reconciles, asks again and ends with it.                                *)
(***************************************************************************)
ReconcilesOnce ==
  \A i \in Incarnations :
    Idle(i) /\ needs_revalidation(client[i].result) =>
      \/ disturbed[i]
      \/ client[i].call.op = "RetireIncarnation" /\ client[i].result = "UnknownIncarnation"

(***************************************************************************)
(* What a client reports as done is done: a call that ends with Ok after   *)
(* an attempt has that attempt in the history.                             *)
(***************************************************************************)
OkIsDecided ==
  \A i \in Incarnations :
    LET call == client[i].call IN
    Idle(i) /\ client[i].result = "Ok" /\ call.op # "Describe" =>
      \E k \in Past : /\ history[k].request.op = call.op
                      /\ history[k].request.attempt[1] = i
                      /\ history[k].request.attempt[2] = call.number
=============================================================================
