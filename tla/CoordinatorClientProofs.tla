---------------------- MODULE CoordinatorClientProofs ----------------------
(***************************************************************************)
(* Theorems about CoordinatorClient, for any number of clients, calls,     *)
(* faults and, but where one says otherwise, accounts.                     *)
(*                                                                         *)
(* The invariants are conjunctions over the clients.  Their parts take the *)
(* client, its wire, its limbo, the history and the account as parameters, *)
(* so that a step is looked at for the client that takes it and for the    *)
(* others apart:                                                           *)
(*   Shape    what a call may be at, and what is then on the wire          *)
(*   Pst      what the client's calls have in the history                  *)
(*   Erad     what the client knows of the era is right, or disturbed      *)
(*   Placed   what the client knows of its watermark, with Counted, Fresh  *)
(*            and Filed, which say that an attempt is new to the window    *)
(* Story, Eras and Places are the three inductive invariants.              *)
(***************************************************************************)
EXTENDS CoordinatorClient, CreditAccountLemmas

\* The prover of every leaf that does not name another.
USE ZenonT(60)

-----------------------------------------------------------------------------
(* Numbers.                                                                *)

\* Equal numbers.
LEMMA Equal == ASSUME NEW x \in Nat, NEW y, x = y PROVE x <= y
BY SMTT(30)

\* Numbers in a row.
LEMMA Through == ASSUME NEW x \in Nat, NEW y \in Nat, NEW z \in Nat, x <= y, y <= z PROVE x <= z
BY SMTT(30)

\* The order is total.
LEMMA NotAbove == ASSUME NEW x \in Nat, NEW y \in Nat, ~(y <= x) PROVE x <= y
BY SMTT(30)

\* The number that follows.
LEMMA Follows ==
  ASSUME NEW n \in Nat, NEW s, s = n + 1
  PROVE  ~(s <= n) /\ ~(s > n + 1) /\ s \in 1..(n + 1) /\ s \in 1..(s + 1) /\ s \in Nat
BY SMTT(30)

\* One at most is two at most.
LEMMA AtMostTwo == ASSUME NEW x, x \in 1..(0 + 1) PROVE x \in 1..(1 + 1)
BY SMTT(30)

-----------------------------------------------------------------------------
(* Clients and calls.                                                      *)

Steps == {"only", "describe", "first", "redescribe", "reconcile", "retry"}

\* What submit is for.
Tries == (DataOps \ {"Reconcile"}) \cup ControlOps

\* The other calls are made otherwise.
LEMMA OtherCalls == "Open" \notin Tries /\ "Describe" \notin Tries /\ "Reconcile" \notin Tries
BY DEF Tries, DataOps, ControlOps

Requested == Tries \cup {"Open", "Describe", "Reconcile"}

ClientFields == {"connected", "challenge", "next_sequence", "placed", "account", "epoch",
                 "generation", "call", "result"}

CallFields == {"step", "op", "account", "number", "args"}

Formed(c) == DOMAIN c = ClientFields /\ DOMAIN c.call = CallFields

\* The operation of the exchange that a call is at.
Op(c) ==
  CASE c.call.step \in {"describe", "redescribe"} -> "Describe"
    [] c.call.step = "reconcile" -> "Reconcile"
    [] OTHER -> c.call.op

-----------------------------------------------------------------------------
(* Messages.                                                               *)

\* m is what client i asks at the step that c is at.
AsksFor(m, i, c) ==
  /\ m.state = "request" /\ m.account = c.call.account
  /\ m.request.op = Op(c) /\ m.request.incarnation = i
  /\ m.request.count \in {0, c.call.args.count}
  /\ m.request.attempt[1] = i /\ m.request.attempt[2] = c.call.number
  /\ m.request.attempt[3] = c.call.step
  /\ Op(c) = "Open" => m.request.sequence = 1 /\ m.request.epoch = 1 /\ m.request.generation = 1
  /\ Op(c) # "Open" => /\ m.request.sequence = c.next_sequence
                       /\ m.request.epoch = c.epoch /\ m.request.generation = c.generation
  /\ Op(c) \in {"Open", "Reconcile"} => verify(c.challenge, m.request)

\* request_of builds that message.
LEMMA RequestOf ==
  ASSUME NEW i, NEW c
  PROVE  AsksFor(request_of(i, c), i, c)
<1> DEFINE op == Op(c)
           era == IF op = "Open" THEN <<1, 1>> ELSE <<c.epoch, c.generation>>
           seq == IF op = "Open" THEN 1 ELSE c.next_sequence
           attempt == <<i, c.call.number, c.call.step>>
           header == CreditRequest(op, i, era[1], era[2], seq, attempt)
           proof == challenge(c.challenge, i, era[1], era[2])
           request == IF op \in {"Open", "Reconcile"} THEN [header EXCEPT !.proof = proof]
                      ELSE IF op = "Describe" THEN header
                      ELSE [header EXCEPT !.count = c.call.args.count, !.target = c.call.args.target,
                              !.decision = c.call.args.decision, !.cause = c.call.args.cause,
                              !.expected = c.call.args.expected]
           m == request_of(i, c)
<1>1. m = [state |-> "request", account |-> c.call.account, request |-> request]
  BY DEF request_of, Op
<1>2. m.state = "request" /\ m.account = c.call.account /\ m.request = request
  <2> HIDE DEF request, m
  <2> QED BY <1>1
<1>3. /\ op = "Open" => era[1] = 1 /\ era[2] = 1
      /\ op # "Open" => era[1] = c.epoch /\ era[2] = c.generation
  OBVIOUS
<1>4. attempt[1] = i /\ attempt[2] = c.call.number /\ attempt[3] = c.call.step
  OBVIOUS
<1>5. (op = "Open" => seq = 1) /\ (op # "Open" => seq = c.next_sequence)
  OBVIOUS
<1> HIDE DEF op, era, seq, attempt, proof
<1>6. /\ DOMAIN header = RequestFields
      /\ header.op = op /\ header.incarnation = i /\ header.epoch = era[1] /\ header.generation = era[2]
      /\ header.sequence = seq /\ header.attempt = attempt /\ header.count = 0
  BY DEF CreditRequest, RequestFields
<1> HIDE DEF header
<1>7. {"op", "incarnation", "epoch", "generation", "sequence", "attempt", "proof", "count", "target",
       "decision", "cause", "expected"} \subseteq RequestFields
  BY DEF RequestFields
<1>8. /\ request.op = op /\ request.incarnation = i /\ request.epoch = era[1]
      /\ request.generation = era[2] /\ request.sequence = seq /\ request.attempt = attempt
      /\ request.count \in {0, c.call.args.count}
      /\ op \in {"Open", "Reconcile"} => request.proof = proof
  <2>1. CASE op \in {"Open", "Reconcile"}
    <3>1. request = [header EXCEPT !.proof = proof]
      BY <2>1
    <3> HIDE DEF request
    <3> QED BY <1>6, <1>7, <3>1
  <2>2. CASE op \notin {"Open", "Reconcile"} /\ op = "Describe"
    <3>1. request = header
      BY <2>2
    <3> HIDE DEF request
    <3> QED BY <1>6, <2>2, <3>1
  <2>3. CASE op \notin {"Open", "Reconcile"} /\ op # "Describe"
    <3> DEFINE r1 == [header EXCEPT !.count = c.call.args.count]
               r2 == [r1 EXCEPT !.target = c.call.args.target]
               r3 == [r2 EXCEPT !.decision = c.call.args.decision]
               r4 == [r3 EXCEPT !.cause = c.call.args.cause]
               r5 == [r4 EXCEPT !.expected = c.call.args.expected]
               Fit(r) == /\ DOMAIN r = RequestFields /\ r.op = op /\ r.incarnation = i
                         /\ r.epoch = era[1] /\ r.generation = era[2] /\ r.sequence = seq
                         /\ r.attempt = attempt
    <3>1. request = r5
      BY <2>3
    <3> HIDE DEF request
    <3>2. Fit(r1) /\ r1.count = c.call.args.count
      BY <1>6, <1>7
    <3> HIDE DEF r1
    <3>3. Fit(r2) /\ r2.count = r1.count
      BY <1>7, <3>2
    <3> HIDE DEF r2
    <3>4. Fit(r3) /\ r3.count = r2.count
      BY <1>7, <3>3
    <3> HIDE DEF r3
    <3>5. Fit(r4) /\ r4.count = r3.count
      BY <1>7, <3>4
    <3> HIDE DEF r4
    <3>6. Fit(r5) /\ r5.count = r4.count
      BY <1>7, <3>5
    <3> HIDE DEF r5
    <3> QED BY <2>3, <3>1, <3>2, <3>3, <3>4, <3>5, <3>6
  <2> QED BY <2>1, <2>2, <2>3
<1> HIDE DEF request, m
<1>9. op \in {"Open", "Reconcile"} => verify(c.challenge, m.request)
  BY <1>2, <1>8 DEF verify, proof
<1>10. AsksFor(m, i, c)
  BY <1>2, <1>3, <1>4, <1>5, <1>8, <1>9 DEF AsksFor, op
<1> QED BY <1>10 DEF m

\* A message that is the client's request.
LEMMA AsRequest ==
  ASSUME NEW i, NEW c, NEW m, m = request_of(i, c)
  PROVE  AsksFor(m, i, c) /\ m.state = "request" /\ m.state # "reply"
<1>1. AsksFor(m, i, c)
  BY RequestOf
<1>2. m.state = "request"
  BY <1>1 DEF AsksFor
<1> QED BY <1>1, <1>2

-----------------------------------------------------------------------------
(* What the engine answers.                                                *)

\* A request whose place is not the one after the watermark, or was taken.
Astray(a, request) ==
  LET watermark == record_of(a, request.incarnation).last_sequence IN
  \/ in_window(a.window, request.incarnation, request.sequence)
  \/ attempt_in_window(a.window, request.attempt)
  \/ request.sequence <= watermark \/ request.sequence > watermark + 1

\* A request of another era, or of an incarnation without standing.
Unfit(a, request) ==
  \/ request.epoch # a.epoch \/ request.generation # a.generation
  \/ request.op # "Reconcile" /\ ~Stands(a, request.incarnation)

Misplaced(reason) == reason \in {"SequenceGap", "StaleReplay", "AttemptConflict"}

\* Why admission refuses, and what it has seen to otherwise.
LEMMA Admission ==
  ASSUME NEW a, NEW request
  PROVE  /\ needs_revalidation(admission(a, request)) => Unfit(a, request)
         /\ Misplaced(admission(a, request)) \/ admission(a, request) = "Duplicate" => Astray(a, request)
         /\ admission(a, request) = "Ok" => ~Astray(a, request)
<1> DEFINE who == request.incarnation
           auth == authority_verdict(a, request)
           place == placement_verdict(a, request)
           v == admission(a, request)
<1>1. \/ v = "MalformedMessage" \/ v = "CountZero"
      \/ v = auth /\ auth # "Ok"
      \/ v = place
  BY DEF admission
<1>2. auth \in {"StaleAuthority", "FencedIncarnation", "IncarnationNotReconciled", "BudgetExceeded",
                "UnknownIncarnation", "ReconciliationRequired", "NotOperator", "Ok"}
  BY DEF authority_verdict, reconcile_verdict, standing_verdict
<1>3. needs_revalidation(auth) => Unfit(a, request)
  <2>1. needs_revalidation(standing_verdict(a, who)) => ~Stands(a, who)
    BY DEF standing_verdict, Stands, needs_revalidation
  <2>2. ~needs_revalidation(reconcile_verdict(a, who))
    BY DEF reconcile_verdict, needs_revalidation
  <2>3. ~needs_revalidation("NotOperator") /\ ~needs_revalidation("Ok")
    BY DEF needs_revalidation
  <2> QED BY <2>1, <2>2, <2>3 DEF authority_verdict, Unfit
<1>4. place \in {"Duplicate", "AttemptConflict", "StaleReplay", "BudgetExceeded", "SequenceGap", "Ok"}
  BY DEF placement_verdict
<1>5. Misplaced(place) \/ place = "Duplicate" => Astray(a, request)
  <2>1. /\ ~Misplaced("BudgetExceeded") /\ ~Misplaced("Ok")
        /\ "BudgetExceeded" # "Duplicate" /\ "Ok" # "Duplicate" /\ "StaleReplay" # "Duplicate"
        /\ "SequenceGap" # "Duplicate"
    BY DEF Misplaced
  <2> QED BY <2>1 DEF placement_verdict, Astray
<1>6. place = "Ok" => ~Astray(a, request)
  <2>1. "Duplicate" # "Ok" /\ "AttemptConflict" # "Ok" /\ "StaleReplay" # "Ok"
        /\ "BudgetExceeded" # "Ok" /\ "SequenceGap" # "Ok"
    OBVIOUS
  <2> QED BY <2>1 DEF placement_verdict, Astray
<1> HIDE DEF v, auth, place
<1>7. needs_revalidation(v) => Unfit(a, request)
  BY <1>1, <1>3, <1>4 DEF needs_revalidation
<1>8. Misplaced(v) \/ v = "Duplicate" => Astray(a, request)
  BY <1>1, <1>2, <1>5 DEF Misplaced
<1>9. v = "Ok" => ~Astray(a, request)
  BY <1>1, <1>6
<1> QED BY <1>7, <1>8, <1>9 DEF v

\* What there is to know of an account before a request is applied to it.
Sane(a) == a = NoAccount \/ (Shaped(a) /\ IsSeq(a.window))

\* The request is turned down: nothing is decided.
TurnedDown(a, m, out, nonce) ==
  /\ out.decided = FALSE /\ Same(a, out.account)
  /\ out.reply.reason # "Ok" /\ out.reply.sequence = m.request.sequence
  /\ out.reply.decided => m.request.op \notin {"Open", "Describe"} /\ a # NoAccount /\ Astray(a, m.request)
  /\ needs_revalidation(out.reply.reason) =>
       /\ m.request.op # "Describe"
       /\ m.request.op = "Open" =>
            ~(m.request.epoch = 1 /\ m.request.generation = 1 /\ verify(nonce, m.request))
       /\ m.request.op # "Open" =>
            \/ m.request.op = "Reconcile" /\ ~verify(nonce, m.request)
            \/ a # NoAccount /\ Unfit(a, m.request)
            \/ Misread(m.request.op, out.reply.reason)
  /\ Misplaced(out.reply.reason) =>
       \/ m.request.op = "Open" /\ m.request.sequence # 1
       \/ m.request.op \notin {"Open", "Describe"} /\ a # NoAccount /\ Astray(a, m.request)

\* The account is described.
ToldOf(a, m, out) ==
  /\ m.request.op = "Describe" /\ a # NoAccount
  /\ out.decided = FALSE /\ out.account = a /\ out.reply.decided = FALSE /\ out.reply.reason = "Ok"
  /\ out.reply.sequence = record_of(a, m.request.incarnation).last_sequence
  /\ out.reply.epoch = a.epoch /\ out.reply.generation = a.generation

\* From nothing to b an account is opened.
OpenTurn(b, request) ==
  /\ Shaped(b) /\ Entered(<<>>, b.window, request)
  /\ b.epoch = 1 /\ b.generation = 1
  /\ \A i : i # request.incarnation => record_of(b, i).last_sequence = 0
  /\ record_of(b, request.incarnation).last_sequence = 1 /\ request.sequence = 1

\* The request is decided.
DecidedSo(a, m, out) ==
  /\ out.decided = TRUE /\ out.reply.decided = TRUE /\ Plain(out.reply.reason)
  /\ m.request.op # "Describe"
  /\ out.reply.sequence = m.request.sequence
  /\ out.reply.epoch = m.request.epoch /\ out.reply.generation = m.request.generation
  /\ \/ m.request.op = "Open" /\ a = NoAccount /\ OpenTurn(out.account, m.request)
     \/ /\ m.request.op # "Open" /\ a # NoAccount /\ Turn(a, out.account, m.request)
        /\ m.request.epoch = a.epoch /\ m.request.generation = a.generation
        /\ ~Astray(a, m.request)

\* out is what comes of the message m at account a.
Outcome(a, m, out, nonce) ==
  /\ out.reply.state = "reply" /\ out.reply.account = m.account
  /\ TurnedDown(a, m, out, nonce) \/ ToldOf(a, m, out) \/ DecidedSo(a, m, out)

IsAnswer(r, m, reason, decided) ==
  /\ DOMAIN r = {"state", "reason", "decided", "account", "sequence", "epoch", "generation"}
  /\ r.state = "reply" /\ r.reason = reason /\ r.decided = decided /\ r.account = m.account
  /\ r.sequence = m.request.sequence
  /\ r.epoch = m.request.epoch /\ r.generation = m.request.generation

\* The fields of an answer.
LEMMA AnswerFields ==
  ASSUME NEW m, NEW reason, NEW decided
  PROVE  IsAnswer(Answer(m, reason, decided), m, reason, decided)
<1>1. DOMAIN Answer(m, reason, decided) =
        {"state", "reason", "decided", "account", "sequence", "epoch", "generation"}
  BY DEF Answer
<1> QED BY <1>1 DEF Answer, IsAnswer

\* Turned down by an answer that is not decided.
LEMMA TurnDown ==
  ASSUME NEW a, NEW m, NEW reason, reason # "Ok", NEW decided, NEW nonce,
         decided => m.request.op \notin {"Open", "Describe"} /\ a # NoAccount /\ Astray(a, m.request),
         needs_revalidation(reason) =>
           /\ m.request.op # "Describe"
           /\ m.request.op = "Open" =>
                ~(m.request.epoch = 1 /\ m.request.generation = 1 /\ verify(nonce, m.request))
           /\ m.request.op # "Open" =>
                \/ m.request.op = "Reconcile" /\ ~verify(nonce, m.request)
                \/ a # NoAccount /\ Unfit(a, m.request)
                \/ Misread(m.request.op, reason),
         Misplaced(reason) =>
           \/ m.request.op = "Open" /\ m.request.sequence # 1
           \/ m.request.op \notin {"Open", "Describe"} /\ a # NoAccount /\ Astray(a, m.request),
         NEW out, out.reply = Answer(m, reason, decided), out.decided = FALSE, Same(a, out.account)
  PROVE  Outcome(a, m, out, nonce)
<1>1. /\ out.reply.state = "reply" /\ out.reply.reason = reason /\ out.reply.decided = decided
      /\ out.reply.account = m.account /\ out.reply.sequence = m.request.sequence
  <2>1. IsAnswer(out.reply, m, reason, decided)
    BY AnswerFields
  <2> QED BY <2>1 DEF IsAnswer
<1>2. TurnedDown(a, m, out, nonce)
  BY <1>1 DEF TurnedDown
<1> QED BY <1>1, <1>2 DEF Outcome

\* answered: admission, and the decision of an admitted request.
LEMMA AnsweredOutcome ==
  ASSUME NEW a, a # NoAccount, Sane(a), NEW m,
         m.request.op \in Tries \cup {"Reconcile"}
  PROVE  Outcome(a, m, answered(a, m), boot)
<1> DEFINE request == m.request
           v == admission(a, request)
           d == decide(a, request, boot)
           b == IF d.decided THEN publish_window(d.account, request, d.reason, d.applied) ELSE d.account
           out == answered(a, m)
<1>1. Shaped(a) /\ IsSeq(a.window)
  BY DEF Sane
<1>2. request.op \notin {"Open", "Describe"}
  BY OtherCalls
<1>3. CASE v # "Ok"
  <2> DEFINE decided == v \in {"Duplicate", "AttemptConflict"}
             literal == [reply |-> Answer(m, v, decided), decided |-> FALSE, account |-> a]
  <2>1. out = literal
    BY <1>3 DEF answered
  <2> HIDE DEF out, v
  <2>2. out.reply = Answer(m, v, decided) /\ out.decided = FALSE /\ Same(a, out.account)
    BY <2>1 DEF Same
  <2>3. /\ needs_revalidation(v) => Unfit(a, request)
        /\ Misplaced(v) \/ v = "Duplicate" => Astray(a, request)
    BY Admission DEF v
  <2>4. decided => Astray(a, m.request)
    BY <2>3 DEF Misplaced
  <2>5. m.request.op # "Describe" /\ m.request.op # "Open"
    BY <1>2
  <2> HIDE DEF decided
  <2>6. Outcome(a, m, out, boot)
    BY <1>2, <1>3, <2>2, <2>3, <2>4, <2>5, TurnDown
  <2> QED BY <2>6 DEF out
<1>4. CASE v = "Ok"
  <2>1. Told(a, d, request, boot)
    <3>1. request.op \in DataOps \cup ControlOps
      BY DEF Tries, DataOps
    <3> QED BY <1>1, <1>4, <3>1, DecideTold
  <2> DEFINE literal == [reply |-> Answer(m, d.reason, d.decided), decided |-> d.decided, account |-> b]
  <2>2. out = literal
    BY <1>4 DEF answered
  <2> HIDE DEF d
  <2>3. out.reply = Answer(m, d.reason, d.decided) /\ out.decided = d.decided /\ out.account = b
    <3> HIDE DEF out, b
    <3> QED BY <2>2
  <2>4. CASE d.decided = TRUE /\ Plain(d.reason) /\ Moved(a, d.account, request)
    <3>1. b = publish_window(d.account, request, d.reason, d.applied)
      BY <2>4
    <3>2. Turn(a, b, request)
      BY <1>1, <2>4, <3>1, MovedTurn
    <3> HIDE DEF out, b, v
    <3>3. /\ out.reply.state = "reply" /\ out.reply.reason = d.reason /\ out.reply.decided = TRUE
          /\ out.reply.account = m.account /\ out.reply.sequence = m.request.sequence
          /\ out.reply.epoch = m.request.epoch /\ out.reply.generation = m.request.generation
      <4>1. IsAnswer(out.reply, m, d.reason, d.decided)
        BY <2>3, AnswerFields
      <4> QED BY <2>4, <4>1 DEF IsAnswer
    <3>4. request.epoch = a.epoch /\ request.generation = a.generation
      BY <1>4, Admitted DEF v
    <3>5. ~Astray(a, request)
      BY <1>4, Admission DEF v
    <3>6. m.request.op # "Describe" /\ m.request.op # "Open"
      BY <1>2
    <3>7. DecidedSo(a, m, out)
      BY <2>3, <2>4, <3>2, <3>3, <3>4, <3>5, <3>6 DEF DecidedSo
    <3> QED BY <3>3, <3>7 DEF Outcome, out
  <2>5. CASE /\ d.decided = FALSE /\ Same(a, d.account) /\ d.reason # "Ok"
             /\ \/ Plain(d.reason)
                \/ /\ d.reason = "ReconciliationRequired"
                   /\ request.op = "Reconcile" /\ ~verify(boot, request)
                \/ Misread(request.op, d.reason)
    <3>1. Same(a, b)
      BY <2>5
    <3>2. ~Misplaced(d.reason)
      BY <2>5 DEF Plain, Misplaced, Misread
    <3>3. needs_revalidation(d.reason) => \/ request.op = "Reconcile" /\ ~verify(boot, request)
                                          \/ Misread(request.op, d.reason)
      BY <2>5 DEF Plain, needs_revalidation
    <3>4. m.request.op # "Describe" /\ m.request.op # "Open"
      BY <1>2
    <3> HIDE DEF out, b, v
    <3> QED BY <2>3, <2>5, <3>1, <3>2, <3>3, <3>4, TurnDown DEF out
  <2> QED BY <2>1, <2>4, <2>5 DEF Told
<1> QED BY <1>3, <1>4

\* opened: create_account_locked.
LEMMA OpenedOutcome ==
  ASSUME NEW a, NEW m, m.request.op = "Open"
  PROVE  Outcome(a, m, opened(a, m), boot)
<1> DEFINE request == m.request
           v == IF a # NoAccount THEN "AccountExists" ELSE open_verdict(request, boot)
           b == IF v = "Ok" THEN publish_window(new_account(request), request, "Ok", TRUE) ELSE a
           out == opened(a, m)
<1>1. out = [reply |-> Answer(m, v, v = "Ok"), decided |-> (v = "Ok"), account |-> b]
  BY DEF opened
<1>2. out.reply = Answer(m, v, v = "Ok") /\ out.decided = (v = "Ok") /\ out.account = b
  <2> HIDE DEF out, v, b
  <2> QED BY <1>1
<1>3. /\ v \in {"AccountExists", "StaleAuthority", "SequenceGap", "ReconciliationRequired", "Ok"}
      /\ v = "StaleAuthority" => ~(request.epoch = 1 /\ request.generation = 1)
      /\ v = "SequenceGap" => request.sequence # 1
      /\ v = "ReconciliationRequired" => ~verify(boot, request)
      /\ v = "Ok" => a = NoAccount /\ request.epoch = 1 /\ request.generation = 1 /\ request.sequence = 1
  BY DEF open_verdict
<1>4. IsAnswer(out.reply, m, v, v = "Ok")
  BY <1>2, AnswerFields
<1>5. CASE v = "Ok"
  <2>1. /\ Shaped(b) /\ Entered(<<>>, b.window, request)
        /\ b.epoch = request.epoch /\ b.generation = request.generation
        /\ \A i : i # request.incarnation => record_of(b, i).last_sequence = 0
        /\ record_of(b, request.incarnation).last_sequence = request.sequence
    BY <1>5, OpenedAccount
  <2> HIDE DEF out, v, b
  <2>2. OpenTurn(b, request)
    BY <1>3, <1>5, <2>1 DEF OpenTurn
  <2>3. Plain("Ok") /\ "Open" # "Describe"
    BY DEF Plain
  <2>4. out.decided = TRUE /\ out.reply.decided = TRUE /\ out.reply.reason = "Ok"
    BY <1>2, <1>4, <1>5 DEF IsAnswer
  <2>5. DecidedSo(a, m, out)
    BY <1>2, <1>3, <1>4, <1>5, <2>2, <2>3, <2>4 DEF DecidedSo, IsAnswer
  <2> QED BY <1>4, <2>5 DEF Outcome, IsAnswer, out
<1>6. CASE v # "Ok"
  <2>1. b = a
    BY <1>6
  <2> HIDE DEF out, v, b
  <2>2. out.decided = FALSE /\ Same(a, out.account)
    BY <1>2, <1>6, <2>1 DEF Same
  <2>3. needs_revalidation(v) => ~(request.epoch = 1 /\ request.generation = 1 /\ verify(boot, request))
    BY <1>3 DEF needs_revalidation
  <2>4. Misplaced(v) => request.sequence # 1
    BY <1>3 DEF Misplaced
  <2>5. m.request.op # "Describe"
    OBVIOUS
  <2>6. Outcome(a, m, out, boot)
    BY <1>2, <1>6, <2>2, <2>3, <2>4, <2>5, TurnDown
  <2> QED BY <2>6 DEF out
<1> QED BY <1>5, <1>6

\* apply: every message.
LEMMA Apply ==
  ASSUME NEW m, Sane(accounts[m.account]), m.request.op \in Requested
  PROVE  Outcome(accounts[m.account], m, apply(m), boot)
<1> DEFINE a == accounts[m.account]
           out == apply(m)
<1>1. CASE m.request.op = "Open"
  <2>1. out = opened(a, m)
    BY <1>1 DEF apply
  <2> QED BY <1>1, <2>1, OpenedOutcome
<1>2. CASE m.request.op # "Open" /\ a = NoAccount
  <2> DEFINE literal == [reply |-> Answer(m, "AccountUnknown", FALSE), decided |-> FALSE, account |-> a]
  <2>1. out = literal
    BY <1>2 DEF apply
  <2> HIDE DEF out, a
  <2>2. out.reply = Answer(m, "AccountUnknown", FALSE) /\ out.decided = FALSE /\ Same(a, out.account)
    BY <2>1 DEF Same
  <2>3. "AccountUnknown" # "Ok" /\ ~needs_revalidation("AccountUnknown") /\ ~Misplaced("AccountUnknown")
    BY DEF needs_revalidation, Misplaced
  <2>4. Outcome(a, m, out, boot)
    BY <2>2, <2>3, TurnDown
  <2> QED BY <2>4 DEF out, a
<1>3. CASE m.request.op = "Describe" /\ a # NoAccount
  <2> DEFINE r == described(a, m)
             literal == [reply |-> r, decided |-> FALSE, account |-> a]
             base == Answer(m, "Ok", FALSE)
  <2>1. out = literal
    <3>1. "Describe" # "Open"
      OBVIOUS
    <3> QED BY <1>3, <3>1 DEF apply
  <2>2. IsAnswer(base, m, "Ok", FALSE)
    BY AnswerFields
  <2>3. r = [base EXCEPT !.sequence = record_of(a, m.request.incarnation).last_sequence,
                         !.epoch = a.epoch, !.generation = a.generation]
    BY DEF described
  <2> HIDE DEF base, r, out, a
  <2>4. DOMAIN base = {"state", "reason", "decided", "account", "sequence", "epoch", "generation"}
    BY <2>2 DEF IsAnswer
  <2>5. /\ r.state = base.state /\ r.reason = base.reason /\ r.decided = base.decided
        /\ r.account = base.account
        /\ r.sequence = record_of(a, m.request.incarnation).last_sequence
        /\ r.epoch = a.epoch /\ r.generation = a.generation
    BY <2>3, <2>4
  <2>6. out.reply = r /\ out.decided = FALSE /\ out.account = a
    BY <2>1
  <2>7. ToldOf(a, m, out)
    BY <1>3, <2>2, <2>5, <2>6 DEF ToldOf, IsAnswer
  <2>8. Outcome(a, m, out, boot)
    BY <2>2, <2>5, <2>6, <2>7 DEF Outcome, IsAnswer
  <2> QED BY <2>8 DEF out, a
<1>4. CASE m.request.op \notin {"Open", "Describe"} /\ a # NoAccount
  <2>1. out = answered(a, m)
    BY <1>4 DEF apply
  <2>2. m.request.op \in Tries \cup {"Reconcile"}
    BY <1>4 DEF Requested
  <2> HIDE DEF out, a
  <2>3. Outcome(a, m, out, boot)
    BY <1>4, <2>1, <2>2, AnsweredOutcome DEF a
  <2> QED BY <2>3 DEF out, a
<1> QED BY <1>1, <1>2, <1>3, <1>4

-----------------------------------------------------------------------------
(* The client's record.                                                    *)

\* d is c but for the fields of F.
Kept(c, d, F) == Formed(d) /\ \A f \in ClientFields \ F : d[f] = c[f]

\* The call goes on at the given step, or is over.
At(c, d, step) ==
  /\ d.call.step = step /\ d.call.op = c.call.op /\ d.call.account = c.call.account
  /\ d.call.number = c.call.number /\ d.call.args = c.call.args

\* What the operators on a client's record do to its fields.
LEMMA ClientUpdates ==
  ASSUME NEW c, Formed(c), NEW step, NEW reason, NEW n
  PROVE  /\ Kept(c, go(c, step), {"call"}) /\ At(c, go(c, step), step)
         /\ Kept(c, return(c, reason), {"call", "result"}) /\ At(c, return(c, reason), "none")
         /\ return(c, reason).result = reason
         /\ Kept(c, [c EXCEPT !.next_sequence = n], {"next_sequence"})
         /\ [c EXCEPT !.next_sequence = n].next_sequence = n
         /\ Kept(c, [c EXCEPT !.connected = FALSE], {"connected"})
<1>1. DOMAIN c = ClientFields /\ DOMAIN c.call = CallFields
  BY DEF Formed
<1>2. {"call", "result", "next_sequence", "connected"} \subseteq ClientFields
      /\ {"step", "op", "account", "number", "args"} \subseteq CallFields
  BY DEF ClientFields, CallFields
<1>3. ASSUME NEW s
      PROVE  LET q == [c.call EXCEPT !.step = s] IN
             /\ DOMAIN q = CallFields /\ q.step = s /\ q.op = c.call.op
             /\ q.account = c.call.account /\ q.number = c.call.number /\ q.args = c.call.args
  BY <1>1, <1>2
<1>4. Kept(c, go(c, step), {"call"}) /\ At(c, go(c, step), step)
  <2> DEFINE q == [c.call EXCEPT !.step = step]
             g == go(c, step)
  <2>1. /\ DOMAIN q = CallFields /\ q.step = step /\ q.op = c.call.op
        /\ q.account = c.call.account /\ q.number = c.call.number /\ q.args = c.call.args
    BY <1>3
  <2>2. g = [c EXCEPT !.call = q]
    BY DEF go
  <2> HIDE DEF q, g
  <2>3. DOMAIN g = ClientFields /\ g.call = q /\ \A f \in ClientFields \ {"call"} : g[f] = c[f]
    BY <1>1, <1>2, <2>2
  <2>4. Kept(c, g, {"call"}) /\ At(c, g, step)
    BY <2>1, <2>3 DEF Kept, Formed, At
  <2> QED BY <2>4 DEF g
<1>5. /\ Kept(c, return(c, reason), {"call", "result"}) /\ At(c, return(c, reason), "none")
      /\ return(c, reason).result = reason
  <2> DEFINE q == [c.call EXCEPT !.step = "none"]
             h == [c EXCEPT !.call = q]
             g == return(c, reason)
  <2>1. /\ DOMAIN q = CallFields /\ q.step = "none" /\ q.op = c.call.op
        /\ q.account = c.call.account /\ q.number = c.call.number /\ q.args = c.call.args
    BY <1>3
  <2>2. g = [h EXCEPT !.result = reason]
    BY DEF return
  <2> HIDE DEF q, g
  <2>3. DOMAIN h = ClientFields /\ h.call = q /\ \A f \in ClientFields \ {"call"} : h[f] = c[f]
    BY <1>1, <1>2
  <2> HIDE DEF h
  <2>4. "call" # "result"
    OBVIOUS
  <2>5. /\ DOMAIN g = ClientFields /\ g.call = q /\ g.result = reason
        /\ \A f \in ClientFields \ {"call", "result"} : g[f] = c[f]
    BY <1>2, <2>2, <2>3, <2>4
  <2>6. Kept(c, g, {"call", "result"}) /\ At(c, g, "none") /\ g.result = reason
    BY <2>1, <2>5 DEF Kept, Formed, At
  <2> QED BY <2>6 DEF g
<1>6. "call" \in ClientFields \ {"next_sequence"} /\ "call" \in ClientFields \ {"connected"}
  BY DEF ClientFields
<1>7. /\ Kept(c, [c EXCEPT !.next_sequence = n], {"next_sequence"})
      /\ [c EXCEPT !.next_sequence = n].next_sequence = n
  <2> DEFINE g == [c EXCEPT !.next_sequence = n]
  <2>1. /\ DOMAIN g = ClientFields /\ g.next_sequence = n
        /\ \A f \in ClientFields \ {"next_sequence"} : g[f] = c[f]
    BY <1>1, <1>2
  <2> HIDE DEF g
  <2>2. Kept(c, g, {"next_sequence"}) /\ g.next_sequence = n
    BY <1>1, <1>6, <2>1 DEF Kept, Formed
  <2> QED BY <2>2 DEF g
<1>8. Kept(c, [c EXCEPT !.connected = FALSE], {"connected"})
  <2> DEFINE g == [c EXCEPT !.connected = FALSE]
  <2>1. DOMAIN g = ClientFields /\ \A f \in ClientFields \ {"connected"} : g[f] = c[f]
    BY <1>1, <1>2
  <2> HIDE DEF g
  <2>2. Kept(c, g, {"connected"})
    BY <1>1, <1>6, <2>1 DEF Kept, Formed
  <2> QED BY <2>2 DEF g
<1> QED BY <1>4, <1>5, <1>7, <1>8

\* next_sequence_, epoch and generation once the response w is absorbed.
Counter(c, w) == IF w.decided THEN w.sequence + 1 ELSE c.next_sequence

Epoch(c, w) == IF w.epoch # 0 THEN w.epoch ELSE c.epoch

Generation(c, w) == IF w.generation # 0 THEN w.generation ELSE c.generation

\* What a client's record is after absorb, placed and reconciled.
Absorbed(c, w, x) ==
  /\ Kept(c, x, {"next_sequence", "account", "epoch", "generation"})
  /\ x.next_sequence = Counter(c, w)
  /\ x.epoch = Epoch(c, w) /\ x.generation = Generation(c, w)

PlacedBy(c, w, p) ==
  /\ Kept(c, p, {"placed", "next_sequence"}) /\ p.placed = TRUE
  /\ p.next_sequence = IF w.sequence + 1 > c.next_sequence THEN w.sequence + 1 ELSE c.next_sequence

ReconciledBy(c, w, r) ==
  /\ Kept(c, r, {"placed", "epoch", "generation"}) /\ r.placed = TRUE
  /\ r.epoch = w.epoch /\ r.generation = w.generation

\* absorb, placed and reconciled: the counter and the era.
LEMMA ClientLearns ==
  ASSUME NEW c, Formed(c), NEW w
  PROVE  Absorbed(c, w, absorb(c, w)) /\ PlacedBy(c, w, placed(c, w)) /\ ReconciledBy(c, w, reconciled(c, w))
<1> DEFINE ns == Counter(c, w)
           ep == Epoch(c, w)
           ge == Generation(c, w)
           up == IF w.sequence + 1 > c.next_sequence THEN w.sequence + 1 ELSE c.next_sequence
           x == absorb(c, w)
           p == placed(c, w)
           r == reconciled(c, w)
           xx == {"next_sequence", "account", "epoch", "generation"}
           pp == {"placed", "next_sequence"}
           rr == {"placed", "epoch", "generation"}
<1>1. DOMAIN c = ClientFields /\ DOMAIN c.call = CallFields
  BY DEF Formed
<1>2. {"next_sequence", "account", "epoch", "generation", "placed"} \subseteq ClientFields
  BY DEF ClientFields
<1>3. "call" \in ClientFields \ xx /\ "call" \in ClientFields \ pp /\ "call" \in ClientFields \ rr
  BY DEF ClientFields
<1>4. /\ x = [c EXCEPT !.next_sequence = ns, !.account = w.account, !.epoch = ep, !.generation = ge]
      /\ p = [c EXCEPT !.placed = TRUE, !.next_sequence = up]
      /\ r = [c EXCEPT !.placed = TRUE, !.epoch = w.epoch, !.generation = w.generation]
  BY DEF absorb, placed, reconciled, Counter, Epoch, Generation
<1> HIDE DEF ns, ep, ge, up, x, p, r
<1>5. /\ DOMAIN x = ClientFields /\ x.next_sequence = ns /\ x.epoch = ep /\ x.generation = ge
      /\ \A f \in ClientFields \ xx : x[f] = c[f]
  BY <1>1, <1>2, <1>4
<1>6. /\ DOMAIN p = ClientFields /\ p.placed = TRUE /\ p.next_sequence = up
      /\ \A f \in ClientFields \ pp : p[f] = c[f]
  BY <1>1, <1>2, <1>4
<1>7. /\ DOMAIN r = ClientFields /\ r.placed = TRUE /\ r.epoch = w.epoch /\ r.generation = w.generation
      /\ \A f \in ClientFields \ rr : r[f] = c[f]
  BY <1>1, <1>2, <1>4
<1> HIDE DEF xx, pp, rr
<1>8. Kept(c, x, xx) /\ Kept(c, p, pp) /\ Kept(c, r, rr)
  BY <1>1, <1>3, <1>5, <1>6, <1>7 DEF Kept, Formed
<1>9. Absorbed(c, w, x) /\ PlacedBy(c, w, p) /\ ReconciledBy(c, w, r)
  BY <1>5, <1>6, <1>7, <1>8 DEF ns, ep, ge, up, xx, pp, rr, Absorbed, PlacedBy, ReconciledBy
<1> QED BY <1>9 DEF x, p, r

-----------------------------------------------------------------------------
(* The client's side of a step: the client becomes d and its wire v.       *)

Learnt == {"next_sequence", "account", "epoch", "generation", "placed", "call"}

\* The call has another exchange.
Onward(i, c, w, d, v) ==
  /\ Kept(c, d, Learnt) /\ v = request_of(i, d)
  /\ \/ /\ c.call.step = "describe" /\ At(c, d, "first") /\ w.reason = "Ok" /\ d.placed = TRUE
        /\ d.next_sequence = IF w.sequence + 1 > Counter(c, w) THEN w.sequence + 1 ELSE Counter(c, w)
     \/ /\ c.call.step = "first" /\ At(c, d, "redescribe") /\ needs_revalidation(w.reason)
        /\ d.placed = c.placed /\ d.next_sequence = Counter(c, w)
     \/ /\ c.call.step = "redescribe" /\ At(c, d, "reconcile") /\ w.reason = "Ok"
        /\ d.placed = c.placed /\ d.next_sequence = w.sequence + 1
        /\ d.epoch = Epoch(c, w) /\ d.generation = Generation(c, w)
     \/ /\ c.call.step = "reconcile" /\ At(c, d, "retry") /\ w.reason = "Ok"
        /\ d.placed = TRUE /\ d.next_sequence = Counter(c, w) /\ c.call.op # "Reconcile"
        /\ d.epoch = w.epoch /\ d.generation = w.generation

\* What it then has on the wire.
LEMMA OnwardAsks ==
  ASSUME NEW i, NEW c, NEW w, NEW d, NEW v, Onward(i, c, w, d, v)
  PROVE  AsksFor(v, i, d) /\ v.state = "request" /\ v.state # "reply"
<1>1. v = request_of(i, d)
  BY DEF Onward
<1> QED BY <1>1, AsRequest

\* The call is over.
Over(c, w, d, v) ==
  /\ Kept(c, d, Learnt \cup {"result"}) /\ v = Quiet
  /\ At(c, d, "none") /\ d.result = w.reason /\ d.next_sequence = Counter(c, w)
  /\ \/ c.call.step = "reconcile" /\ w.reason = "Ok" /\ c.call.op = "Reconcile" /\ d.placed = TRUE
     \/ /\ d.placed = c.placed
        /\ c.call.step = "first" => ~needs_revalidation(w.reason)
        /\ c.call.step \in {"describe", "redescribe", "reconcile"} => w.reason # "Ok"

Domains ==
  /\ DOMAIN client = Incarnations /\ DOMAIN wire = Incarnations /\ DOMAIN limbo = Incarnations
  /\ DOMAIN raced = Incarnations /\ DOMAIN disturbed = Incarnations
  /\ DOMAIN accounts = Accounts /\ IsSeq(history)

\* Only client i and its wire change.
Only(i, d, v) ==
  /\ DOMAIN client' = Incarnations /\ DOMAIN wire' = Incarnations
  /\ client'[i] = d /\ wire'[i] = v
  /\ \A j \in Incarnations : j # i => client'[j] = client[j] /\ wire'[j] = wire[j]

\* An update of client i and its wire, or of the client alone.
LEMMA OnlyOne ==
  ASSUME Domains, NEW i \in Incarnations, NEW d, NEW v, client' = [client EXCEPT ![i] = d],
         wire' = [wire EXCEPT ![i] = v] \/ (wire' = wire /\ v = wire[i])
  PROVE  Only(i, d, v)
BY DEF Domains, Only

\* An exchange on a sound connection sends.
LEMMA Sends ==
  ASSUME Domains, NEW i \in Incarnations, NEW x, Exchange(i, x), x.connected, wire[i].state # "down"
  PROVE  Only(i, x, request_of(i, x))
<1>1. client' = [client EXCEPT ![i] = x] /\ wire' = [wire EXCEPT ![i] = request_of(i, x)]
  BY DEF Exchange
<1> QED BY <1>1, OnlyOne

\* The disjuncts of the CASE of Receive.
LEMMA ReceiveCases ==
  ASSUME NEW i, Receive(i)
  PROVE  LET w == wire[i]
             x == absorb(client[i], w)
             s == x.call.step
         IN  /\ w.state = "reply" /\ UNCHANGED <<engine, limbo, raced, disturbed, faults>>
             /\ \/ s = "describe" /\ w.reason = "Ok" /\ Exchange(i, go(placed(x, w), "first"))
                \/ s = "first" /\ needs_revalidation(w.reason) /\ Exchange(i, go(x, "redescribe"))
                \/ /\ s = "redescribe" /\ w.reason = "Ok"
                   /\ Exchange(i, go([x EXCEPT !.next_sequence = w.sequence + 1], "reconcile"))
                \/ /\ s = "reconcile" /\ w.reason = "Ok" /\ x.call.op = "Reconcile"
                   /\ Finish(i, reconciled(x, w), "Ok")
                \/ /\ s = "reconcile" /\ w.reason = "Ok" /\ x.call.op # "Reconcile"
                   /\ Exchange(i, go(reconciled(x, w), "retry"))
                \/ /\ ~(s = "describe" /\ w.reason = "Ok") /\ ~(s = "first" /\ needs_revalidation(w.reason))
                   /\ ~(s = "redescribe" /\ w.reason = "Ok") /\ ~(s = "reconcile" /\ w.reason = "Ok")
                   /\ Finish(i, x, w.reason)
BY DEF Receive

\* Receive goes on with the call or ends it.
LEMMA ReceiveStep ==
  ASSUME Domains, NEW i \in Incarnations, Receive(i), Formed(client[i]), client[i].connected
  PROVE  /\ wire[i].state = "reply" /\ UNCHANGED <<engine, limbo, raced, disturbed, faults>>
         /\ \E d, v : /\ Only(i, d, v)
                      /\ Onward(i, client[i], wire[i], d, v) \/ Over(client[i], wire[i], d, v)
<1> DEFINE c == client[i]
           w == wire[i]
           x == absorb(c, w)
           s == x.call.step
           xx == {"next_sequence", "account", "epoch", "generation"}
<1>0. Formed(c) /\ c.connected
  OBVIOUS
<1>1. /\ Kept(c, x, xx)
      /\ x.next_sequence = Counter(c, w) /\ x.epoch = Epoch(c, w) /\ x.generation = Generation(c, w)
  <2> HIDE DEF c, w
  <2>1. Absorbed(c, w, x)
    BY <1>0, ClientLearns
  <2> QED BY <2>1 DEF Absorbed
<1>2. /\ w.state = "reply" /\ UNCHANGED <<engine, limbo, raced, disturbed, faults>>
      /\ \/ s = "describe" /\ w.reason = "Ok" /\ Exchange(i, go(placed(x, w), "first"))
         \/ s = "first" /\ needs_revalidation(w.reason) /\ Exchange(i, go(x, "redescribe"))
         \/ /\ s = "redescribe" /\ w.reason = "Ok"
            /\ Exchange(i, go([x EXCEPT !.next_sequence = w.sequence + 1], "reconcile"))
         \/ /\ s = "reconcile" /\ w.reason = "Ok" /\ x.call.op = "Reconcile"
            /\ Finish(i, reconciled(x, w), "Ok")
         \/ /\ s = "reconcile" /\ w.reason = "Ok" /\ x.call.op # "Reconcile"
            /\ Exchange(i, go(reconciled(x, w), "retry"))
         \/ /\ ~(s = "describe" /\ w.reason = "Ok") /\ ~(s = "first" /\ needs_revalidation(w.reason))
            /\ ~(s = "redescribe" /\ w.reason = "Ok") /\ ~(s = "reconcile" /\ w.reason = "Ok")
            /\ Finish(i, x, w.reason)
  BY ReceiveCases
<1>3. w.state # "down"
  BY <1>2
<1> HIDE DEF c, w, x
<1>4. {"call", "connected", "placed", "result"} \subseteq ClientFields \ xx
  BY DEF ClientFields
<1>5. Formed(x) /\ x.call = c.call /\ x.connected = c.connected /\ x.placed = c.placed
  BY <1>1, <1>4 DEF Kept
<1>6. /\ xx \subseteq Learnt /\ {"call"} \subseteq Learnt
      /\ {"placed", "next_sequence"} \subseteq Learnt /\ {"placed", "epoch", "generation"} \subseteq Learnt
      /\ {"next_sequence"} \subseteq Learnt
      /\ Learnt \subseteq Learnt \cup {"result"} /\ {"call", "result"} \subseteq Learnt \cup {"result"}
  BY DEF Learnt
<1>7. {"next_sequence", "epoch", "generation", "placed", "connected"} \subseteq ClientFields \ {"call"}
  BY DEF ClientFields
<1>8. ASSUME NEW y, Kept(x, y, Learnt), y.call = c.call, y.connected = c.connected, NEW t,
             Exchange(i, go(y, t))
      PROVE  \E d, v : /\ Only(i, d, v) /\ Kept(c, d, Learnt) /\ v = request_of(i, d) /\ At(c, d, t)
                       /\ d.placed = y.placed /\ d.next_sequence = y.next_sequence
                       /\ d.epoch = y.epoch /\ d.generation = y.generation
  <2> DEFINE d == go(y, t)
  <2>1. Formed(y)
    BY <1>8 DEF Kept
  <2>2. Kept(y, d, {"call"}) /\ At(y, d, t)
    BY <2>1, ClientUpdates
  <2> HIDE DEF d
  <2>3. /\ d.placed = y.placed /\ d.next_sequence = y.next_sequence
        /\ d.epoch = y.epoch /\ d.generation = y.generation /\ d.connected = y.connected
    BY <1>7, <2>2 DEF Kept
  <2>4. Kept(c, d, Learnt)
    <3>2. Kept(c, y, Learnt)
      BY <1>1, <1>6, <1>8 DEF Kept
    <3> QED BY <1>6, <2>2, <3>2 DEF Kept
  <2>5. Only(i, d, request_of(i, d))
    BY <1>0, <1>3, <1>8, <2>3, Sends DEF d, w
  <2>6. At(c, d, t)
    BY <1>8, <2>2 DEF At
  <2> QED BY <2>3, <2>4, <2>5, <2>6
<1>9. ASSUME NEW y, Kept(x, y, Learnt), y.call = c.call, NEW reason, Finish(i, y, reason)
      PROVE  \E d, v : /\ Only(i, d, v) /\ Kept(c, d, Learnt \cup {"result"}) /\ v = Quiet
                       /\ At(c, d, "none") /\ d.result = reason
                       /\ d.placed = y.placed /\ d.next_sequence = y.next_sequence
  <2> DEFINE d == return(y, reason)
  <2>1. Formed(y)
    BY <1>9 DEF Kept
  <2>2. Kept(y, d, {"call", "result"}) /\ At(y, d, "none") /\ d.result = reason
    BY <2>1, ClientUpdates
  <2> HIDE DEF d
  <2>3. {"next_sequence", "placed"} \subseteq ClientFields \ {"call", "result"}
    BY DEF ClientFields
  <2>4. d.placed = y.placed /\ d.next_sequence = y.next_sequence
    BY <2>2, <2>3 DEF Kept
  <2>5. Kept(c, d, Learnt \cup {"result"})
    <3>2. Kept(c, y, Learnt)
      BY <1>1, <1>6, <1>9 DEF Kept
    <3> QED BY <1>6, <2>2, <3>2 DEF Kept
  <2>6. Only(i, d, Quiet)
    BY <1>9, OnlyOne DEF Finish, d
  <2>7. At(c, d, "none")
    BY <1>9, <2>2 DEF At
  <2> QED BY <2>2, <2>4, <2>5, <2>6, <2>7
<1>10. Kept(x, x, Learnt)
  BY <1>5 DEF Kept
<1> SUFFICES \E d, v : Only(i, d, v) /\ (Onward(i, c, w, d, v) \/ Over(c, w, d, v))
  BY <1>2 DEF c, w
<1>11. CASE s = "describe" /\ w.reason = "Ok" /\ Exchange(i, go(placed(x, w), "first"))
  <2> DEFINE y == placed(x, w)
  <2>1. /\ Kept(x, y, {"placed", "next_sequence"}) /\ y.placed = TRUE
        /\ y.next_sequence = IF w.sequence + 1 > x.next_sequence THEN w.sequence + 1 ELSE x.next_sequence
    <3>1. PlacedBy(x, w, y)
      BY <1>5, ClientLearns
    <3> QED BY <3>1 DEF PlacedBy
  <2> HIDE DEF y
  <2>2. {"call", "connected"} \subseteq ClientFields \ {"placed", "next_sequence"}
    BY DEF ClientFields
  <2>3. y.call = c.call /\ y.connected = c.connected
    BY <1>5, <2>1, <2>2 DEF Kept
  <2>4. Kept(x, y, Learnt)
    BY <1>6, <1>10, <2>1 DEF Kept
  <2>5. PICK d, v : /\ Only(i, d, v) /\ Kept(c, d, Learnt) /\ v = request_of(i, d) /\ At(c, d, "first")
                    /\ d.placed = y.placed /\ d.next_sequence = y.next_sequence
    BY <1>8, <1>11, <2>3, <2>4 DEF y
  <2>6. Onward(i, c, w, d, v)
    BY <1>1, <1>5, <1>11, <2>1, <2>5 DEF Onward
  <2> QED BY <2>5, <2>6
<1>12. CASE s = "first" /\ needs_revalidation(w.reason) /\ Exchange(i, go(x, "redescribe"))
  <2>1. PICK d, v : /\ Only(i, d, v) /\ Kept(c, d, Learnt) /\ v = request_of(i, d)
                    /\ At(c, d, "redescribe")
                    /\ d.placed = x.placed /\ d.next_sequence = x.next_sequence
    BY <1>5, <1>8, <1>10, <1>12
  <2>2. Onward(i, c, w, d, v)
    BY <1>1, <1>5, <1>12, <2>1 DEF Onward
  <2> QED BY <2>1, <2>2
<1>13. CASE /\ s = "redescribe" /\ w.reason = "Ok"
            /\ Exchange(i, go([x EXCEPT !.next_sequence = w.sequence + 1], "reconcile"))
  <2> DEFINE y == [x EXCEPT !.next_sequence = w.sequence + 1]
  <2>1. Kept(x, y, {"next_sequence"}) /\ y.next_sequence = w.sequence + 1
    BY <1>5, ClientUpdates
  <2> HIDE DEF y
  <2>2. {"call", "connected", "placed", "epoch", "generation"} \subseteq ClientFields \ {"next_sequence"}
    BY DEF ClientFields
  <2>3. /\ y.call = c.call /\ y.connected = c.connected /\ y.placed = c.placed
        /\ y.epoch = x.epoch /\ y.generation = x.generation
    BY <1>5, <2>1, <2>2 DEF Kept
  <2>4. Kept(x, y, Learnt)
    BY <1>6, <1>10, <2>1 DEF Kept
  <2>5. PICK d, v : /\ Only(i, d, v) /\ Kept(c, d, Learnt) /\ v = request_of(i, d)
                    /\ At(c, d, "reconcile")
                    /\ d.placed = y.placed /\ d.next_sequence = y.next_sequence
                    /\ d.epoch = y.epoch /\ d.generation = y.generation
    BY <1>8, <1>13, <2>3, <2>4 DEF y
  <2>6. Onward(i, c, w, d, v)
    BY <1>1, <1>5, <1>13, <2>1, <2>3, <2>5 DEF Onward
  <2> QED BY <2>5, <2>6
<1> DEFINE z == reconciled(x, w)
<1>14. /\ Kept(x, z, Learnt) /\ z.call = c.call /\ z.connected = c.connected /\ z.placed = TRUE
       /\ z.next_sequence = x.next_sequence /\ z.epoch = w.epoch /\ z.generation = w.generation
  <2>1. /\ Kept(x, z, {"placed", "epoch", "generation"}) /\ z.placed = TRUE
        /\ z.epoch = w.epoch /\ z.generation = w.generation
    <3>1. ReconciledBy(x, w, z)
      BY <1>5, ClientLearns
    <3> QED BY <3>1 DEF ReconciledBy
  <2> HIDE DEF z
  <2>2. {"call", "connected", "next_sequence"} \subseteq ClientFields \ {"placed", "epoch", "generation"}
    BY DEF ClientFields
  <2>3. z.call = c.call /\ z.connected = c.connected /\ z.next_sequence = x.next_sequence
    BY <1>5, <2>1, <2>2 DEF Kept
  <2>4. Kept(x, z, Learnt)
    BY <1>6, <1>10, <2>1 DEF Kept
  <2> QED BY <2>1, <2>3, <2>4
<1> HIDE DEF z
<1>15. CASE /\ s = "reconcile" /\ w.reason = "Ok" /\ x.call.op = "Reconcile"
            /\ Finish(i, reconciled(x, w), "Ok")
  <2>1. PICK d, v : /\ Only(i, d, v) /\ Kept(c, d, Learnt \cup {"result"}) /\ v = Quiet
                    /\ At(c, d, "none") /\ d.result = w.reason
                    /\ d.placed = z.placed /\ d.next_sequence = z.next_sequence
    <3>1. Finish(i, z, w.reason)
      BY <1>15 DEF z
    <3>2. Kept(x, z, Learnt) /\ z.call = c.call
      BY <1>14
    <3> QED BY <1>9, <3>1, <3>2
  <2>2. Over(c, w, d, v)
    BY <1>1, <1>5, <1>14, <1>15, <2>1 DEF Over
  <2> QED BY <2>1, <2>2
<1>16. CASE /\ s = "reconcile" /\ w.reason = "Ok" /\ x.call.op # "Reconcile"
            /\ Exchange(i, go(reconciled(x, w), "retry"))
  <2>1. PICK d, v : /\ Only(i, d, v) /\ Kept(c, d, Learnt) /\ v = request_of(i, d)
                    /\ At(c, d, "retry")
                    /\ d.placed = z.placed /\ d.next_sequence = z.next_sequence
                    /\ d.epoch = z.epoch /\ d.generation = z.generation
    BY <1>8, <1>14, <1>16 DEF z
  <2>2. Onward(i, c, w, d, v)
    BY <1>1, <1>5, <1>14, <1>16, <2>1 DEF Onward
  <2> QED BY <2>1, <2>2
<1>17. CASE /\ ~(s = "describe" /\ w.reason = "Ok") /\ ~(s = "first" /\ needs_revalidation(w.reason))
            /\ ~(s = "redescribe" /\ w.reason = "Ok") /\ ~(s = "reconcile" /\ w.reason = "Ok")
            /\ Finish(i, x, w.reason)
  <2>1. PICK d, v : /\ Only(i, d, v) /\ Kept(c, d, Learnt \cup {"result"}) /\ v = Quiet
                    /\ At(c, d, "none") /\ d.result = w.reason
                    /\ d.placed = x.placed /\ d.next_sequence = x.next_sequence
    BY <1>5, <1>9, <1>10, <1>17
  <2>2. Over(c, w, d, v)
    BY <1>1, <1>5, <1>17, <2>1 DEF Over
  <2> QED BY <2>1, <2>2
<1> QED BY <1>2, <1>11, <1>12, <1>13, <1>15, <1>16, <1>17

\* connect on c.
Connects(c, d, v) ==
  /\ Kept(c, d, {"connected", "challenge", "placed"}) /\ v = Quiet
  /\ d.connected = TRUE /\ d.challenge = boot /\ d.placed = FALSE

\* connect only touches the connection, the challenge and placed_.
LEMMA ConnectStep ==
  ASSUME Domains, NEW i \in Incarnations, connect(i), Formed(client[i])
  PROVE  /\ client[i].call.step = "none" /\ UNCHANGED <<engine, limbo, raced, disturbed, faults>>
         /\ \E d, v : Only(i, d, v) /\ Connects(client[i], d, v)
<1> DEFINE c == client[i]
           d == [c EXCEPT !.connected = TRUE, !.challenge = boot, !.placed = FALSE]
<1>1. c.call.step = "none" /\ UNCHANGED <<engine, limbo, raced, disturbed, faults>>
  BY DEF connect, Idle
<1>2. /\ client' = [client EXCEPT ![i].connected = TRUE, ![i].challenge = boot, ![i].placed = FALSE]
      /\ wire' = [wire EXCEPT ![i] = Quiet]
  BY DEF connect
<1>3. DOMAIN client = Incarnations /\ DOMAIN wire = Incarnations
  BY DEF Domains
<1>4. /\ DOMAIN client' = Incarnations /\ client'[i] = d
      /\ \A j \in Incarnations : j # i => client'[j] = client[j]
  BY <1>2, <1>3
<1>5. /\ DOMAIN wire' = Incarnations /\ wire'[i] = Quiet
      /\ \A j \in Incarnations : j # i => wire'[j] = wire[j]
  BY <1>2, <1>3
<1>6. Only(i, d, Quiet)
  BY <1>4, <1>5 DEF Only
<1>7. DOMAIN c = ClientFields /\ DOMAIN c.call = CallFields
  BY DEF Formed
<1>8. {"connected", "challenge", "placed"} \subseteq ClientFields
      /\ "call" \in ClientFields \ {"connected", "challenge", "placed"}
  BY DEF ClientFields
<1> HIDE DEF c
<1>9. /\ DOMAIN d = ClientFields /\ d.connected = TRUE /\ d.challenge = boot /\ d.placed = FALSE
      /\ \A f \in ClientFields \ {"connected", "challenge", "placed"} : d[f] = c[f]
  BY <1>7, <1>8
<1> HIDE DEF d
<1>10. Connects(c, d, Quiet)
  BY <1>7, <1>8, <1>9 DEF Connects, Kept, Formed
<1> QED BY <1>1, <1>6, <1>10 DEF c

\* Every count that a caller names is a number.
LEMMA ArgumentCounts ==
  ASSUME NEW op, NEW args \in Arguments(op)
  PROVE  args.count \in Nat
<1>1. U64 \subseteq Nat /\ 0 \in Nat
  BY SMTT(30) DEF U64
<1>2. args.count \in Counts \/ args.count = 0
  BY DEF Arguments
<1> QED BY <1>1, <1>2, ClientAssumption

\* submit, describe and reconcile on c: the call is new, and is sent or fails at once.
Submits(i, c, w, op, a, args, d, v) ==
  \/ /\ Kept(c, d, {"call"}) /\ v = request_of(i, d)
     /\ c.connected /\ w.state # "down"
     /\ d.call.step = first_step(c, op, a)
     /\ d.call.op = op /\ d.call.account = a /\ d.call.number = c.call.number + 1
     /\ d.call.args = args
  \/ /\ Kept(c, d, {"connected", "call", "result"}) /\ v = w
     /\ ~(c.connected /\ w.state # "down") /\ d.result = lost
     /\ d.call.step = "none" /\ d.call.op = op /\ d.call.account = a
     /\ d.call.number = c.call.number + 1 /\ d.call.args = args

\* A new call.
LEMMA SubmitStep ==
  ASSUME Domains, NEW i \in Incarnations, NEW op, NEW a, NEW args, submit(i, op, a, args),
         Formed(client[i])
  PROVE  /\ client[i].call.step = "none" /\ UNCHANGED <<engine, limbo, raced, disturbed, faults>>
         /\ \E d, v : Only(i, d, v) /\ Submits(i, client[i], wire[i], op, a, args, d, v)
<1> DEFINE c == client[i]
           w == wire[i]
           q == [step |-> first_step(c, op, a), op |-> op, account |-> a, number |-> c.call.number + 1,
                 args |-> args]
           x == [c EXCEPT !.call = q]
           y == [x EXCEPT !.connected = FALSE]
           z == return(y, lost)
<1>1. c.call.step = "none" /\ UNCHANGED <<engine, limbo, raced, disturbed, faults>> /\ Exchange(i, x)
  BY DEF submit, Idle
<1>2. DOMAIN c = ClientFields
  BY DEF Formed
<1>3. \/ x.connected /\ w.state # "down" /\ Only(i, x, request_of(i, x))
      \/ ~(x.connected /\ w.state # "down") /\ Only(i, z, w)
  <2>1. CASE x.connected /\ w.state # "down"
    BY <1>1, <2>1, Sends
  <2>2. CASE ~(x.connected /\ w.state # "down")
    <3>1. client' = [client EXCEPT ![i] = z] /\ wire' = wire
      BY <1>1, <2>2 DEF Exchange
    <3> QED BY <2>2, <3>1, OnlyOne
  <2> QED BY <2>1, <2>2
<1>4. /\ DOMAIN q = CallFields /\ q.step = first_step(c, op, a) /\ q.op = op /\ q.account = a
      /\ q.number = c.call.number + 1 /\ q.args = args
  BY DEF CallFields
<1> HIDE DEF c, w, q
<1>5. {"call"} \subseteq ClientFields /\ "connected" \in ClientFields \ {"call"}
      /\ "call" \in ClientFields \ {"connected"}
  BY DEF ClientFields
<1>6. DOMAIN x = ClientFields /\ x.call = q /\ \A f \in ClientFields \ {"call"} : x[f] = c[f]
  BY <1>2, <1>5
<1> HIDE DEF x
<1>7. Kept(c, x, {"call"}) /\ Formed(x) /\ x.connected = c.connected
  BY <1>4, <1>5, <1>6 DEF Kept, Formed
<1>8. Kept(x, y, {"connected"}) /\ y.call = q
  BY <1>5, <1>6, <1>7, ClientUpdates DEF Kept
<1> HIDE DEF y
<1>9. Formed(y)
  BY <1>8 DEF Kept
<1>10. Kept(y, z, {"call", "result"}) /\ At(y, z, "none") /\ z.result = lost
  BY <1>9, ClientUpdates
<1> HIDE DEF z
<1>11. Kept(c, z, {"connected", "call", "result"})
  BY <1>7, <1>8, <1>10 DEF Kept
<1>12. CASE x.connected /\ w.state # "down" /\ Only(i, x, request_of(i, x))
  <2>1. Submits(i, c, w, op, a, args, x, request_of(i, x))
    BY <1>4, <1>6, <1>7, <1>12 DEF Submits
  <2> QED BY <1>1, <1>12, <2>1 DEF c, w
<1>13. CASE ~(x.connected /\ w.state # "down") /\ Only(i, z, w)
  <2>1. Submits(i, c, w, op, a, args, z, w)
    BY <1>4, <1>7, <1>8, <1>10, <1>11, <1>13 DEF Submits, At
  <2> QED BY <1>1, <1>13, <2>1 DEF c, w
<1> QED BY <1>3, <1>12, <1>13

\* A call whose connection has failed.
Fails(c, d) ==
  /\ Kept(c, d, {"connected", "call", "result"}) /\ At(c, d, "none") /\ d.result = lost

\* ExchangeFails ends the call with a transport error.
LEMMA FailStep ==
  ASSUME Domains, NEW i \in Incarnations, ExchangeFails(i), Formed(client[i])
  PROVE  /\ client[i].call.step # "none" /\ wire[i].state = "down"
         /\ UNCHANGED <<engine, limbo, raced, disturbed, faults>>
         /\ \E d : Only(i, d, wire[i]) /\ Fails(client[i], d)
<1> DEFINE c == client[i]
           y == [c EXCEPT !.connected = FALSE]
           z == return(y, lost)
<1>1. /\ c.call.step # "none" /\ wire[i].state = "down"
      /\ UNCHANGED <<engine, limbo, raced, disturbed, faults>> /\ wire' = wire
  BY DEF ExchangeFails, Idle
<1>2. client' = [client EXCEPT ![i] = return([@ EXCEPT !.connected = FALSE], lost)]
  BY DEF ExchangeFails
<1>3. client' = [client EXCEPT ![i] = z]
  BY <1>2
<1>4. Only(i, z, wire[i])
  BY <1>1, <1>3, OnlyOne
<1>5. Formed(c)
  OBVIOUS
<1> HIDE DEF c
<1>6. Kept(c, y, {"connected"}) /\ "call" \in ClientFields \ {"connected"}
  BY <1>5, ClientUpdates DEF ClientFields
<1> HIDE DEF y
<1>7. Formed(y) /\ y.call = c.call
  BY <1>6 DEF Kept
<1>8. Kept(y, z, {"call", "result"}) /\ At(y, z, "none") /\ z.result = lost
  BY <1>7, ClientUpdates
<1> HIDE DEF z
<1>9. Kept(c, z, {"connected", "call", "result"}) /\ At(c, z, "none")
  BY <1>6, <1>7, <1>8 DEF Kept, At
<1>10. Fails(c, z)
  BY <1>8, <1>9 DEF Fails
<1> QED BY <1>1, <1>4, <1>10 DEF c

\* A client that is started again knows nothing but the number of its calls.
Restarted(c, d) ==
  /\ Formed(d) /\ d.call.step = "none" /\ d.call.number = c.call.number /\ d.result = "none"
  /\ d.placed = FALSE /\ d.next_sequence = 1 /\ d.call.args.count = 0

\* That is the client that Kill leaves.
LEMMA NewClientFields ==
  ASSUME NEW c
  PROVE  Restarted(c, NewClient(c.call.number))
<1> DEFINE n == c.call.number
           q == [NoCall EXCEPT !.number = n]
           d == NewClient(n)
<1>1. /\ DOMAIN NoCall = CallFields /\ NoCall.step = "none" /\ NoCall.args = NoArguments
      /\ NoArguments.count = 0 /\ {"step", "number", "args"} \subseteq CallFields
  BY DEF NoCall, NoArguments, CallFields
<1>2. "step" # "number" /\ "args" # "number"
  OBVIOUS
<1> HIDE DEF n
<1>3. DOMAIN q = CallFields /\ q.step = "none" /\ q.number = n /\ q.args.count = 0
  BY <1>1, <1>2
<1>4. d = [connected |-> FALSE, challenge |-> 0, next_sequence |-> 1, placed |-> FALSE,
           account |-> Unset, epoch |-> 0, generation |-> 0, call |-> q, result |-> "none"]
  BY DEF NewClient
<1> HIDE DEF q, d
<1>5. /\ DOMAIN d = ClientFields /\ d.call = q /\ d.result = "none" /\ d.placed = FALSE
      /\ d.next_sequence = 1
  BY <1>4 DEF ClientFields
<1>6. Restarted(c, d)
  BY <1>3, <1>5 DEF Restarted, Formed, n
<1> QED BY <1>6 DEF d, n

-----------------------------------------------------------------------------
(* Shape: what a call may be at, and what is on the wire then.             *)

\* The request of a killed client belongs to a call that is over.
Late(l, i, c) ==
  /\ l.account \in Accounts /\ l.request.op \in Requested /\ l.request.count \in Nat
  /\ l.request.incarnation = i
  /\ l.request.attempt[1] = i /\ l.request.attempt[2] \in Nat
  /\ l.request.attempt[2] <= c.call.number
  /\ c.call.step # "none" => l.request.attempt[2] < c.call.number

CallShape(c) ==
  /\ Formed(c) /\ c.call.number \in Nat /\ c.call.args.count \in Nat
  /\ c.call.step \in Steps \cup {"none"}
  /\ c.call.step \in {"describe", "first", "retry"} => c.call.op \in Tries
  /\ c.call.step = "only" => c.call.op \in {"Open", "Describe"}
  /\ c.call.step \in {"redescribe", "reconcile"} => c.call.op \in Tries \cup {"Reconcile"}
  /\ c.call.step # "none" => c.call.account \in Accounts

Shape(i, c, w, l, b) ==
  /\ CallShape(c)
  /\ w.state \in {"down", "idle", "request", "reply"}
  /\ w.state # "down" => c.connected /\ c.challenge = b
  /\ w.state = "idle" => c.call.step = "none"
  /\ w.state = "request" => c.call.step # "none" /\ AsksFor(w, i, c)
  /\ w.state = "reply" => c.call.step # "none"
  /\ l.state = "request" => Late(l, i, c)

\* A step of a call asks for an operation that there is.
LEMMA OpRequested ==
  ASSUME NEW c, CallShape(c), c.call.step # "none"
  PROVE  /\ Op(c) \in Requested
         /\ c.call.step = "only" => Op(c) = c.call.op /\ Op(c) \in {"Open", "Describe"}
         /\ c.call.step \in {"describe", "redescribe"} => Op(c) = "Describe"
         /\ c.call.step = "reconcile" => Op(c) = "Reconcile"
         /\ c.call.step \in {"first", "retry"} => Op(c) = c.call.op /\ Op(c) \in Tries
BY DEF CallShape, Op, Requested, Steps

\* A call that goes on.
LEMMA ShapeOnward ==
  ASSUME NEW i, NEW c, NEW w, NEW l, NEW b, Shape(i, c, w, l, b), w.state = "reply",
         NEW d, NEW v, Onward(i, c, w, d, v)
  PROVE  Shape(i, d, v, l, b)
<1>1. {"connected", "challenge"} \subseteq ClientFields \ Learnt
  BY DEF ClientFields, Learnt
<1>2. Formed(d) /\ d.connected = c.connected /\ d.challenge = c.challenge
  BY <1>1 DEF Onward, Kept
<1>3. AsksFor(v, i, d) /\ v.state = "request"
  BY OnwardAsks
<1>4. /\ d.call.op = c.call.op /\ d.call.account = c.call.account /\ d.call.number = c.call.number
      /\ d.call.args = c.call.args
      /\ \/ c.call.step = "describe" /\ d.call.step = "first"
         \/ c.call.step = "first" /\ d.call.step = "redescribe"
         \/ c.call.step = "redescribe" /\ d.call.step = "reconcile"
         \/ c.call.step = "reconcile" /\ d.call.step = "retry" /\ c.call.op # "Reconcile"
  BY DEF Onward, At
<1>5. CallShape(c) /\ c.connected /\ c.challenge = b
  BY DEF Shape
<1>6. CallShape(d) /\ d.call.step # "none" /\ c.call.step # "none"
  BY <1>2, <1>4, <1>5 DEF CallShape, Steps
<1>7. l.state = "request" => Late(l, i, d)
  BY <1>4, <1>6 DEF Shape, Late
<1>8. v.state \in {"down", "idle", "request", "reply"} /\ v.state # "idle" /\ v.state # "reply"
  BY <1>3
<1> QED BY <1>2, <1>3, <1>5, <1>6, <1>7, <1>8 DEF Shape

\* A call that ends, with an answer or without.
LEMMA ShapeOver ==
  ASSUME NEW i, NEW c, NEW w, NEW l, NEW b, Shape(i, c, w, l, b), NEW d, NEW v,
         \/ w.state = "reply" /\ Over(c, w, d, v)
         \/ w.state = "down" /\ Fails(c, d) /\ v = w
  PROVE  Shape(i, d, v, l, b)
<1>1. {"connected", "challenge"} \subseteq ClientFields \ (Learnt \cup {"result"})
  BY DEF ClientFields, Learnt
<1>2. Formed(d) /\ At(c, d, "none")
  BY DEF Over, Fails, Kept
<1>3. CallShape(c)
  BY DEF Shape
<1>4. CallShape(d) /\ d.call.step = "none"
  BY <1>2, <1>3 DEF CallShape, Steps, At
<1>5. l.state = "request" => Late(l, i, d)
  BY <1>2 DEF Shape, Late, At
<1>6. CASE w.state = "reply" /\ Over(c, w, d, v)
  <2>1. d.connected = c.connected /\ d.challenge = c.challenge
    BY <1>1, <1>6 DEF Over, Kept
  <2>2. w.state # "down" /\ v.state = "idle"
    BY <1>6 DEF Over, Quiet
  <2>3. c.connected /\ c.challenge = b
    BY <2>2 DEF Shape
  <2>4. v.state \in {"down", "idle", "request", "reply"} /\ v.state # "request" /\ v.state # "reply"
    BY <2>2
  <2> QED BY <1>4, <1>5, <2>1, <2>3, <2>4 DEF Shape
<1>7. CASE w.state = "down" /\ Fails(c, d) /\ v = w
  <2>1. /\ v.state \in {"down", "idle", "request", "reply"} /\ v.state = "down"
        /\ v.state # "request" /\ v.state # "reply" /\ v.state # "idle"
    BY <1>7
  <2> QED BY <1>4, <1>5, <2>1 DEF Shape
<1> QED BY <1>6, <1>7

\* A connection that is made.
LEMMA ShapeConnects ==
  ASSUME NEW i, NEW c, NEW w, NEW l, Shape(i, c, w, l, boot), c.call.step = "none",
         NEW d, NEW v, Connects(c, d, v)
  PROVE  Shape(i, d, v, l, boot)
<1>1. "call" \in ClientFields \ {"connected", "challenge", "placed"}
  BY DEF ClientFields
<1>2. Formed(d) /\ d.call = c.call /\ d.connected = TRUE /\ d.challenge = boot
  BY <1>1 DEF Connects, Kept
<1>3. CallShape(c)
  BY DEF Shape
<1>4. CallShape(d) /\ d.call.step = "none"
  BY <1>2, <1>3 DEF CallShape
<1>5. l.state = "request" => Late(l, i, d)
  BY <1>2 DEF Shape, Late
<1>6. v.state \in {"down", "idle", "request", "reply"} /\ v.state # "request" /\ v.state # "reply"
  BY DEF Connects, Quiet
<1> QED BY <1>2, <1>4, <1>5, <1>6 DEF Shape

\* A call that is made.
LEMMA ShapeSubmits ==
  ASSUME NEW i, NEW c, NEW w, NEW l, NEW b, Shape(i, c, w, l, b), c.call.step = "none",
         NEW op \in Ops \cup {"Describe", "Reconcile"}, NEW a \in Accounts, NEW args \in Arguments(op),
         NEW d, NEW v, Submits(i, c, w, op, a, args, d, v)
  PROVE  Shape(i, d, v, l, b)
<1>1. CallShape(c) /\ w.state \in {"down", "idle", "request", "reply"}
  BY DEF Shape
<1>2. op \in Requested
  BY ClientAssumption DEF Requested, Tries
<1>3. /\ Formed(d) /\ d.call.op = op /\ d.call.account = a /\ d.call.number = c.call.number + 1
      /\ d.call.args = args
  BY DEF Submits, Kept
<1>4. d.call.step \in {first_step(c, op, a), "none"}
  BY DEF Submits
<1>5. CallShape(d)
  <2>1. c.call.number \in Nat
    BY <1>1 DEF CallShape
  <2>2. d.call.number \in Nat
    BY <1>3, <2>1, SMTT(30)
  <2>3. d.call.args.count \in Nat
    BY <1>3, ArgumentCounts
  <2> QED BY <1>2, <1>3, <1>4, <2>2, <2>3 DEF CallShape, first_step, Steps, Requested
<1>6. ASSUME l.state = "request" PROVE Late(l, i, d)
  <2>1. Late(l, i, c)
    BY <1>6 DEF Shape
  <2>2. l.request.attempt[2] < d.call.number /\ l.request.attempt[2] <= d.call.number
    BY <1>1, <1>3, <2>1, SMTT(30) DEF CallShape, Late
  <2> QED BY <2>1, <2>2 DEF Late
<1>7. CASE /\ Kept(c, d, {"call"}) /\ v = request_of(i, d) /\ c.connected /\ w.state # "down"
           /\ d.call.step = first_step(c, op, a)
  <2>1. {"connected", "challenge"} \subseteq ClientFields \ {"call"}
    BY DEF ClientFields
  <2>2. d.connected = c.connected /\ d.challenge = c.challenge
    BY <1>7, <2>1 DEF Kept
  <2>3. AsksFor(v, i, d) /\ v.state = "request"
    BY <1>7, AsRequest
  <2>4. d.call.step # "none"
    BY <1>7 DEF first_step
  <2>5. c.connected /\ c.challenge = b
    BY <1>7 DEF Shape
  <2>6. v.state \in {"down", "idle", "request", "reply"} /\ v.state # "idle" /\ v.state # "reply"
    BY <2>3
  <2> QED BY <1>5, <1>6, <2>2, <2>3, <2>4, <2>5, <2>6 DEF Shape
<1>8. CASE /\ v = w /\ ~(c.connected /\ w.state # "down") /\ d.call.step = "none"
  <2>1. w.state = "down"
    BY <1>8 DEF Shape
  <2>2. v.state # "request" /\ v.state # "reply" /\ v.state # "idle"
    BY <1>8, <2>1
  <2> QED BY <1>1, <1>5, <1>6, <1>8, <2>1, <2>2 DEF Shape
<1> QED BY <1>7, <1>8 DEF Submits

\* A client that is killed: what it has sent may be in limbo.
LEMMA ShapeKill ==
  ASSUME NEW i, NEW c, NEW w, NEW l, NEW b, Shape(i, c, w, l, b), c.call.step # "none",
         NEW d, Restarted(c, d), NEW k, k = IF w.state = "request" THEN w ELSE l
  PROVE  Shape(i, d, Down, k, b)
<1>1. CallShape(c)
  BY DEF Shape
<1>2. CallShape(d) /\ d.call.step = "none" /\ d.call.number = c.call.number
  <2>1. 0 \in Nat
    BY SMTT(30)
  <2> QED BY <1>1, <2>1 DEF CallShape, Restarted, Steps
<1>3. ASSUME w.state = "request" PROVE Late(w, i, d)
  <2>1. AsksFor(w, i, c)
    BY <1>3 DEF Shape
  <2>2. Op(c) \in Requested /\ c.call.account \in Accounts /\ c.call.number \in Nat
    BY <1>1, OpRequested DEF CallShape
  <2>3. c.call.number <= c.call.number
    BY <2>2, Equal
  <2>4. w.request.count \in Nat
    BY <1>1, <2>1, SMTT(30) DEF CallShape, AsksFor
  <2> QED BY <1>2, <2>1, <2>2, <2>3, <2>4 DEF Late, AsksFor
<1>4. ASSUME l.state = "request" PROVE Late(l, i, d)
  BY <1>2, <1>4 DEF Shape, Late
<1>5. k.state = "request" => Late(k, i, d)
  BY <1>3, <1>4
<1>6. /\ Down.state \in {"down", "idle", "request", "reply"} /\ Down.state = "down"
      /\ Down.state # "request" /\ Down.state # "reply" /\ Down.state # "idle"
  BY DEF Down
<1> QED BY <1>2, <1>5, <1>6 DEF Shape

\* A wire on which the answer is put, or that fails; and a limbo that is emptied.
LEMMA ShapeWire ==
  ASSUME NEW i, NEW c, NEW w, NEW l, NEW b, Shape(i, c, w, l, b), NEW v, NEW n
  PROVE  /\ w.state = "request" /\ v.state = "reply" => Shape(i, c, v, l, b)
         /\ Shape(i, c, Down, l, b) /\ Shape(i, c, w, Down, b) /\ Shape(i, c, Down, Down, n)
<1>1. /\ Down.state \in {"down", "idle", "request", "reply"} /\ Down.state = "down"
      /\ Down.state # "request" /\ Down.state # "reply" /\ Down.state # "idle"
  BY DEF Down
<1>2. Shape(i, c, Down, l, b) /\ Shape(i, c, w, Down, b) /\ Shape(i, c, Down, Down, n)
  BY <1>1 DEF Shape
<1>3. ASSUME w.state = "request", v.state = "reply" PROVE Shape(i, c, v, l, b)
  <2>1. /\ v.state \in {"down", "idle", "request", "reply"} /\ v.state # "request" /\ v.state # "idle"
        /\ w.state # "down"
    BY <1>3
  <2> QED BY <1>3, <2>1 DEF Shape
<1> QED BY <1>2, <1>3

-----------------------------------------------------------------------------
(* Pst: what the calls of a client have in the history.                    *)

Of(e, i, n) == e.request.attempt[1] = i /\ e.request.attempt[2] = n

\* Call n of client i has decided nothing, reconciliations apart.
OnlyReconciled(h, i, n) == \A k \in DOMAIN h : Of(h[k], i, n) => h[k].request.op = "Reconcile"

\* Call n of client i has decided an attempt for op.
Has(h, i, n, op) == \E k \in DOMAIN h : Of(h[k], i, n) /\ h[k].request.op = op

\* The attempt for the call's operation is still to come, or has just been refused.
Expecting(c, w) ==
  \/ w.state = "request"
  \/ /\ w.state = "reply"
     /\ c.call.step \in {"describe", "redescribe", "reconcile"} \/ needs_revalidation(w.reason)

Pst(i, c, w, l, h) ==
  /\ \A k \in DOMAIN h : h[k].request.attempt[1] = i => h[k].request.attempt[2] \in 0..c.call.number
  /\ Expecting(c, w) => OnlyReconciled(h, i, c.call.number)
  /\ l.state = "request" => OnlyReconciled(h, i, l.request.attempt[2])
  /\ w.state = "reply" /\ w.reason = "Ok" /\ Op(c) # "Describe" => Has(h, i, c.call.number, Op(c))
  /\ c.call.step = "none" /\ c.result = "Ok" /\ c.call.op # "Describe" =>
       Has(h, i, c.call.number, c.call.op)

\* SubmitDecidesOnce, of a given history.
DecidesOnce(h) ==
  \A j, k \in DOMAIN h :
    /\ h[j].request.op # "Reconcile" /\ h[k].request.op # "Reconcile"
    /\ h[j].request.attempt[1] = h[k].request.attempt[1]
    /\ h[j].request.attempt[2] = h[k].request.attempt[2]
    => j = k

\* A call that goes on or ends, a connection that is made, a killed client: the history is as it was.
LEMMA PstOnward ==
  ASSUME NEW i, NEW c, NEW w, NEW l, NEW h, Pst(i, c, w, l, h), w.state = "reply",
         NEW d, NEW v, Onward(i, c, w, d, v)
  PROVE  Pst(i, d, v, l, h)
<1>1. v.state = "request" /\ v.state # "reply"
  BY OnwardAsks
<1>2. d.call.number = c.call.number /\ d.call.step # "none"
  BY DEF Onward, At
<1>3. Expecting(c, w)
  BY DEF Onward, Expecting
<1> QED BY <1>1, <1>2, <1>3 DEF Pst

\* The call ends.
LEMMA PstOver ==
  ASSUME NEW i, NEW c, NEW w, NEW l, NEW h, Pst(i, c, w, l, h), CallShape(c), NEW d, NEW v,
         \/ w.state = "reply" /\ c.call.step # "none" /\ Over(c, w, d, v)
         \/ w.state = "down" /\ Fails(c, d) /\ v = w
  PROVE  Pst(i, d, v, l, h)
<1>1. At(c, d, "none")
  BY DEF Over, Fails
<1>2. v.state # "request" /\ v.state # "reply"
  BY SMTT(30) DEF Over, Quiet
<1>3. ASSUME d.result = "Ok", d.call.op # "Describe" PROVE Has(h, i, d.call.number, d.call.op)
  <2>1. w.state = "reply" /\ c.call.step # "none" /\ Over(c, w, d, v)
    BY <1>3 DEF Fails, lost
  <2>2. Op(c) = c.call.op
    <3>1. \/ c.call.step = "reconcile" /\ c.call.op = "Reconcile"
          \/ c.call.step \notin {"describe", "redescribe", "reconcile"}
      BY <1>3, <2>1 DEF Over
    <3> QED BY <3>1 DEF Op
  <2>3. w.reason = "Ok"
    BY <1>3, <2>1 DEF Over
  <2> QED BY <1>1, <1>3, <2>1, <2>2, <2>3 DEF Pst, At
<1>4. ~Expecting(d, v)
  BY <1>2 DEF Expecting
<1> QED BY <1>1, <1>2, <1>3, <1>4 DEF Pst, At

\* A connection is made.
LEMMA PstConnects ==
  ASSUME NEW i, NEW c, NEW w, NEW l, NEW h, Pst(i, c, w, l, h), NEW d, NEW v, Connects(c, d, v)
  PROVE  Pst(i, d, v, l, h)
<1>1. {"call", "result"} \subseteq ClientFields \ {"connected", "challenge", "placed"}
  BY DEF ClientFields
<1>2. d.call = c.call /\ d.result = c.result
  BY <1>1 DEF Connects, Kept
<1>3. v.state # "request" /\ v.state # "reply"
  BY DEF Connects, Quiet
<1>4. ~Expecting(d, v)
  BY <1>3 DEF Expecting
<1> QED BY <1>2, <1>3, <1>4 DEF Pst

\* A new call has nothing in the history.
LEMMA PstSubmits ==
  ASSUME NEW i, NEW c, NEW w, NEW l, NEW h, Pst(i, c, w, l, h), CallShape(c), c.call.step = "none",
         w.state \in {"down", "idle"}, NEW op, NEW a, NEW args, NEW d, NEW v,
         Submits(i, c, w, op, a, args, d, v)
  PROVE  Pst(i, d, v, l, h)
<1>1. c.call.number \in Nat /\ d.call.number = c.call.number + 1
  BY DEF CallShape, Submits
<1>2. ASSUME NEW k \in DOMAIN h, h[k].request.attempt[1] = i
      PROVE  h[k].request.attempt[2] \in 0..c.call.number
  BY <1>2 DEF Pst
<1>3. \A k \in DOMAIN h : h[k].request.attempt[1] = i =>
        h[k].request.attempt[2] \in 0..d.call.number /\ h[k].request.attempt[2] # d.call.number
  <2> SUFFICES ASSUME NEW k \in DOMAIN h, h[k].request.attempt[1] = i
               PROVE  h[k].request.attempt[2] \in 0..d.call.number /\ h[k].request.attempt[2] # d.call.number
    OBVIOUS
  <2>1. h[k].request.attempt[2] \in 0..c.call.number
    BY <1>2
  <2> QED BY <1>1, <2>1, SMTT(30)
<1>4. OnlyReconciled(h, i, d.call.number)
  BY <1>3 DEF OnlyReconciled, Of
<1>5. v.state # "reply"
  <2>1. request_of(i, d).state = "request"
    BY AsRequest
  <2> QED BY <2>1 DEF Submits
<1>6. ~(d.call.step = "none" /\ d.result = "Ok")
  BY DEF Submits, first_step, lost
<1> QED BY <1>3, <1>4, <1>5, <1>6 DEF Pst

\* A client is killed.
LEMMA PstKill ==
  ASSUME NEW i, NEW c, NEW w, NEW l, NEW b, NEW h, Pst(i, c, w, l, h), Shape(i, c, w, l, b),
         NEW d, Restarted(c, d), NEW k, k = IF w.state = "request" THEN w ELSE l
  PROVE  Pst(i, d, Down, k, h)
<1>1. Down.state # "request" /\ Down.state # "reply" /\ d.result # "Ok"
  BY DEF Down, Restarted
<1>2. d.call.number = c.call.number
  BY DEF Restarted
<1>3. ~Expecting(d, Down)
  BY <1>1 DEF Expecting
<1>4. w.state = "request" => Expecting(c, w) /\ w.request.attempt[2] = c.call.number
  BY DEF Expecting, Shape, AsksFor
<1>5. k.state = "request" => OnlyReconciled(h, i, k.request.attempt[2])
  BY <1>4 DEF Pst
<1> QED BY <1>1, <1>2, <1>3, <1>5 DEF Pst

\* A wire that fails; and a limbo that is emptied.
LEMMA PstWire ==
  ASSUME NEW i, NEW c, NEW w, NEW l, NEW h, Pst(i, c, w, l, h)
  PROVE  Pst(i, c, Down, l, h) /\ Pst(i, c, Down, Down, h)
<1>1. Down.state # "request" /\ Down.state # "reply"
  BY DEF Down
<1>2. ~Expecting(c, Down)
  BY <1>1 DEF Expecting
<1> QED BY <1>1, <1>2 DEF Pst

\* g holds what h held, and the message m.
Longer(g, h, m) ==
  /\ DOMAIN h \subseteq DOMAIN g /\ \A k \in DOMAIN h : g[k] = h[k]
  /\ \A k \in DOMAIN g : k \in DOMAIN h \/ g[k] = m
  /\ \E k \in DOMAIN g : g[k] = m

\* An extended history holds what it held, and the message.
LEMMA ExtendsKeeps ==
  ASSUME NEW h, NEW m, NEW g, Extends(g, h, m)
  PROVE  Longer(g, h, m)
<1>1. /\ Len(h) \in Nat /\ DOMAIN h = 1..Len(h) /\ DOMAIN g = 1..(Len(h) + 1)
      /\ \A k \in 1..Len(h) : g[k] = h[k]
      /\ g[Len(h) + 1] = m
  BY DEF Extends
<1> QED BY <1>1, SMTT(30) DEF Longer

\* How the facts about a history survive what is appended to it.
LEMMA Appended ==
  ASSUME NEW h, NEW m, NEW g, Extends(g, h, m), NEW i, NEW n, NEW op
  PROVE  /\ OnlyReconciled(h, i, n) /\ (Of(m, i, n) => m.request.op = "Reconcile") => OnlyReconciled(g, i, n)
         /\ Has(h, i, n, op) => Has(g, i, n, op)
         /\ Of(m, i, n) => Has(g, i, n, m.request.op)
<1>1. Longer(g, h, m)
  BY ExtendsKeeps
<1> QED BY <1>1 DEF Longer, OnlyReconciled, Has

\* A decision for a call that has only reconciled keeps the history in order.
LEMMA OnceMore ==
  ASSUME NEW h, NEW m, NEW g, Extends(g, h, m), DecidesOnce(h),
         m.request.op # "Reconcile" => OnlyReconciled(h, m.request.attempt[1], m.request.attempt[2])
  PROVE  DecidesOnce(g)
<1>1. /\ Len(h) \in Nat /\ DOMAIN h = 1..Len(h) /\ DOMAIN g = 1..(Len(h) + 1)
      /\ \A k \in 1..Len(h) : g[k] = h[k]
      /\ g[Len(h) + 1] = m
  BY DEF Extends
<1> DEFINE last == Len(h) + 1
<1>2. /\ \A k \in DOMAIN g : k \in DOMAIN h \/ k = last
      /\ g[last] = m /\ \A k \in DOMAIN h : g[k] = h[k]
  BY <1>1, SMTT(30)
<1> HIDE DEF last
<1> SUFFICES ASSUME NEW j \in DOMAIN g, NEW k \in DOMAIN g,
                    g[j].request.op # "Reconcile", g[k].request.op # "Reconcile",
                    g[j].request.attempt[1] = g[k].request.attempt[1],
                    g[j].request.attempt[2] = g[k].request.attempt[2]
             PROVE  j = k
  BY DEF DecidesOnce
<1>3. CASE j \in DOMAIN h /\ k \in DOMAIN h
  BY <1>2, <1>3 DEF DecidesOnce
<1>4. CASE j = last /\ k \in DOMAIN h
  BY <1>2, <1>4 DEF OnlyReconciled, Of
<1>5. CASE k = last /\ j \in DOMAIN h
  BY <1>2, <1>5 DEF OnlyReconciled, Of
<1> QED BY <1>2, <1>3, <1>4, <1>5

\* g is the history h once the message m has come to out.
Recorded(h, m, out, g) ==
  \/ out.decided = TRUE /\ Extends(g, h, m)
  \/ out.decided = FALSE /\ g = h

\* The engine serves the client's own request.
LEMMA PstServe ==
  ASSUME NEW i, NEW c, NEW w, NEW l, NEW b, NEW h, Pst(i, c, w, l, h), Shape(i, c, w, l, b),
         w.state = "request", NEW a, NEW out, NEW nonce, Outcome(a, w, out, nonce),
         NEW g, Recorded(h, w, out, g)
  PROVE  /\ Pst(i, c, out.reply, l, g)
         /\ DecidesOnce(h) => DecidesOnce(g)
<1> DEFINE n == c.call.number
           v == out.reply
<1>1. AsksFor(w, i, c) /\ c.call.step # "none" /\ CallShape(c) /\ n \in Nat
  BY DEF Shape, CallShape
<1>2. Of(w, i, n) /\ w.request.op = Op(c)
  BY <1>1 DEF AsksFor, Of
<1>3. OnlyReconciled(h, i, n) /\ Expecting(c, w)
  BY DEF Pst, Expecting
<1>4. v.state = "reply" /\ v.state # "request"
  BY DEF Outcome
<1>5. l.state = "request" => Late(l, i, c) /\ OnlyReconciled(h, i, l.request.attempt[2])
  BY DEF Shape, Pst
<1>6. CASE out.decided = FALSE /\ g = h
  <2>1. v.reason = "Ok" => Op(c) = "Describe"
    <3>1. ~DecidedSo(a, w, out)
      BY <1>6 DEF DecidedSo
    <3> QED BY <1>2, <3>1 DEF Outcome, TurnedDown, ToldOf
  <2> QED BY <1>1, <1>3, <1>4, <1>6, <2>1 DEF Pst
<1>7. CASE out.decided = TRUE /\ Extends(g, h, w)
  <2>1. DecidedSo(a, w, out)
    BY <1>7 DEF Outcome, TurnedDown, ToldOf
  <2>2. ~needs_revalidation(v.reason) /\ Op(c) # "Describe"
    BY <1>2, <2>1 DEF DecidedSo, Plain, needs_revalidation
  <2>3. Has(g, i, n, Op(c))
    <3>1. Has(g, i, n, w.request.op)
      BY <1>2, <1>7, Appended
    <3> QED BY <1>2, <3>1
  <2>4. c.call.step \in {"describe", "redescribe", "reconcile"} => Op(c) = "Reconcile"
    BY <1>1, <2>2, OpRequested
  <2>5. Expecting(c, v) => OnlyReconciled(g, i, n)
    <3>1. Expecting(c, v) => w.request.op = "Reconcile"
      BY <1>2, <1>4, <2>2, <2>4 DEF Expecting
    <3> QED BY <1>3, <1>7, <3>1, Appended
  <2>6. ASSUME NEW k \in DOMAIN g, g[k].request.attempt[1] = i
        PROVE  g[k].request.attempt[2] \in 0..n
    <3>0. Longer(g, h, w)
      BY <1>7, ExtendsKeeps
    <3>1. (k \in DOMAIN h /\ g[k] = h[k]) \/ g[k] = w
      BY <3>0 DEF Longer
    <3>2. w.request.attempt[2] = n /\ n \in 0..n
      BY <1>1, <1>2, SMTT(30) DEF Of
    <3> QED BY <2>6, <3>1, <3>2 DEF Pst
  <2>7. l.state = "request" => OnlyReconciled(g, i, l.request.attempt[2])
    <3>1. l.state = "request" => l.request.attempt[2] # n
      BY <1>1, <1>5, SMTT(30) DEF Late
    <3>2. l.state = "request" => ~Of(w, i, l.request.attempt[2])
      BY <1>2, <3>1 DEF Of
    <3> QED BY <1>5, <1>7, <3>2, Appended
  <2>8. Pst(i, c, v, l, g)
    BY <1>1, <2>3, <2>5, <2>6, <2>7 DEF Pst
  <2>9. DecidesOnce(h) => DecidesOnce(g)
    <3>1. w.request.attempt[1] = i /\ w.request.attempt[2] = n
      BY <1>2 DEF Of
    <3> QED BY <1>3, <1>7, <3>1, OnceMore
  <2> QED BY <2>8, <2>9
<1> QED BY <1>6, <1>7 DEF Recorded

\* The engine serves a request of client i's killed predecessor.
LEMMA PstLate ==
  ASSUME NEW i, NEW c, NEW w, NEW l, NEW b, NEW h, Pst(i, c, w, l, h), Shape(i, c, w, l, b),
         l.state = "request", NEW out, NEW g, Recorded(h, l, out, g)
  PROVE  /\ Pst(i, c, w, Down, g)
         /\ DecidesOnce(h) => DecidesOnce(g)
<1> DEFINE n == c.call.number
           q == l.request.attempt[2]
<1>1. CallShape(c) /\ n \in Nat
  BY DEF Shape, CallShape
<1>2. Late(l, i, c) /\ OnlyReconciled(h, i, q)
  BY DEF Shape, Pst
<1>3. l.request.attempt[1] = i /\ q \in 0..n /\ (c.call.step # "none" => q # n)
  BY <1>1, <1>2, SMTT(30) DEF Late
<1>4. Down.state # "request"
  BY DEF Down
<1>5. CASE out.decided = FALSE /\ g = h
  BY <1>4, <1>5 DEF Pst
<1>6. CASE out.decided = TRUE /\ Extends(g, h, l)
  <2>1. c.call.step # "none" => ~Of(l, i, n)
    BY <1>3 DEF Of
  <2>2. Expecting(c, w) => c.call.step # "none"
    BY DEF Expecting, Shape
  <2>3. Expecting(c, w) => OnlyReconciled(g, i, n)
    BY <1>6, <2>1, <2>2, Appended DEF Pst
  <2>4. ASSUME NEW k \in DOMAIN g, g[k].request.attempt[1] = i
        PROVE  g[k].request.attempt[2] \in 0..n
    <3>0. Longer(g, h, l)
      BY <1>6, ExtendsKeeps
    <3>1. (k \in DOMAIN h /\ g[k] = h[k]) \/ g[k] = l
      BY <3>0 DEF Longer
    <3> QED BY <1>3, <2>4, <3>1 DEF Pst
  <2>5. \A op : Has(h, i, n, op) => Has(g, i, n, op)
    BY <1>6, Appended
  <2>6. Pst(i, c, w, Down, g)
    BY <1>4, <2>3, <2>4, <2>5 DEF Pst
  <2>7. DecidesOnce(h) => DecidesOnce(g)
    BY <1>2, <1>3, <1>6, OnceMore
  <2> QED BY <2>6, <2>7
<1> QED BY <1>5, <1>6 DEF Recorded

\* The engine serves someone else.
LEMMA PstOther ==
  ASSUME NEW j, NEW c, NEW w, NEW l, NEW h, Pst(j, c, w, l, h), NEW m, m.request.attempt[1] # j,
         NEW out, NEW g, Recorded(h, m, out, g)
  PROVE  Pst(j, c, w, l, g)
<1>1. CASE out.decided = FALSE /\ g = h
  BY <1>1
<1>2. CASE out.decided = TRUE /\ Extends(g, h, m)
  <2>1. \A n : ~Of(m, j, n)
    BY DEF Of
  <2>2. \A n : OnlyReconciled(h, j, n) => OnlyReconciled(g, j, n)
    BY <1>2, <2>1, Appended
  <2>3. \A n, op : Has(h, j, n, op) => Has(g, j, n, op)
    BY <1>2, Appended
  <2>0. Longer(g, h, m)
    BY <1>2, ExtendsKeeps
  <2>4. \A k \in DOMAIN g : (k \in DOMAIN h /\ g[k] = h[k]) \/ g[k] = m
    BY <2>0 DEF Longer
  <2> QED BY <2>2, <2>3, <2>4 DEF Pst
<1> QED BY <1>1, <1>2 DEF Recorded

-----------------------------------------------------------------------------
(* The engine's side of a step.                                            *)

\* What Take does, once the message m has come to out.
Taken(m, out) ==
  /\ DOMAIN accounts' = Accounts /\ DOMAIN disturbed' = Incarnations
  /\ accounts'[m.account] = out.account
  /\ \A a \in Accounts : a # m.account => accounts'[a] = accounts[a]
  /\ Recorded(history, m, out, history') /\ IsSeq(history')
  /\ \A i \in Incarnations :
       \/ m.request.op \in EraEnds /\ out.decided = TRUE /\ disturbed'[i] = TRUE
       \/ /\ ~(m.request.op \in EraEnds /\ out.decided = TRUE)
          /\ m.request.op = "Describe" /\ m = wire[i] /\ disturbed'[i] = FALSE
       \/ /\ ~(m.request.op \in EraEnds /\ out.decided = TRUE)
          /\ ~(m.request.op = "Describe" /\ m = wire[i]) /\ disturbed'[i] = disturbed[i]
  /\ boot' = boot

\* Take is that, and its outcome is one of Outcome.
LEMMA TakeStep ==
  ASSUME Domains, NEW m, m.account \in Accounts, Sane(accounts[m.account]),
         m.request.op \in Requested, Take(m)
  PROVE  Outcome(accounts[m.account], m, apply(m), boot) /\ Taken(m, apply(m))
<1> DEFINE out == apply(m)
<1>1. Outcome(accounts[m.account], m, out, boot)
  BY Apply
<1>2. out.decided = TRUE \/ out.decided = FALSE
  BY <1>1 DEF Outcome, TurnedDown, ToldOf, DecidedSo
<1>3. /\ accounts' = [accounts EXCEPT ![m.account] = out.account]
      /\ history' = IF out.decided THEN Append(history, m) ELSE history
      /\ disturbed' = [i \in Incarnations |->
           IF m.request.op \in EraEnds /\ out.decided THEN TRUE
           ELSE IF m.request.op = "Describe" /\ m = wire[i] THEN FALSE
           ELSE disturbed[i]]
      /\ boot' = boot
  BY DEF Take
<1> HIDE DEF out
<1>4. DOMAIN accounts = Accounts /\ IsSeq(history)
  BY DEF Domains
<1>5. /\ DOMAIN accounts' = Accounts /\ accounts'[m.account] = out.account
      /\ \A a \in Accounts : a # m.account => accounts'[a] = accounts[a]
  BY <1>3, <1>4
<1>6. Recorded(history, m, out, history') /\ IsSeq(history')
  <2>1. CASE out.decided = TRUE
    <3>1. history' = Append(history, m)
      BY <1>3, <2>1
    <3>2. Extends(history', history, m)
      BY <1>4, <3>1, AppendExtends
    <3> QED BY <2>1, <3>2 DEF Recorded, Extends
  <2>2. CASE out.decided = FALSE
    <3>1. history' = history
      BY <1>3, <2>2
    <3> QED BY <1>4, <2>2, <3>1 DEF Recorded
  <2> QED BY <1>2, <2>1, <2>2
<1>7. /\ DOMAIN disturbed' = Incarnations
      /\ \A i \in Incarnations :
           \/ m.request.op \in EraEnds /\ out.decided = TRUE /\ disturbed'[i] = TRUE
           \/ /\ ~(m.request.op \in EraEnds /\ out.decided = TRUE)
              /\ m.request.op = "Describe" /\ m = wire[i] /\ disturbed'[i] = FALSE
           \/ /\ ~(m.request.op \in EraEnds /\ out.decided = TRUE)
              /\ ~(m.request.op = "Describe" /\ m = wire[i]) /\ disturbed'[i] = disturbed[i]
  BY <1>2, <1>3
<1>8. Taken(m, out)
  BY <1>3, <1>5, <1>6, <1>7 DEF Taken
<1> QED BY <1>1, <1>8 DEF out

\* An account stays one that can be reasoned about.
LEMMA SaneOutcome ==
  ASSUME NEW a, Sane(a), NEW m, NEW out, NEW nonce, Outcome(a, m, out, nonce)
  PROVE  Sane(out.account)
<1>1. CASE Same(a, out.account)
  BY <1>1 DEF Same, SameMarks, Sane
<1>2. CASE DecidedSo(a, m, out)
  BY <1>2 DEF DecidedSo, OpenTurn, Turn, Entered, Sane
<1> QED BY <1>1, <1>2 DEF Outcome, TurnedDown, ToldOf, Same

\* So it does when a boot ends.
LEMMA SaneForget ==
  ASSUME NEW a, Shaped(a), IsSeq(a.window)
  PROVE  Sane(forget_liveness(a))
<1>1. Shaped(forget_liveness(a)) /\ forget_liveness(a).window = a.window
  BY ForgetLiveness DEF Keeps
<1> QED BY <1>1 DEF Sane

-----------------------------------------------------------------------------
(* The steps, one by one.                                                  *)

\* What is known of every state before a step is looked at.
Basis ==
  /\ Domains
  /\ \A a \in Accounts : Sane(accounts[a])
  /\ \A i \in Incarnations : Shape(i, client[i], wire[i], limbo[i], boot)

ClientMove(i, c, w, d, v) ==
  \/ w.state = "reply" /\ Onward(i, c, w, d, v)
  \/ w.state = "reply" /\ Over(c, w, d, v)
  \/ c.call.step = "none" /\ Connects(c, d, v)
  \/ c.call.step = "none" /\ \E op \in Ops \cup {"Describe", "Reconcile"} : \E a \in Accounts :
                               \E args \in Arguments(op) : Submits(i, c, w, op, a, args, d, v)
  \/ w.state = "down" /\ c.call.step # "none" /\ Fails(c, d) /\ v = w

\* Client i makes or closes a call, or goes on with it.
ClientMoves(i) ==
  /\ \E d, v : Only(i, d, v) /\ ClientMove(i, client[i], wire[i], d, v)
  /\ accounts' = accounts /\ boot' = boot /\ history' = history
  /\ limbo' = limbo /\ raced' = raced /\ disturbed' = disturbed

\* The engine answers client i.
Serves(i) ==
  /\ wire[i].state = "request" /\ AsksFor(wire[i], i, client[i])
  /\ \E out : /\ Outcome(accounts[wire[i].account], wire[i], out, boot) /\ Taken(wire[i], out)
              /\ wire'[i] = out.reply
  /\ DOMAIN wire' = Incarnations /\ \A j \in Incarnations : j # i => wire'[j] = wire[j]
  /\ client' = client /\ limbo' = limbo /\ raced' = raced

\* The engine takes what the predecessor of client i had sent.
ServesLate(i) ==
  /\ limbo[i].state = "request" /\ Late(limbo[i], i, client[i])
  /\ \E out : Outcome(accounts[limbo[i].account], limbo[i], out, boot) /\ Taken(limbo[i], out)
  /\ DOMAIN limbo' = Incarnations /\ limbo'[i] = Down
  /\ \A j \in Incarnations : j # i => limbo'[j] = limbo[j]
  /\ DOMAIN raced' = Incarnations /\ raced'[i] = TRUE
  /\ \A j \in Incarnations : j # i => raced'[j] = raced[j]
  /\ client' = client /\ wire' = wire

\* The connection of client i fails.
Breaks(i) ==
  /\ DOMAIN wire' = Incarnations /\ wire'[i] = Down
  /\ \A j \in Incarnations : j # i => wire'[j] = wire[j]
  /\ accounts' = accounts /\ boot' = boot /\ history' = history
  /\ client' = client /\ limbo' = limbo /\ raced' = raced /\ disturbed' = disturbed

\* Client i is killed and started again.
Kills(i) ==
  /\ client[i].call.step # "none"
  /\ \E d : Only(i, d, Down) /\ Restarted(client[i], d)
  /\ DOMAIN limbo' = Incarnations
  /\ limbo'[i] = IF wire[i].state = "request" THEN wire[i] ELSE limbo[i]
  /\ \A j \in Incarnations : j # i => limbo'[j] = limbo[j]
  /\ accounts' = accounts /\ boot' = boot /\ history' = history
  /\ raced' = raced /\ disturbed' = disturbed

\* The coordinator ends and its next boot recovers.
Restarts ==
  /\ DOMAIN accounts' = Accounts
  /\ \A a \in Accounts :
       \/ accounts[a] = NoAccount /\ accounts'[a] = NoAccount
       \/ accounts[a] # NoAccount /\ accounts'[a] = forget_liveness(accounts[a])
  /\ DOMAIN wire' = Incarnations /\ DOMAIN limbo' = Incarnations
  /\ \A i \in Incarnations : wire'[i] = Down /\ limbo'[i] = Down
  /\ client' = client /\ history' = history /\ raced' = raced /\ disturbed' = disturbed

Steady ==
  /\ accounts' = accounts /\ boot' = boot /\ history' = history /\ client' = client
  /\ wire' = wire /\ limbo' = limbo /\ raced' = raced /\ disturbed' = disturbed

\* Every step is one of these.
LEMMA StepCases ==
  ASSUME Basis, [Next]_vars
  PROVE  \/ \E i \in Incarnations :
              ClientMoves(i) \/ Serves(i) \/ ServesLate(i) \/ Breaks(i) \/ Kills(i)
         \/ Restarts \/ Steady
<1>1. Domains /\ \A a \in Accounts : Sane(accounts[a])
  BY DEF Basis
<1>2. CASE UNCHANGED vars
  BY <1>2 DEF vars, engine, Steady
<1>3. ASSUME NEW i \in Incarnations PROVE Shape(i, client[i], wire[i], limbo[i], boot) /\ Formed(client[i])
  BY DEF Basis, Shape, CallShape
<1>4. ASSUME NEW i \in Incarnations, connect(i) PROVE ClientMoves(i)
  <2>1. /\ client[i].call.step = "none" /\ UNCHANGED <<engine, limbo, raced, disturbed, faults>>
        /\ \E d, v : Only(i, d, v) /\ Connects(client[i], d, v)
    BY <1>1, <1>3, <1>4, ConnectStep
  <2>2. \E d, v : Only(i, d, v) /\ ClientMove(i, client[i], wire[i], d, v)
    BY <2>1 DEF ClientMove
  <2> QED BY <2>1, <2>2 DEF ClientMoves, engine
<1>5. ASSUME NEW i \in Incarnations, Receive(i) PROVE ClientMoves(i)
  <2>1. wire[i].state = "reply"
    BY <1>5 DEF Receive
  <2>2. client[i].connected
    <3>1. wire[i].state # "down"
      BY <2>1
    <3> QED BY <1>3, <3>1 DEF Shape
  <2>3. /\ UNCHANGED <<engine, limbo, raced, disturbed, faults>>
        /\ \E d, v : /\ Only(i, d, v)
                     /\ Onward(i, client[i], wire[i], d, v) \/ Over(client[i], wire[i], d, v)
    BY <1>1, <1>3, <1>5, <2>2, ReceiveStep
  <2>4. \E d, v : Only(i, d, v) /\ ClientMove(i, client[i], wire[i], d, v)
    BY <2>1, <2>3 DEF ClientMove
  <2> QED BY <2>3, <2>4 DEF ClientMoves, engine
<1>6. ASSUME NEW i \in Incarnations, NEW op \in Ops \cup {"Describe", "Reconcile"}, NEW a \in Accounts,
             NEW args \in Arguments(op), submit(i, op, a, args)
      PROVE  ClientMoves(i)
  <2>1. /\ client[i].call.step = "none" /\ UNCHANGED <<engine, limbo, raced, disturbed, faults>>
        /\ \E d, v : Only(i, d, v) /\ Submits(i, client[i], wire[i], op, a, args, d, v)
    BY <1>1, <1>3, <1>6, SubmitStep
  <2>2. \E d, v : Only(i, d, v) /\ ClientMove(i, client[i], wire[i], d, v)
    BY <2>1 DEF ClientMove
  <2> QED BY <2>1, <2>2 DEF ClientMoves, engine
<1>7. ASSUME NEW i \in Incarnations, ExchangeFails(i) PROVE ClientMoves(i)
  <2>1. /\ client[i].call.step # "none" /\ wire[i].state = "down"
        /\ UNCHANGED <<engine, limbo, raced, disturbed, faults>>
        /\ \E d : Only(i, d, wire[i]) /\ Fails(client[i], d)
    BY <1>1, <1>3, <1>7, FailStep
  <2>2. \E d, v : Only(i, d, v) /\ ClientMove(i, client[i], wire[i], d, v)
    BY <2>1 DEF ClientMove
  <2> QED BY <2>1, <2>2 DEF ClientMoves, engine
<1>8. ASSUME NEW i \in Incarnations, Serve(i) PROVE Serves(i)
  <2>1. /\ wire[i].state = "request" /\ Take(wire[i]) /\ wire' = [wire EXCEPT ![i] = apply(wire[i]).reply]
        /\ client' = client /\ limbo' = limbo /\ raced' = raced
    BY <1>8 DEF Serve
  <2>2. AsksFor(wire[i], i, client[i]) /\ client[i].call.step # "none" /\ CallShape(client[i])
    BY <1>3, <2>1 DEF Shape
  <2>3. wire[i].account \in Accounts /\ wire[i].request.op \in Requested
    BY <2>2, OpRequested DEF AsksFor, CallShape
  <2>4. Outcome(accounts[wire[i].account], wire[i], apply(wire[i]), boot) /\ Taken(wire[i], apply(wire[i]))
    BY <1>1, <2>1, <2>3, TakeStep
  <2>5. /\ DOMAIN wire' = Incarnations /\ wire'[i] = apply(wire[i]).reply
        /\ \A j \in Incarnations : j # i => wire'[j] = wire[j]
    BY <1>1, <2>1 DEF Domains
  <2> QED BY <2>1, <2>2, <2>4, <2>5 DEF Serves
<1>9. ASSUME NEW i \in Incarnations, ServeLate(i) PROVE ServesLate(i)
  <2>1. /\ limbo[i].state = "request" /\ Take(limbo[i]) /\ limbo' = [limbo EXCEPT ![i] = Down]
        /\ raced' = [raced EXCEPT ![i] = TRUE] /\ client' = client /\ wire' = wire
    BY <1>9 DEF ServeLate
  <2>2. Late(limbo[i], i, client[i])
    BY <1>3, <2>1 DEF Shape
  <2>3. Outcome(accounts[limbo[i].account], limbo[i], apply(limbo[i]), boot) /\ Taken(limbo[i], apply(limbo[i]))
    BY <1>1, <2>1, <2>2, TakeStep DEF Late
  <2>4. /\ DOMAIN limbo' = Incarnations /\ limbo'[i] = Down
        /\ \A j \in Incarnations : j # i => limbo'[j] = limbo[j]
    BY <1>1, <2>1 DEF Domains
  <2>5. /\ DOMAIN raced' = Incarnations /\ raced'[i] = TRUE
        /\ \A j \in Incarnations : j # i => raced'[j] = raced[j]
    BY <1>1, <2>1 DEF Domains
  <2> QED BY <2>1, <2>2, <2>3, <2>4, <2>5 DEF ServesLate
<1>10. ASSUME NEW i \in Incarnations, Break(i) PROVE Breaks(i)
  <2>1. /\ wire' = [wire EXCEPT ![i] = Down] /\ accounts' = accounts /\ boot' = boot
        /\ history' = history /\ client' = client /\ limbo' = limbo /\ raced' = raced
        /\ disturbed' = disturbed
    BY <1>10 DEF Break, engine
  <2> QED BY <1>1, <2>1 DEF Domains, Breaks
<1>11. ASSUME NEW i \in Incarnations, Kill(i) PROVE Kills(i)
  <2>1. /\ client[i].call.step # "none"
        /\ client' = [client EXCEPT ![i] = NewClient(@.call.number)]
        /\ limbo' = [limbo EXCEPT ![i] = IF wire[i].state = "request" THEN wire[i] ELSE @]
        /\ wire' = [wire EXCEPT ![i] = Down] /\ accounts' = accounts /\ boot' = boot
        /\ history' = history /\ raced' = raced /\ disturbed' = disturbed
    BY <1>11 DEF Kill, engine, Idle
  <2> DEFINE d == NewClient(client[i].call.number)
  <2>2. client' = [client EXCEPT ![i] = d]
    BY <2>1
  <2>3. Restarted(client[i], d)
    BY NewClientFields
  <2> HIDE DEF d
  <2>4. Only(i, d, Down)
    BY <1>1, <2>1, <2>2, OnlyOne
  <2>5. /\ DOMAIN limbo' = Incarnations
        /\ limbo'[i] = IF wire[i].state = "request" THEN wire[i] ELSE limbo[i]
        /\ \A j \in Incarnations : j # i => limbo'[j] = limbo[j]
    BY <1>1, <2>1 DEF Domains
  <2> QED BY <2>1, <2>3, <2>4, <2>5 DEF Kills
<1>12. ASSUME Restart PROVE Restarts
  <2>1. /\ accounts' = [a \in Accounts |-> IF accounts[a] = NoAccount THEN NoAccount
                                          ELSE forget_liveness(accounts[a])]
        /\ wire' = [i \in Incarnations |-> Down] /\ limbo' = [i \in Incarnations |-> Down]
        /\ client' = client /\ history' = history /\ raced' = raced /\ disturbed' = disturbed
    BY <1>12 DEF Restart
  <2> QED BY <2>1 DEF Restarts
<1>13. CASE Next
  BY <1>4, <1>5, <1>6, <1>7, <1>8, <1>9, <1>10, <1>11, <1>12, <1>13 DEF Next
<1> QED BY <1>2, <1>13

-----------------------------------------------------------------------------
(* The first invariant: Shape, Pst and the history.                        *)

Story == Basis /\ (\A i \in Incarnations : Pst(i, client[i], wire[i], limbo[i], history)) /\ DecidesOnce(history)

\* Whatever the client does on its own.
LEMMA ClientMoveStory ==
  ASSUME NEW i, NEW c, NEW w, NEW l, NEW h, Shape(i, c, w, l, boot), Pst(i, c, w, l, h),
         NEW d, NEW v, ClientMove(i, c, w, d, v)
  PROVE  Shape(i, d, v, l, boot) /\ Pst(i, d, v, l, h)
<1>1. CallShape(c) /\ w.state \in {"down", "idle", "request", "reply"}
  BY DEF Shape
<1>2. CASE w.state = "reply" /\ Onward(i, c, w, d, v)
  BY <1>2, ShapeOnward, PstOnward
<1>3. CASE \/ w.state = "reply" /\ Over(c, w, d, v)
           \/ w.state = "down" /\ Fails(c, d) /\ v = w
  <2>1. w.state = "reply" => c.call.step # "none"
    BY DEF Shape
  <2>2. Pst(i, d, v, l, h)
    BY <1>1, <1>3, <2>1, PstOver
  <2>3. Shape(i, d, v, l, boot)
    BY <1>3, ShapeOver
  <2> QED BY <2>2, <2>3
<1>4. CASE c.call.step = "none" /\ Connects(c, d, v)
  BY <1>4, ShapeConnects, PstConnects
<1>5. ASSUME c.call.step = "none", NEW op \in Ops \cup {"Describe", "Reconcile"}, NEW a \in Accounts,
             NEW args \in Arguments(op), Submits(i, c, w, op, a, args, d, v)
      PROVE  Shape(i, d, v, l, boot) /\ Pst(i, d, v, l, h)
  <2>1. w.state \in {"down", "idle"}
    BY <1>1, <1>5 DEF Shape
  <2>2. Pst(i, d, v, l, h)
    BY <1>1, <1>5, <2>1, PstSubmits
  <2>3. Shape(i, d, v, l, boot)
    BY <1>5, ShapeSubmits
  <2> QED BY <2>2, <2>3
<1> QED BY <1>2, <1>3, <1>4, <1>5 DEF ClientMove

\* The story of one client after a step.
Tale(i) ==
  /\ Shape(i, client[i], wire[i], limbo[i], boot)
  /\ Pst(i, client[i], wire[i], limbo[i], history)

\* Initially there is nothing to tell.
LEMMA StoryInit == Init => Story
<1> SUFFICES ASSUME Init PROVE Story
  OBVIOUS
<1>1. Domains
  BY SMTT(30) DEF Init, Domains, IsSeq
<1>2. \A a \in Accounts : Sane(accounts[a])
  BY DEF Init, Sane
<1>3. ASSUME NEW i \in Incarnations
      PROVE  Shape(i, client[i], wire[i], limbo[i], boot) /\ Pst(i, client[i], wire[i], limbo[i], history)
  <2> DEFINE c == client[i]
             q == [NoCall EXCEPT !.number = 0]
  <2>1. c = NewClient(0) /\ wire[i] = Down /\ limbo[i] = Down /\ history = <<>>
    BY DEF Init
  <2>2. DOMAIN q = CallFields /\ q.step = "none" /\ q.number = 0 /\ q.args.count = 0
    BY DEF NoCall, NoArguments, CallFields
  <2>3. c = [connected |-> FALSE, challenge |-> 0, next_sequence |-> 1, placed |-> FALSE,
             account |-> Unset, epoch |-> 0, generation |-> 0, call |-> q, result |-> "none"]
    BY <2>1 DEF NewClient
  <2> HIDE DEF c, q
  <2>4. DOMAIN c = ClientFields /\ c.call = q /\ c.result = "none"
    BY <2>3 DEF ClientFields
  <2>5. CallShape(c)
    BY <2>2, <2>4, SMTT(30) DEF CallShape, Formed
  <2>6. /\ Down.state \in {"down", "idle", "request", "reply"} /\ Down.state = "down"
        /\ Down.state # "request" /\ Down.state # "reply" /\ Down.state # "idle"
    BY DEF Down
  <2>7. Shape(i, c, Down, Down, boot)
    BY <2>5, <2>6 DEF Shape
  <2>8. DOMAIN history = {} /\ c.result # "Ok" /\ ~Expecting(c, Down)
    BY <2>1, <2>4, <2>6, SMTT(30) DEF Expecting
  <2>9. Pst(i, c, Down, Down, history)
    BY <2>6, <2>8 DEF Pst
  <2> QED BY <2>1, <2>7, <2>9 DEF c
<1>4. DecidesOnce(history)
  BY SMTT(30) DEF Init, DecidesOnce
<1> QED BY <1>1, <1>2, <1>3, <1>4 DEF Story, Basis

\* The engine takes a message of client i: the accounts, and the stories of the others.
LEMMA TakenStory ==
  ASSUME Story, NEW i \in Incarnations, NEW m, m.account \in Accounts, m.request.attempt[1] = i,
         NEW out, NEW nonce, Outcome(accounts[m.account], m, out, nonce), Taken(m, out),
         client' = client, \A j \in Incarnations : j # i => wire'[j] = wire[j] /\ limbo'[j] = limbo[j]
  PROVE  /\ \A a \in Accounts : Sane(accounts'[a])
         /\ \A j \in Incarnations : j # i => Tale(j)'
<1>1. \A a \in Accounts : Sane(accounts[a])
  BY DEF Story, Basis
<1>2. Sane(out.account)
  BY <1>1, SaneOutcome
<1>3. \A a \in Accounts : Sane(accounts'[a])
  BY <1>1, <1>2 DEF Taken
<1>4. ASSUME NEW j \in Incarnations, j # i PROVE Tale(j)'
  <2>1. Pst(j, client[j], wire[j], limbo[j], history) /\ Shape(j, client[j], wire[j], limbo[j], boot)
    BY DEF Story, Basis
  <2>2. Recorded(history, m, out, history') /\ boot' = boot
    BY DEF Taken
  <2>3. Pst(j, client[j], wire[j], limbo[j], history')
    BY <1>4, <2>1, <2>2, PstOther
  <2>4. client'[j] = client[j] /\ wire'[j] = wire[j] /\ limbo'[j] = limbo[j]
    BY <1>4
  <2>5. Shape(j, client'[j], wire'[j], limbo'[j], boot') /\ Pst(j, client'[j], wire'[j], limbo'[j], history')
    BY <2>1, <2>2, <2>3, <2>4
  <2> QED BY <2>5 DEF Tale
<1> QED BY <1>3, <1>4

\* Every step keeps the story.
LEMMA StoryStep == Story /\ [Next]_vars => Story'
<1> SUFFICES ASSUME Story, [Next]_vars PROVE Story'
  OBVIOUS
<1>1. /\ Basis /\ Domains /\ (\A a \in Accounts : Sane(accounts[a])) /\ DecidesOnce(history)
      /\ \A i \in Incarnations : Tale(i)
  BY DEF Story, Basis, Tale
<1>2. ASSUME Domains', \A a \in Accounts : Sane(accounts'[a]), DecidesOnce(history'),
             \A i \in Incarnations : Tale(i)'
      PROVE  Story'
  BY <1>2 DEF Story, Basis, Tale
<1>3. ASSUME NEW i \in Incarnations, ClientMoves(i) PROVE Story'
  <2>1. PICK d, v : Only(i, d, v) /\ ClientMove(i, client[i], wire[i], d, v)
    BY <1>3 DEF ClientMoves
  <2>2. /\ accounts' = accounts /\ boot' = boot /\ history' = history
        /\ limbo' = limbo /\ raced' = raced /\ disturbed' = disturbed
    BY <1>3 DEF ClientMoves
  <2>3. Shape(i, d, v, limbo[i], boot) /\ Pst(i, d, v, limbo[i], history)
    BY <1>1, <2>1, ClientMoveStory DEF Tale
  <2>4. \A j \in Incarnations : Tale(j)'
    BY <1>1, <2>1, <2>2, <2>3 DEF Tale, Only
  <2>5. Domains'
    BY <1>1, <2>1, <2>2 DEF Domains, Only
  <2> QED BY <1>1, <1>2, <2>2, <2>4, <2>5
<1>4. ASSUME NEW i \in Incarnations, Serves(i) PROVE Story'
  <2> DEFINE c == client[i]
             w == wire[i]
             l == limbo[i]
  <2>1. PICK out : Outcome(accounts[w.account], w, out, boot) /\ Taken(w, out) /\ wire'[i] = out.reply
    BY <1>4 DEF Serves
  <2>2. /\ w.state = "request" /\ AsksFor(w, i, c) /\ DOMAIN wire' = Incarnations
        /\ (\A j \in Incarnations : j # i => wire'[j] = wire[j])
        /\ client' = client /\ limbo' = limbo /\ raced' = raced
    BY <1>4 DEF Serves
  <2>3. w.account \in Accounts /\ w.request.attempt[1] = i
    BY <1>1, <2>2 DEF Tale, Shape, CallShape, AsksFor
  <2>4. /\ \A a \in Accounts : Sane(accounts'[a])
        /\ \A j \in Incarnations : j # i => Tale(j)'
    BY <2>1, <2>2, <2>3, TakenStory
  <2>5. Shape(i, c, w, l, boot) /\ Pst(i, c, w, l, history)
    BY <1>1 DEF Tale
  <2>6. Recorded(history, w, out, history') /\ boot' = boot /\ out.reply.state = "reply"
    BY <2>1 DEF Taken, Outcome
  <2> HIDE DEF c, w, l
  <2>7. Pst(i, c, out.reply, l, history') /\ DecidesOnce(history')
    BY <1>1, <2>1, <2>2, <2>5, <2>6, PstServe
  <2>8. Shape(i, c, out.reply, l, boot)
    BY <2>2, <2>5, <2>6, ShapeWire
  <2>9. Tale(i)'
    BY <2>1, <2>2, <2>6, <2>7, <2>8 DEF Tale, c, l
  <2>10. Domains'
    BY <1>1, <2>1, <2>2 DEF Domains, Taken
  <2> QED BY <1>2, <2>4, <2>7, <2>9, <2>10
<1>5. ASSUME NEW i \in Incarnations, ServesLate(i) PROVE Story'
  <2> DEFINE c == client[i]
             w == wire[i]
             l == limbo[i]
  <2>1. PICK out : Outcome(accounts[l.account], l, out, boot) /\ Taken(l, out)
    BY <1>5 DEF ServesLate
  <2>2. /\ l.state = "request" /\ Late(l, i, c) /\ DOMAIN limbo' = Incarnations /\ limbo'[i] = Down
        /\ (\A j \in Incarnations : j # i => limbo'[j] = limbo[j])
        /\ client' = client /\ wire' = wire /\ DOMAIN raced' = Incarnations
    BY <1>5 DEF ServesLate
  <2>3. l.account \in Accounts /\ l.request.attempt[1] = i
    BY <2>2 DEF Late
  <2>4. /\ \A a \in Accounts : Sane(accounts'[a])
        /\ \A j \in Incarnations : j # i => Tale(j)'
    BY <2>1, <2>2, <2>3, TakenStory
  <2>5. Shape(i, c, w, l, boot) /\ Pst(i, c, w, l, history)
    BY <1>1 DEF Tale
  <2>6. Recorded(history, l, out, history') /\ boot' = boot
    BY <2>1 DEF Taken
  <2> HIDE DEF c, w, l
  <2>7. Pst(i, c, w, Down, history') /\ DecidesOnce(history')
    BY <1>1, <2>2, <2>5, <2>6, PstLate
  <2>8. Shape(i, c, w, Down, boot)
    BY <2>5, ShapeWire
  <2>9. Tale(i)'
    BY <2>2, <2>6, <2>7, <2>8 DEF Tale, c, w
  <2>10. Domains'
    BY <1>1, <2>1, <2>2 DEF Domains, Taken
  <2> QED BY <1>2, <2>4, <2>7, <2>9, <2>10
<1>6. ASSUME NEW i \in Incarnations, Breaks(i) PROVE Story'
  <2>1. Shape(i, client[i], Down, limbo[i], boot) /\ Pst(i, client[i], Down, limbo[i], history)
    BY <1>1, ShapeWire, PstWire DEF Tale
  <2>2. \A j \in Incarnations : Tale(j)'
    BY <1>1, <1>6, <2>1 DEF Tale, Breaks
  <2>3. Domains'
    BY <1>1, <1>6 DEF Domains, Breaks
  <2> QED BY <1>1, <1>2, <1>6, <2>2, <2>3 DEF Breaks
<1>7. ASSUME NEW i \in Incarnations, Kills(i) PROVE Story'
  <2>1. PICK d : Only(i, d, Down) /\ Restarted(client[i], d)
    BY <1>7 DEF Kills
  <2>2. Shape(i, d, Down, limbo'[i], boot) /\ Pst(i, d, Down, limbo'[i], history)
    BY <1>1, <1>7, <2>1, ShapeKill, PstKill DEF Tale, Kills
  <2>3. \A j \in Incarnations : Tale(j)'
    BY <1>1, <1>7, <2>1, <2>2 DEF Tale, Kills, Only
  <2>4. Domains'
    BY <1>1, <1>7, <2>1 DEF Domains, Kills, Only
  <2> QED BY <1>1, <1>2, <1>7, <2>3, <2>4 DEF Kills
<1>8. ASSUME Restarts PROVE Story'
  <2>1. ASSUME NEW j \in Incarnations PROVE Tale(j)'
    <3>1. Shape(j, client[j], Down, Down, boot') /\ Pst(j, client[j], Down, Down, history)
      BY <1>1, ShapeWire, PstWire DEF Tale
    <3> QED BY <1>8, <3>1 DEF Tale, Restarts
  <2>2. Domains'
    BY <1>1, <1>8 DEF Domains, Restarts
  <2>3. ASSUME NEW a \in Accounts PROVE Sane(accounts'[a])
    <3>1. CASE accounts'[a] = NoAccount
      BY <3>1 DEF Sane
    <3>2. CASE accounts[a] # NoAccount /\ accounts'[a] = forget_liveness(accounts[a])
      BY <1>1, <3>2, SaneForget DEF Sane
    <3> QED BY <1>8, <3>1, <3>2 DEF Restarts
  <2> QED BY <1>1, <1>2, <1>8, <2>1, <2>2, <2>3 DEF Restarts
<1>9. CASE Steady
  <2>1. \A j \in Incarnations : Tale(j)'
    BY <1>1, <1>9 DEF Tale, Steady
  <2>2. Domains'
    BY <1>1, <1>9 DEF Domains, Steady
  <2> QED BY <1>1, <1>2, <1>9, <2>1, <2>2 DEF Steady
<1> QED BY <1>1, <1>3, <1>4, <1>5, <1>6, <1>7, <1>8, <1>9, StepCases

\* The first invariant is an invariant.
LEMMA StoryInvariant == Spec => []Story
BY StoryInit, StoryStep, PTL DEF Spec

\* A call of submit decides at most one attempt for its operation, the
\* automatic reconciliation and the second try included.
THEOREM ClientSubmitDecidesOnce == Spec => []SubmitDecidesOnce
<1>1. Story => SubmitDecidesOnce
  BY DEF Story, DecidesOnce, SubmitDecidesOnce, Past
<1> QED BY <1>1, StoryInvariant, PTL

\* A call that ends with Ok has its attempt in the history of the engine.
THEOREM ClientOkIsDecided == Spec => []OkIsDecided
<1>1. Story => OkIsDecided
  BY DEF Story, Pst, Has, Of, OkIsDecided, Past, Idle
<1> QED BY <1>1, StoryInvariant, PTL

-----------------------------------------------------------------------------
(* The second invariant: as long as no era has ended since the client's    *)
(* last description, what the client knows of the era is right.            *)

\* An account's era.
Dated(a) == a = NoAccount \/ (a.epoch \in Nat \ {0} /\ a.generation \in Nat \ {0})

OfEra(x, a) == a # NoAccount /\ x.epoch = a.epoch /\ x.generation = a.generation

Erad(i, c, w, a, dis) ==
  /\ w.state = "reply" /\ c.call.step # "first" /\ needs_revalidation(w.reason) =>
       dis = TRUE \/ Misread(c.call.op, w.reason)
  /\ c.call.step = "none" /\ needs_revalidation(c.result) => dis = TRUE \/ Misread(c.call.op, c.result)
  /\ w.state = "reply" /\ c.call.step = "redescribe" /\ w.reason = "Ok" => dis = TRUE \/ OfEra(w, a)
  /\ w.state = "request" /\ c.call.step \in {"reconcile", "retry"} => dis = TRUE \/ OfEra(c, a)
  /\ w.state = "reply" /\ c.call.step = "reconcile" /\ w.reason = "Ok" =>
       dis = TRUE \/ (OfEra(w, a) /\ Stands(a, i))
  /\ w.state = "request" /\ c.call.step = "retry" => dis = TRUE \/ Stands(a, i)

\* The states of a wire are different, and so are the answers.
LEMMA States ==
  /\ "reply" # "request" /\ "idle" # "reply" /\ "idle" # "request" /\ "down" # "reply" /\ "down" # "request"
  /\ ~needs_revalidation("Ok") /\ ~needs_revalidation(lost) /\ ~needs_revalidation("none")
  /\ \A reason : Plain(reason) => ~needs_revalidation(reason) /\ ~Misplaced(reason)
BY DEF needs_revalidation, lost, Plain, Misplaced

\* A call goes on.
LEMMA EradOnward ==
  ASSUME NEW i, NEW c, NEW w, NEW a, NEW dis, Erad(i, c, w, a, dis), Dated(a), w.state = "reply",
         NEW d, NEW v, Onward(i, c, w, d, v)
  PROVE  Erad(i, d, v, a, dis)
<1>1. v.state = "request"
  BY OnwardAsks
<1>2. CASE d.call.step \notin {"reconcile", "retry"} /\ d.call.step # "none"
  BY <1>1, <1>2, States DEF Erad
<1>3. CASE /\ c.call.step = "redescribe" /\ At(c, d, "reconcile") /\ w.reason = "Ok"
           /\ d.epoch = Epoch(c, w) /\ d.generation = Generation(c, w)
  <2>1. d.call.step = "reconcile" /\ d.call.step # "none" /\ d.call.step # "retry"
    BY <1>3 DEF At
  <2>2. dis = TRUE \/ OfEra(w, a)
    BY <1>3 DEF Erad
  <2>3. OfEra(w, a) => OfEra(d, a)
    BY <1>3 DEF OfEra, Epoch, Generation, Dated
  <2> QED BY <1>1, <2>1, <2>2, <2>3, States DEF Erad
<1>4. CASE /\ c.call.step = "reconcile" /\ At(c, d, "retry") /\ w.reason = "Ok"
           /\ d.epoch = w.epoch /\ d.generation = w.generation
  <2>1. d.call.step = "retry" /\ d.call.step # "none"
    BY <1>4 DEF At
  <2>2. dis = TRUE \/ (OfEra(w, a) /\ Stands(a, i))
    BY <1>4 DEF Erad
  <2>3. OfEra(w, a) => OfEra(d, a)
    BY <1>4 DEF OfEra
  <2> QED BY <1>1, <2>1, <2>2, <2>3, States DEF Erad
<1>5. CASE At(c, d, "first") \/ At(c, d, "redescribe")
  BY <1>2, <1>5 DEF At
<1> QED BY <1>3, <1>4, <1>5 DEF Onward

\* Every other move of the client.
LEMMA EradMove ==
  ASSUME NEW i, NEW c, NEW w, NEW l, NEW a, NEW dis, Erad(i, c, w, a, dis),
         Dated(a) \/ c.call.step = "none", Shape(i, c, w, l, boot), NEW d, NEW v, ClientMove(i, c, w, d, v), NEW b,
         d.call.account = c.call.account => b = a
  PROVE  Erad(i, d, v, b, dis)
<1>0. w.state \in {"down", "idle", "request", "reply"}
  BY DEF Shape
<1>1. CASE w.state = "reply" /\ Onward(i, c, w, d, v)
  <2>1. d.call.account = c.call.account
    BY <1>1 DEF Onward, At
  <2>2. Dated(a)
    BY <1>1 DEF Shape
  <2> QED BY <1>1, <2>1, <2>2, EradOnward
<1>2. CASE w.state = "reply" /\ Over(c, w, d, v)
  <2>1. v.state = "idle" /\ d.call.step = "none" /\ d.result = w.reason /\ d.call.op = c.call.op
    BY <1>2 DEF Over, At, Quiet
  <2>2. needs_revalidation(w.reason) => dis = TRUE \/ Misread(c.call.op, w.reason)
    BY <1>2, States DEF Erad, Over
  <2> QED BY <2>1, <2>2, States DEF Erad
<1>3. CASE c.call.step = "none" /\ Connects(c, d, v)
  <2>1. {"call", "result"} \subseteq ClientFields \ {"connected", "challenge", "placed"}
    BY DEF ClientFields
  <2>2. v.state = "idle" /\ d.call = c.call /\ d.result = c.result
    BY <1>3, <2>1 DEF Connects, Kept, Quiet
  <2> QED BY <1>3, <2>2, States DEF Erad
<1>4. CASE w.state = "down" /\ c.call.step # "none" /\ Fails(c, d) /\ v = w
  <2>1. d.call.step = "none" /\ d.result = lost
    BY <1>4 DEF Fails, At
  <2> QED BY <1>4, <2>1, States DEF Erad
<1>5. ASSUME c.call.step = "none", NEW op \in Ops \cup {"Describe", "Reconcile"}, NEW k \in Accounts,
             NEW args \in Arguments(op), Submits(i, c, w, op, k, args, d, v)
      PROVE  Erad(i, d, v, b, dis)
  <2>1. CASE v = request_of(i, d) /\ d.call.step = first_step(c, op, k)
    <3>1. d.call.step \notin {"reconcile", "retry", "none"}
      BY <2>1 DEF first_step
    <3>2. v.state = "request"
      BY <2>1, AsRequest
    <3> QED BY <3>1, <3>2, States DEF Erad
  <2>2. CASE v = w /\ d.result = lost /\ d.call.step = "none"
    <3>1. w.state # "request" /\ w.state # "reply"
      BY <1>5 DEF Shape
    <3> QED BY <2>2, <3>1, States DEF Erad
  <2> QED BY <1>5, <2>1, <2>2 DEF Submits
<1> QED BY <1>1, <1>2, <1>3, <1>4, <1>5 DEF ClientMove

\* A client that is killed, or whose connection fails.
LEMMA EradDown ==
  ASSUME NEW i, NEW c, NEW w, NEW a, NEW dis, Erad(i, c, w, a, dis), NEW b, NEW d
  PROVE  /\ Erad(i, c, Down, b, dis)
         /\ Restarted(c, d) => Erad(i, d, Down, b, dis)
<1>1. Down.state = "down"
  BY DEF Down
<1> QED BY <1>1, States DEF Erad, Restarted

\* The engine serves the client's own request.
LEMMA EradServe ==
  ASSUME NEW i, NEW c, NEW w, NEW l, NEW a, NEW dis, Erad(i, c, w, a, dis), Shape(i, c, w, l, boot),
         w.state = "request", NEW out, Outcome(a, w, out, boot), NEW e,
         out.decided = FALSE /\ w.request.op # "Describe" => e = dis,
         DOMAIN NoAccount # AccountFields,
         out.decided = TRUE /\ w.request.op \notin EraEnds => e = dis
  PROVE  Erad(i, c, out.reply, out.account, e)
<1> DEFINE v == out.reply
<1>1. AsksFor(w, i, c) /\ c.call.step # "none" /\ CallShape(c) /\ c.challenge = boot
  <2>1. w.state # "down"
    OBVIOUS
  <2> QED BY <2>1 DEF Shape
<1>2. w.request.op = Op(c) /\ w.request.incarnation = i
  BY <1>1 DEF AsksFor
<1>3. v.state = "reply"
  BY DEF Outcome
<1>4. ASSUME c.call.step # "first", needs_revalidation(v.reason)
      PROVE  e = TRUE \/ Misread(c.call.op, v.reason)
  <2>1. TurnedDown(a, w, out, boot)
    BY <1>4, States DEF Outcome, ToldOf, DecidedSo
  <2>2. e = dis /\ w.request.op # "Describe"
    BY <1>4, <2>1 DEF TurnedDown
  <2>3. w.request.op # "Open"
    <3> SUFFICES ASSUME w.request.op = "Open" PROVE FALSE
      OBVIOUS
    <3>1. w.request.epoch = 1 /\ w.request.generation = 1 /\ verify(boot, w.request)
      <4>1. Op(c) = "Open" /\ Op(c) \in {"Open", "Reconcile"}
        BY <1>2
      <4> QED BY <1>1, <4>1 DEF AsksFor
    <3> QED BY <1>4, <2>1, <3>1 DEF TurnedDown
  <2>4. \/ w.request.op = "Reconcile" /\ ~verify(boot, w.request)
        \/ a # NoAccount /\ Unfit(a, w.request)
        \/ Misread(w.request.op, v.reason)
    BY <1>4, <2>1, <2>3 DEF TurnedDown
  <2>5. \/ c.call.step = "reconcile" /\ Op(c) = "Reconcile"
        \/ c.call.step = "retry" /\ Op(c) \in Tries /\ Op(c) = c.call.op
    <3>1. c.call.step \in Steps
      BY <1>1 DEF CallShape
    <3>2. /\ c.call.step = "only" => Op(c) \in {"Open", "Describe"}
          /\ c.call.step \in {"describe", "redescribe"} => Op(c) = "Describe"
          /\ c.call.step = "reconcile" => Op(c) = "Reconcile"
          /\ c.call.step \in {"first", "retry"} => Op(c) \in Tries /\ Op(c) = c.call.op
      BY <1>1, OpRequested
    <3> QED BY <1>2, <1>4, <2>2, <2>3, <3>1, <3>2 DEF Steps
  <2>6. verify(boot, w.request) \/ Op(c) # "Reconcile"
    <3>1. Op(c) = "Reconcile" => Op(c) \in {"Open", "Reconcile"}
      OBVIOUS
    <3> QED BY <1>1, <3>1 DEF AsksFor
  <2>7. Unfit(a, w.request) \/ Misread(c.call.op, v.reason)
    <3>1. Op(c) = "Reconcile" => ~Misread(w.request.op, v.reason)
      BY <1>2 DEF Misread
    <3> QED BY <1>2, <2>4, <2>5, <2>6, <3>1
  <2>8. ASSUME dis # TRUE, Unfit(a, w.request) PROVE FALSE
    <3>1. OfEra(c, a)
      <4>1. c.call.step \in {"reconcile", "retry"}
        BY <2>5
      <4> QED BY <2>8, <4>1 DEF Erad
    <3>2. w.request.epoch = a.epoch /\ w.request.generation = a.generation
      <4>1. Op(c) # "Open"
        BY <1>2, <2>3
      <4> QED BY <1>1, <3>1, <4>1 DEF AsksFor, OfEra
    <3>3. w.request.op # "Reconcile" /\ ~Stands(a, i)
      BY <1>2, <2>8, <3>2 DEF Unfit
    <3>4. c.call.step = "retry"
      BY <1>2, <2>5, <3>3
    <3> QED BY <2>8, <3>3, <3>4 DEF Erad
  <2> QED BY <2>2, <2>7, <2>8
<1>5. ASSUME c.call.step = "redescribe", v.reason = "Ok" PROVE OfEra(v, out.account)
  <2>1. Op(c) = "Describe"
    BY <1>1, <1>5, OpRequested
  <2>2. ToldOf(a, w, out)
    BY <1>2, <1>5, <2>1 DEF Outcome, TurnedDown, DecidedSo
  <2> QED BY <2>2 DEF ToldOf, OfEra
<1>6. ASSUME c.call.step = "reconcile", v.reason = "Ok", e # TRUE
      PROVE  OfEra(v, out.account) /\ Stands(out.account, i)
  <2>1. Op(c) = "Reconcile" /\ Op(c) # "Describe" /\ Op(c) \notin EraEnds /\ Op(c) # "Open"
    BY <1>1, <1>6, OpRequested DEF EraEnds
  <2>2. DecidedSo(a, w, out)
    BY <1>2, <1>6, <2>1 DEF Outcome, TurnedDown, ToldOf
  <2>3. /\ Turn(a, out.account, w.request) /\ w.request.epoch = a.epoch
        /\ w.request.generation = a.generation
        /\ v.epoch = w.request.epoch /\ v.generation = w.request.generation
    BY <1>2, <2>1, <2>2 DEF DecidedSo
  <2>4. /\ Shaped(out.account) /\ Stands(out.account, i)
        /\ out.account.epoch = a.epoch /\ out.account.generation = a.generation
    BY <1>2, <2>1, <2>3 DEF Turn
  <2>5. out.account # NoAccount
    BY <2>4 DEF Shaped
  <2> QED BY <2>3, <2>4, <2>5 DEF OfEra
<1> HIDE DEF v
<1>7. Erad(i, c, v, out.account, e)
  BY <1>1, <1>3, <1>4, <1>5, <1>6, States DEF Erad
<1> QED BY <1>7 DEF v

\* What an account keeps while its era lasts.
Lasts(a, b, i) ==
  a # NoAccount => /\ b # NoAccount /\ b.epoch = a.epoch /\ b.generation = a.generation
                   /\ Stands(a, i) => Stands(b, i)

\* Whatever is decided, the era lasts unless it is ended.
LEMMA EraLasts ==
  ASSUME NEW a, NEW m, NEW out, NEW nonce, Outcome(a, m, out, nonce), DOMAIN NoAccount # AccountFields,
         Dated(a), m.request.count \in Nat
  PROVE  /\ Dated(out.account)
         /\ \A i : (m.request.op \in EraEnds /\ out.decided = TRUE) \/ Lasts(a, out.account, i)
<1>1. CASE Same(a, out.account)
  <2>1. CASE out.account = a
    BY <2>1 DEF Lasts
  <2>2. CASE Shaped(a) /\ IsSeq(a.window) /\ SameMarks(a, out.account)
    <3>1. Shaped(out.account) /\ out.account.epoch = a.epoch /\ out.account.generation = a.generation
      BY <2>2 DEF SameMarks
    <3>2. a # NoAccount /\ out.account # NoAccount
      BY <2>2, <3>1 DEF Shaped
    <3>3. \A i : Stands(a, i) => Stands(out.account, i)
      BY <2>2, MarksStand
    <3> QED BY <2>2, <3>1, <3>2, <3>3 DEF Lasts, Dated
  <2> QED BY <1>1, <2>1, <2>2 DEF Same
<1>2. CASE DecidedSo(a, m, out)
  <2>1. CASE a = NoAccount /\ OpenTurn(out.account, m.request)
    BY <2>1, SMTT(30) DEF OpenTurn, Lasts, Dated
  <2>2. CASE a # NoAccount /\ Turn(a, out.account, m.request)
    <3>1. Shaped(out.account) /\ out.account # NoAccount
      BY <2>2 DEF Turn, Shaped
    <3>2. CASE m.request.op \in EraEnds
      <4>1. out.decided = TRUE
        BY <1>2 DEF DecidedSo
      <4>2. NextEra(a, out.account, m.request)
        BY <2>2, <3>2 DEF Turn
      <4>3. a.epoch \in Nat /\ a.generation \in Nat
        BY <2>2 DEF Dated
      <4>4. Dated(out.account)
        BY <4>2, <4>3, SMTT(30) DEF Dated, NextEra
      <4> QED BY <3>2, <4>1, <4>4
    <3>3. CASE m.request.op \notin EraEnds
      <4>1. /\ out.account.epoch = a.epoch /\ out.account.generation = a.generation
            /\ \A i : Stands(a, i) => Stands(out.account, i)
        BY <2>2, <3>3 DEF Turn
      <4> QED BY <2>2, <3>1, <4>1 DEF Lasts, Dated
    <3> QED BY <3>2, <3>3
  <2> QED BY <1>2, <2>1, <2>2 DEF DecidedSo
<1> QED BY <1>1, <1>2 DEF Outcome, TurnedDown, ToldOf, Same

\* The engine serves someone else, or the client's killed predecessor.
LEMMA EradOther ==
  ASSUME NEW i, NEW c, NEW w, NEW l, NEW a, NEW dis, Erad(i, c, w, a, dis), Shape(i, c, w, l, boot),
         NEW b, NEW e,
         \/ e = TRUE
         \/ w.state = "request" /\ w.request.op = "Describe"
         \/ e = dis /\ (c.call.step = "none" \/ Lasts(a, b, i))
  PROVE  Erad(i, c, w, b, e)
<1>1. CASE e = TRUE
  BY <1>1 DEF Erad
<1>2. CASE w.state = "request" /\ w.request.op = "Describe"
  <2>1. c.call.step # "none" /\ Op(c) = "Describe" /\ CallShape(c)
    BY <1>2 DEF Shape, AsksFor
  <2>2. /\ c.call.step = "reconcile" => Op(c) = "Reconcile"
        /\ c.call.step \in {"first", "retry"} => Op(c) \in Tries
    BY <2>1, OpRequested
  <2>3. c.call.step \notin {"reconcile", "retry"}
    BY <2>1, <2>2, OtherCalls
  <2> QED BY <1>2, <2>1, <2>3, States DEF Erad
<1>3. CASE e = dis /\ c.call.step = "none"
  <2>1. w.state # "reply" /\ w.state # "request"
    BY <1>3 DEF Shape
  <2> QED BY <1>3, <2>1 DEF Erad
<1>4. CASE e = dis /\ Lasts(a, b, i)
  <2>1. \A x : OfEra(x, a) => OfEra(x, b) /\ (Stands(a, i) => Stands(b, i))
    BY <1>4 DEF OfEra, Lasts
  <2>2. dis = TRUE \/ ~(w.state = "request" /\ c.call.step = "retry") \/ OfEra(c, a)
    <3>1. "retry" \in {"reconcile", "retry"}
      OBVIOUS
    <3> QED BY <3>1 DEF Erad
  <2> QED BY <1>4, <2>1, <2>2 DEF Erad
<1> QED BY <1>1, <1>2, <1>3, <1>4

Eras ==
  /\ Story /\ \A a \in Accounts : Dated(accounts[a])
  /\ \A i \in Incarnations :
       Erad(i, client[i], wire[i], accounts[client[i].call.account], disturbed[i])

\* A decision is made or it is not.
LEMMA Flip == FALSE # TRUE
OBVIOUS

\* Initially nobody has asked for anything.
LEMMA ErasInit == Init => Eras
<1> SUFFICES ASSUME Init PROVE Eras
  OBVIOUS
<1>1. \A a \in Accounts : Dated(accounts[a])
  BY DEF Init, Dated
<1>2. ASSUME NEW i \in Incarnations
      PROVE  Erad(i, client[i], wire[i], accounts[client[i].call.account], disturbed[i])
  <2>1. client[i].result = "none" /\ wire[i].state = "down"
    BY DEF Init, NewClient, Down
  <2> QED BY <2>1, States DEF Erad
<1> QED BY <1>1, <1>2, StoryInit DEF Eras

\* The engine takes a message m of client k: what client i knows stays right,
\* but for the client that is answered.
LEMMA ErasTaken ==
  ASSUME Eras, DOMAIN NoAccount # AccountFields,
         NEW m, m.account \in Accounts, NEW out, NEW nonce, Outcome(accounts[m.account], m, out, nonce),
         Taken(m, out), m.state = "request", m.request.count \in Nat
  PROVE  /\ \A a \in Accounts : Dated(accounts'[a])
         /\ \A i \in Incarnations :
              Erad(i, client[i], wire[i], accounts'[client[i].call.account], disturbed'[i])
<1>1. /\ Dated(out.account)
      /\ \A i : \/ m.request.op \in EraEnds /\ out.decided = TRUE
                \/ Lasts(accounts[m.account], out.account, i)
  BY EraLasts DEF Eras
<1>2. \A a \in Accounts : Dated(accounts'[a])
  BY <1>1 DEF Taken, Eras
<1>3. ASSUME NEW i \in Incarnations
      PROVE  Erad(i, client[i], wire[i], accounts'[client[i].call.account], disturbed'[i])
  <2> DEFINE c == client[i]
             w == wire[i]
             a == accounts[c.call.account]
             b == accounts'[c.call.account]
             dis == disturbed[i]
             e == disturbed'[i]
  <2>1. Erad(i, c, w, a, dis) /\ Shape(i, c, w, limbo[i], boot)
    BY DEF Eras, Story, Basis
  <2>2. \/ e = TRUE
        \/ w.state = "request" /\ w.request.op = "Describe"
        \/ e = dis /\ ~(m.request.op \in EraEnds /\ out.decided = TRUE)
    BY DEF Taken
  <2>3. c.call.step = "none" \/ c.call.account \in Accounts
    BY <2>1 DEF Shape, CallShape
  <2>4. ASSUME c.call.account \in Accounts, ~(m.request.op \in EraEnds /\ out.decided = TRUE)
        PROVE  Lasts(a, b, i)
    <3>1. CASE c.call.account = m.account
      BY <1>1, <2>4, <3>1 DEF Taken
    <3>2. CASE c.call.account # m.account
      BY <2>4, <3>2 DEF Taken, Lasts
    <3> QED BY <3>1, <3>2
  <2>5. \/ e = TRUE
        \/ w.state = "request" /\ w.request.op = "Describe"
        \/ e = dis /\ (c.call.step = "none" \/ Lasts(a, b, i))
    BY <2>2, <2>3, <2>4
  <2> HIDE DEF c, w, a, b, dis, e
  <2>6. Erad(i, c, w, b, e)
    BY <2>1, <2>5, EradOther
  <2> QED BY <2>6 DEF c, w, b, e
<1> QED BY <1>2, <1>3

\* Every step keeps what the clients know right.
LEMMA ErasStep ==
  ASSUME DOMAIN NoAccount # AccountFields
  PROVE  Eras /\ [Next]_vars => Eras'
<1> SUFFICES ASSUME Eras, [Next]_vars PROVE Eras'
  OBVIOUS
<1> DEFINE A(i) == accounts[client[i].call.account]
           K(i) == Erad(i, client[i], wire[i], A(i), disturbed[i])
<1>1. /\ Story /\ Basis /\ (\A a \in Accounts : Dated(accounts[a])) /\ (\A i \in Incarnations : K(i))
      /\ \A i \in Incarnations : Shape(i, client[i], wire[i], limbo[i], boot)
  BY DEF Eras, Story, Basis
<1>2. ASSUME \A a \in Accounts : Dated(accounts'[a]), \A i \in Incarnations : K(i)'
      PROVE  Eras'
  <2>1. Story'
    BY <1>1, StoryStep
  <2> QED BY <1>2, <2>1 DEF Eras
<1>3. ASSUME NEW i \in Incarnations, ClientMoves(i) PROVE Eras'
  <2>1. PICK d, v : Only(i, d, v) /\ ClientMove(i, client[i], wire[i], d, v)
    BY <1>3 DEF ClientMoves
  <2>2. accounts' = accounts /\ disturbed' = disturbed
    BY <1>3 DEF ClientMoves
  <2>3. Dated(A(i)) \/ client[i].call.step = "none"
    BY <1>1 DEF Shape, CallShape
  <2>4. Erad(i, d, v, accounts[d.call.account], disturbed[i])
    <3> DEFINE c == client[i]
               w == wire[i]
               a == accounts[c.call.account]
               b == accounts[d.call.account]
    <3>1. /\ Erad(i, c, w, a, disturbed[i]) /\ Shape(i, c, w, limbo[i], boot)
          /\ ClientMove(i, c, w, d, v) /\ (Dated(a) \/ c.call.step = "none")
          /\ d.call.account = c.call.account => b = a
      BY <1>1, <2>1, <2>3
    <3> HIDE DEF c, w, a, b
    <3>2. Erad(i, d, v, b, disturbed[i])
      BY <3>1, EradMove
    <3> QED BY <3>2 DEF b
  <2>5. \A j \in Incarnations : K(j)'
    BY <1>1, <2>1, <2>2, <2>4 DEF Only
  <2> QED BY <1>1, <1>2, <2>2, <2>5
<1>4. ASSUME NEW i \in Incarnations, Serves(i) PROVE Eras'
  <2> DEFINE c == client[i]
             w == wire[i]
  <2>1. PICK out : Outcome(accounts[w.account], w, out, boot) /\ Taken(w, out) /\ wire'[i] = out.reply
    BY <1>4 DEF Serves
  <2>2. /\ w.state = "request" /\ AsksFor(w, i, c)
        /\ (\A j \in Incarnations : j # i => wire'[j] = wire[j]) /\ client' = client
    BY <1>4 DEF Serves
  <2>3. w.account \in Accounts /\ w.account = c.call.account /\ w.request.count \in Nat
    <3>1. 0 \in Nat
      BY SMTT(30)
    <3> QED BY <1>1, <2>2, <3>1 DEF Shape, CallShape, AsksFor
  <2>4. /\ \A a \in Accounts : Dated(accounts'[a])
        /\ \A j \in Incarnations :
             Erad(j, client[j], wire[j], accounts'[client[j].call.account], disturbed'[j])
    BY <2>1, <2>2, <2>3, ErasTaken
  <2>5. /\ out.decided = FALSE /\ w.request.op # "Describe" => disturbed'[i] = disturbed[i]
        /\ out.decided = TRUE /\ w.request.op \notin EraEnds => disturbed'[i] = disturbed[i]
    <3>1. out.decided = TRUE => w.request.op # "Describe"
      BY <2>1, Flip DEF Outcome, TurnedDown, ToldOf, DecidedSo
    <3>2. out.decided = FALSE => out.decided # TRUE
      BY Flip
    <3> QED BY <2>1, <3>1, <3>2 DEF Taken
  <2>6. K(i) /\ Shape(i, c, w, limbo[i], boot)
    BY <1>1
  <2>7. Erad(i, c, w, accounts[w.account], disturbed[i])
    BY <2>3, <2>6
  <2> HIDE DEF c, w
  <2>8. Erad(i, c, out.reply, out.account, disturbed'[i])
    BY <2>1, <2>2, <2>5, <2>6, <2>7, EradServe
  <2>9. accounts'[c.call.account] = out.account
    BY <2>1, <2>3 DEF Taken
  <2>10. K(i)'
    BY <2>1, <2>2, <2>8, <2>9 DEF c
  <2>11. \A j \in Incarnations : K(j)'
    BY <2>2, <2>4, <2>10
  <2> QED BY <1>2, <2>4, <2>11
<1>5. ASSUME NEW i \in Incarnations, ServesLate(i) PROVE Eras'
  <2>1. PICK out : Outcome(accounts[limbo[i].account], limbo[i], out, boot) /\ Taken(limbo[i], out)
    BY <1>5 DEF ServesLate
  <2>2. /\ limbo[i].state = "request" /\ limbo[i].account \in Accounts /\ limbo[i].request.count \in Nat
        /\ client' = client /\ wire' = wire
    BY <1>5 DEF ServesLate, Late
  <2>3. /\ \A a \in Accounts : Dated(accounts'[a])
        /\ \A j \in Incarnations :
             Erad(j, client[j], wire[j], accounts'[client[j].call.account], disturbed'[j])
    BY <2>1, <2>2, ErasTaken
  <2> QED BY <1>2, <2>2, <2>3
<1>6. ASSUME NEW i \in Incarnations, Breaks(i) PROVE Eras'
  <2>1. Erad(i, client[i], Down, A(i), disturbed[i])
    BY <1>1, EradDown
  <2>2. \A j \in Incarnations : K(j)'
    BY <1>1, <1>6, <2>1 DEF Breaks
  <2> QED BY <1>1, <1>2, <1>6, <2>2 DEF Breaks
<1>7. ASSUME NEW i \in Incarnations, Kills(i) PROVE Eras'
  <2>1. PICK d : Only(i, d, Down) /\ Restarted(client[i], d)
    BY <1>7 DEF Kills
  <2>2. accounts' = accounts /\ disturbed' = disturbed
    BY <1>7 DEF Kills
  <2>3. Erad(i, d, Down, accounts[d.call.account], disturbed[i])
    BY <1>1, <2>1, EradDown
  <2>4. \A j \in Incarnations : K(j)'
    BY <1>1, <2>1, <2>2, <2>3 DEF Only
  <2> QED BY <1>1, <1>2, <2>2, <2>4
<1>8. ASSUME Restarts PROVE Eras'
  <2>1. ASSUME NEW j \in Incarnations PROVE K(j)'
    <3>1. Erad(j, client[j], Down, accounts'[client[j].call.account], disturbed[j])
      BY <1>1, EradDown
    <3> QED BY <1>8, <3>1 DEF Restarts
  <2>2. ASSUME NEW a \in Accounts PROVE Dated(accounts'[a])
    <3>1. CASE accounts'[a] = NoAccount
      BY <3>1 DEF Dated
    <3>2. CASE accounts[a] # NoAccount /\ accounts'[a] = forget_liveness(accounts[a])
      <4>1. Shaped(accounts[a])
        BY <1>1, <3>2 DEF Basis, Sane
      <4>2. accounts'[a].epoch = accounts[a].epoch /\ accounts'[a].generation = accounts[a].generation
        BY <3>2, <4>1, ForgetLiveness DEF Keeps
      <4> QED BY <1>1, <3>2, <4>2 DEF Dated
    <3> QED BY <1>8, <3>1, <3>2 DEF Restarts
  <2> QED BY <1>2, <2>1, <2>2
<1>9. CASE Steady
  <2>1. \A j \in Incarnations : K(j)'
    BY <1>1, <1>9 DEF Steady
  <2> QED BY <1>1, <1>2, <1>9, <2>1 DEF Steady
<1> QED BY <1>1, <1>3, <1>4, <1>5, <1>6, <1>7, <1>8, <1>9, StepCases

\* The second invariant is an invariant.
LEMMA ErasInvariant ==
  ASSUME DOMAIN NoAccount # AccountFields
  PROVE  Spec => []Eras
BY ErasInit, ErasStep, PTL DEF Spec

\* The one automatic reconciliation of submit is enough, whatever the operation
\* and its arguments: a call ends with a demand to revalidate only if the era
\* ended after its last description, or if what it was to retire is not known.
THEOREM ClientReconcilesOnce ==
  ASSUME DOMAIN NoAccount # AccountFields
  PROVE  Spec => []ReconcilesOnce
<1>1. Eras => ReconcilesOnce
  BY DEF Eras, Erad, ReconcilesOnce, Idle, Misread
<1> QED BY <1>1, ErasInvariant, PTL

-----------------------------------------------------------------------------
(* The third invariant: where the attempts of a client are placed.         *)

\* The account's watermark for incarnation i.
Watermark(a, i) == IF a = NoAccount THEN 0 ELSE record_of(a, i).last_sequence

\* It stays when the marks do.
LEMMA MarksWatermark ==
  ASSUME NEW a, NEW b, Same(a, b), DOMAIN NoAccount # AccountFields, NEW i
  PROVE  Watermark(b, i) = Watermark(a, i)
<1>1. CASE Shaped(a) /\ IsSeq(a.window) /\ SameMarks(a, b)
  <2>1. Shaped(b) /\ record_of(b, i).last_sequence = record_of(a, i).last_sequence
    BY <1>1, MarksStand DEF SameMarks
  <2>2. a # NoAccount /\ b # NoAccount
    BY <1>1, <2>1 DEF Shaped
  <2> QED BY <1>1, <2>1, <2>2 DEF Watermark
<1> QED BY <1>1 DEF Same

\* The window holds nothing beyond the watermarks, and only decided attempts.
Filed(a, h) ==
  a # NoAccount =>
    /\ \A i : record_of(a, i).last_sequence \in Nat
    /\ \A k \in DOMAIN a.window :
         /\ a.window[k].sequence \in Nat
         /\ a.window[k].sequence <= record_of(a, a.window[k].incarnation).last_sequence
         /\ \E n \in DOMAIN h : h[n].request.attempt = a.window[k].attempt

\* A reconciliation is the attempt of a step of that name.
Tagged(m) == m.request.op = "Reconcile" => m.request.attempt[3] = "reconcile"

Counted(c, w, l) ==
  /\ c.next_sequence \in Nat /\ (w.state = "reply" => w.sequence \in Nat)
  /\ l.state = "request" => l.request.sequence \in Nat /\ Tagged(l)

\* The call's reconciliation has not been decided.
Unreconciled(c, w) ==
  \/ c.call.step \in {"only", "describe", "first", "redescribe"}
  \/ c.call.step = "reconcile" /\ w.state = "request"

Fresh(i, c, w, h) ==
  Unreconciled(c, w) =>
    \A k \in DOMAIN h : Of(h[k], i, c.call.number) => h[k].request.op # "Reconcile"

\* The client knows its place.
Sure(c) == c.placed \/ c.call.step = "reconcile"

Placed(c, w, n) ==
  /\ c.next_sequence \in 1..(n + 1)
  /\ Sure(c) /\ w.state \in {"idle", "request"} => c.next_sequence = n + 1
  /\ c.call.step \in {"first", "retry"} => c.placed
  /\ w.state = "reply" =>
       /\ w.decided => w.sequence = n
       /\ ~w.decided /\ Sure(c) => c.next_sequence = n + 1
       /\ c.call.step \in {"describe", "redescribe"} /\ w.reason = "Ok" => w.sequence = n
       /\ ~Misplaced(w.reason)

\* The counter once a response is absorbed.
LEMMA CounterPlaced ==
  ASSUME NEW n \in Nat, NEW c, NEW w, Placed(c, w, n), w.state = "reply"
  PROVE  /\ Counter(c, w) \in 1..(n + 1)
         /\ Sure(c) => Counter(c, w) = n + 1
BY SMTT(30) DEF Placed, Counter

\* A call that goes on stays placed.
LEMMA PlacedOnward ==
  ASSUME NEW n \in Nat, NEW i, NEW c, NEW w, Placed(c, w, n), w.state = "reply",
         NEW d, NEW v, Onward(i, c, w, d, v)
  PROVE  Placed(d, v, n)
<1>1. v.state = "request" /\ v.state # "reply"
  BY OnwardAsks
<1>2. /\ Counter(c, w) \in 1..(n + 1)
      /\ Sure(c) => Counter(c, w) = n + 1
  BY CounterPlaced
<1> SUFFICES d.next_sequence = n + 1 /\ (d.call.step \in {"first", "retry"} => d.placed)
  BY <1>1, SMTT(30) DEF Placed
<1>3. CASE /\ c.call.step = "describe" /\ w.reason = "Ok" /\ d.placed = TRUE
           /\ d.next_sequence = IF w.sequence + 1 > Counter(c, w) THEN w.sequence + 1 ELSE Counter(c, w)
  <2>1. w.sequence = n
    BY <1>3 DEF Placed
  <2>2. d.next_sequence = n + 1
    BY <1>2, <1>3, <2>1, SMTT(30)
  <2> QED BY <1>3, <2>2
<1>4. CASE /\ c.call.step = "first" /\ At(c, d, "redescribe") /\ d.next_sequence = Counter(c, w)
  <2>1. Sure(c) /\ d.call.step = "redescribe"
    BY <1>4 DEF Placed, Sure, At
  <2> QED BY <1>2, <1>4, <2>1
<1>5. CASE /\ c.call.step = "redescribe" /\ At(c, d, "reconcile") /\ w.reason = "Ok"
           /\ d.next_sequence = w.sequence + 1
  <2>1. w.sequence = n /\ d.call.step = "reconcile"
    BY <1>5 DEF Placed, At
  <2> QED BY <1>5, <2>1
<1>6. CASE c.call.step = "reconcile" /\ d.placed = TRUE /\ d.next_sequence = Counter(c, w)
  <2>1. Sure(c)
    BY <1>6 DEF Sure
  <2> QED BY <1>2, <1>6, <2>1
<1> QED BY <1>3, <1>4, <1>5, <1>6 DEF Onward

\* Every other move of the client leaves it placed.
LEMMA PlacedMove ==
  ASSUME NEW n \in Nat, NEW i, NEW c, NEW w, NEW l, Placed(c, w, n), Shape(i, c, w, l, boot),
         NEW d, NEW v, ClientMove(i, c, w, d, v)
  PROVE  Placed(d, v, n)
<1>1. CASE w.state = "reply" /\ Onward(i, c, w, d, v)
  BY <1>1, PlacedOnward
<1>2. CASE w.state = "reply" /\ Over(c, w, d, v)
  <2>1. v.state = "idle" /\ d.call.step = "none" /\ d.next_sequence = Counter(c, w)
    BY <1>2 DEF Over, At, Quiet
  <2>2. /\ Counter(c, w) \in 1..(n + 1)
        /\ Sure(c) => Counter(c, w) = n + 1
    BY <1>2, CounterPlaced
  <2>3. Sure(d) => Sure(c)
    <3>1. d.placed => Sure(c)
      BY <1>2 DEF Over, Sure
    <3> QED BY <2>1, <3>1 DEF Sure
  <2> QED BY <2>1, <2>2, <2>3 DEF Placed
<1>3. CASE c.call.step = "none" /\ Connects(c, d, v)
  <2>1. {"call", "next_sequence"} \subseteq ClientFields \ {"connected", "challenge", "placed"}
    BY DEF ClientFields
  <2>2. v.state = "idle" /\ d.call = c.call /\ d.next_sequence = c.next_sequence /\ d.placed = FALSE
    BY <1>3, <2>1 DEF Connects, Kept, Quiet
  <2>3. ~Sure(d) /\ d.call.step = "none"
    BY <1>3, <2>2 DEF Sure
  <2> QED BY <2>2, <2>3 DEF Placed
<1>4. CASE w.state = "down" /\ c.call.step # "none" /\ Fails(c, d) /\ v = w
  <2>1. "next_sequence" \in ClientFields \ {"connected", "call", "result"}
    BY DEF ClientFields
  <2>2. d.call.step = "none" /\ d.next_sequence = c.next_sequence
    BY <1>4, <2>1 DEF Fails, At, Kept
  <2> QED BY <1>4, <2>2 DEF Placed
<1>5. ASSUME c.call.step = "none", NEW op \in Ops \cup {"Describe", "Reconcile"}, NEW k \in Accounts,
             NEW args \in Arguments(op), Submits(i, c, w, op, k, args, d, v)
      PROVE  Placed(d, v, n)
  <2>0. {"placed", "next_sequence"} \subseteq ClientFields \ {"connected", "call", "result"}
        /\ {"placed", "next_sequence"} \subseteq ClientFields \ {"call"}
    BY DEF ClientFields
  <2>1. d.placed = c.placed /\ d.next_sequence = c.next_sequence
    BY <1>5, <2>0 DEF Submits, Kept
  <2>2. w.state \in {"down", "idle"}
    BY <1>5 DEF Shape
  <2>3. CASE v = request_of(i, d) /\ d.call.step = first_step(c, op, k) /\ w.state # "down"
    <3>1. d.call.step \notin {"reconcile", "retry"} /\ (d.call.step = "first" => c.placed)
      BY <2>3 DEF first_step
    <3>2. v.state = "request"
      BY <2>3, AsRequest
    <3>3. Sure(d) => Sure(c)
      BY <2>1, <3>1 DEF Sure
    <3>4. Sure(c) => c.next_sequence = n + 1
      BY <2>2, <2>3 DEF Placed
    <3>5. d.call.step \in {"first", "retry"} => d.placed
      BY <2>1, <3>1
    <3>6. c.next_sequence \in 1..(n + 1)
      BY DEF Placed
    <3> QED BY <2>1, <3>2, <3>3, <3>4, <3>5, <3>6, States DEF Placed
  <2>4. CASE v = w /\ d.call.step = "none"
    <3>1. d.call.step \notin {"first", "retry"} /\ d.call.step # "reconcile" /\ v.state # "reply"
      BY <2>2, <2>4
    <3>2. Sure(d) => Sure(c)
      BY <2>1, <3>1 DEF Sure
    <3> QED BY <2>1, <2>4, <3>1, <3>2 DEF Placed
  <2> QED BY <1>5, <2>3, <2>4 DEF Submits
<1> QED BY <1>1, <1>2, <1>3, <1>4, <1>5 DEF ClientMove

\* A connection that fails, or a client that is killed.
LEMMA PlacedDown ==
  ASSUME NEW n \in Nat, NEW c, NEW w, NEW d
  PROVE  /\ Placed(c, w, n) => Placed(c, Down, n)
         /\ Restarted(c, d) => Placed(d, Down, n)
<1>1. Down.state = "down" /\ Down.state \notin {"idle", "request"} /\ Down.state # "reply"
  BY DEF Down
<1>2. ASSUME Restarted(c, d) PROVE Placed(d, Down, n)
  BY <1>1, <1>2, SMTT(30) DEF Restarted, Placed
<1> QED BY <1>1, <1>2 DEF Placed

\* The numbers of a client stay numbers.
LEMMA CountedMove ==
  ASSUME NEW i, NEW c, NEW w, NEW l, Counted(c, w, l), Shape(i, c, w, l, boot),
         NEW d, NEW v, ClientMove(i, c, w, d, v)
  PROVE  Counted(d, v, l)
<1>1. c.next_sequence \in Nat /\ (w.state = "reply" => w.sequence \in Nat)
  BY DEF Counted
<1>2. w.state = "reply" => Counter(c, w) \in Nat
  BY <1>1, SMTT(30) DEF Counter
<1> SUFFICES d.next_sequence \in Nat /\ v.state # "reply"
  BY DEF Counted
<1>3. CASE w.state = "reply" /\ Onward(i, c, w, d, v)
  <2>1. v.state = "request" /\ v.state # "reply"
    BY <1>3, OnwardAsks
  <2>2. d.next_sequence \in {Counter(c, w), w.sequence + 1}
    BY <1>3 DEF Onward
  <2> QED BY <1>1, <1>2, <1>3, <2>1, <2>2, SMTT(30)
<1>4. CASE w.state = "reply" /\ Over(c, w, d, v)
  BY <1>2, <1>4 DEF Over, Quiet
<1>5. CASE c.call.step = "none" /\ Connects(c, d, v)
  <2>1. "next_sequence" \in ClientFields \ {"connected", "challenge", "placed"}
    BY DEF ClientFields
  <2>2. d.next_sequence = c.next_sequence
    BY <1>5, <2>1 DEF Connects, Kept
  <2> QED BY <1>1, <1>5, <2>2 DEF Connects, Quiet
<1>6. CASE w.state = "down" /\ c.call.step # "none" /\ Fails(c, d) /\ v = w
  <2>1. "next_sequence" \in ClientFields \ {"connected", "call", "result"}
    BY DEF ClientFields
  <2>2. d.next_sequence = c.next_sequence
    BY <1>6, <2>1 DEF Fails, Kept
  <2> QED BY <1>1, <1>6, <2>2
<1>7. ASSUME c.call.step = "none", NEW op \in Ops \cup {"Describe", "Reconcile"}, NEW k \in Accounts,
             NEW args \in Arguments(op), Submits(i, c, w, op, k, args, d, v)
      PROVE  d.next_sequence \in Nat /\ v.state # "reply"
  <2>1. /\ "next_sequence" \in ClientFields \ {"connected", "call", "result"}
        /\ "next_sequence" \in ClientFields \ {"call"}
    BY DEF ClientFields
  <2>2. d.next_sequence = c.next_sequence
    BY <1>7, <2>1 DEF Submits, Kept
  <2>3. w.state # "reply"
    BY <1>7 DEF Shape
  <2>4. request_of(i, d).state # "reply"
    BY RequestOf DEF AsksFor
  <2> QED BY <1>1, <1>7, <2>2, <2>3, <2>4 DEF Submits
<1> QED BY <1>3, <1>4, <1>5, <1>6, <1>7 DEF ClientMove

\* A call reconciles once: what the client does on its own decides nothing.
LEMMA FreshMove ==
  ASSUME NEW i, NEW c, NEW w, NEW l, NEW h, Fresh(i, c, w, h), Pst(i, c, w, l, h), Shape(i, c, w, l, boot),
         NEW d, NEW v, ClientMove(i, c, w, d, v)
  PROVE  Fresh(i, d, v, h)
<1>1. CASE w.state = "reply" /\ Onward(i, c, w, d, v)
  <2>1. d.call.number = c.call.number
    BY <1>1 DEF Onward, At
  <2>2. CASE c.call.step = "reconcile" /\ At(c, d, "retry")
    <3>1. ~Unreconciled(d, v)
      BY <2>2 DEF Unreconciled, At
    <3> QED BY <3>1 DEF Fresh
  <2>3. CASE c.call.step \in {"describe", "first", "redescribe"}
    <3>1. Unreconciled(c, w)
      BY <2>3 DEF Unreconciled
    <3> QED BY <2>1, <3>1 DEF Fresh
  <2>4. \/ c.call.step = "reconcile" /\ At(c, d, "retry")
        \/ c.call.step \in {"describe", "first", "redescribe"}
    BY <1>1 DEF Onward
  <2> QED BY <2>2, <2>3, <2>4
<1>2. CASE d.call.step = "none"
  <2>1. ~Unreconciled(d, v)
    BY <1>2 DEF Unreconciled
  <2> QED BY <2>1 DEF Fresh
<1>3. ASSUME c.call.step = "none", NEW op \in Ops \cup {"Describe", "Reconcile"}, NEW a \in Accounts,
             NEW args \in Arguments(op), Submits(i, c, w, op, a, args, d, v)
      PROVE  Fresh(i, d, v, h)
  <2>1. c.call.number \in Nat /\ d.call.number = c.call.number + 1
    BY <1>3 DEF Shape, CallShape, Submits
  <2>2. \A k \in DOMAIN h : h[k].request.attempt[1] = i => h[k].request.attempt[2] \in 0..c.call.number
    BY DEF Pst
  <2>3. ASSUME NEW k \in DOMAIN h, h[k].request.attempt[1] = i
        PROVE  h[k].request.attempt[2] # d.call.number
    <3>1. h[k].request.attempt[2] \in 0..c.call.number
      BY <2>2, <2>3
    <3> QED BY <2>1, <3>1, SMTT(30)
  <2> QED BY <2>3 DEF Fresh, Of
<1>4. Over(c, w, d, v) => d.call.step = "none"
  BY DEF Over, At
<1>5. Fails(c, d) => d.call.step = "none"
  BY DEF Fails, At
<1>6. c.call.step = "none" /\ Connects(c, d, v) => d.call.step = "none"
  <2>1. "call" \in ClientFields \ {"connected", "challenge", "placed"}
    BY DEF ClientFields
  <2> QED BY <2>1 DEF Connects, Kept
<1> QED BY <1>1, <1>2, <1>3, <1>4, <1>5, <1>6 DEF ClientMove

\* What is filed after a decision.
LEMMA FiledOutcome ==
  ASSUME DOMAIN NoAccount # AccountFields,
         NEW a, NEW h, Filed(a, h), NEW m, m.request.sequence \in Nat,
         NEW out, NEW nonce, Outcome(a, m, out, nonce), NEW g, Recorded(h, m, out, g)
  PROVE  Filed(out.account, g)
<1> DEFINE b == out.account
<1>1. ASSUME NEW attempt, \E n \in DOMAIN h : h[n].request.attempt = attempt
      PROVE  \E n \in DOMAIN g : g[n].request.attempt = attempt
  <2>0. g = h \/ Longer(g, h, m)
    BY ExtendsKeeps DEF Recorded
  <2>1. DOMAIN h \subseteq DOMAIN g /\ \A k \in DOMAIN h : g[k] = h[k]
    BY <2>0 DEF Longer
  <2> QED BY <1>1, <2>1
<1>2. CASE Same(a, b)
  <2>1. Filed(a, g)
    BY <1>1 DEF Filed
  <2>2. CASE Shaped(a) /\ IsSeq(a.window) /\ SameMarks(a, b)
    <3>1. /\ b.window = a.window /\ a # NoAccount
          /\ \A i : record_of(b, i).last_sequence = record_of(a, i).last_sequence
      BY <2>2, MarksStand DEF SameMarks, Shaped
    <3> HIDE DEF b
    <3>2. Filed(b, g)
      BY <2>1, <2>2, <3>1 DEF Filed
    <3> QED BY <3>2 DEF b
  <2> QED BY <1>2, <2>1, <2>2 DEF Same
<1>3. CASE DecidedSo(a, m, out)
  <2>1. \E n \in DOMAIN g : g[n].request.attempt = m.request.attempt
    <3>1. Extends(g, h, m)
      BY <1>3, Flip DEF Recorded, DecidedSo
    <3>2. Longer(g, h, m)
      BY <3>1, ExtendsKeeps
    <3> QED BY <3>2 DEF Longer
  <2> DEFINE r == m.request
             who == m.request.incarnation
             seq == m.request.sequence
             at == m.request.attempt
  <2>2. seq \in Nat
    OBVIOUS
  <2> HIDE DEF b, who, seq, at
  <2>3. CASE OpenTurn(b, r)
    <3>1. /\ \A i : i # who => record_of(b, i).last_sequence = 0
          /\ record_of(b, who).last_sequence = 1 /\ seq = 1
      BY <2>3 DEF OpenTurn, who, seq
    <3>2. \A k \in DOMAIN b.window : /\ b.window[k].incarnation = who /\ b.window[k].sequence = seq
                                     /\ b.window[k].attempt = at
      <4>1. DOMAIN <<>> = {}
        BY SMTT(30)
      <4> QED BY <2>3, <4>1 DEF OpenTurn, Entered, who, seq, at
    <3>3. \A i : record_of(b, i).last_sequence \in Nat
      <4>1. 0 \in Nat /\ 1 \in Nat
        OBVIOUS
      <4> QED BY <3>1, <4>1
    <3>4. \A k \in DOMAIN b.window :
            /\ b.window[k].sequence \in Nat
            /\ b.window[k].sequence <= record_of(b, b.window[k].incarnation).last_sequence
      BY <3>1, <3>2, SMTT(30)
    <3>5. \A k \in DOMAIN b.window : \E n \in DOMAIN g : g[n].request.attempt = b.window[k].attempt
      BY <2>1, <3>2 DEF at
    <3>6. Filed(b, g)
      BY <3>3, <3>4, <3>5 DEF Filed
    <3> QED BY <3>6 DEF b
  <2>4. CASE a # NoAccount /\ Turn(a, b, r) /\ ~Astray(a, r)
    <3>1. /\ \A i : i # who => record_of(b, i).last_sequence = record_of(a, i).last_sequence
          /\ record_of(b, who).last_sequence = seq
      BY <2>4 DEF Turn, who, seq
    <3>2. \A i : record_of(a, i).last_sequence \in Nat
      BY <2>4 DEF Filed
    <3>3. \A i : record_of(b, i).last_sequence \in Nat
      BY <2>2, <3>1, <3>2
    <3>4. record_of(a, who).last_sequence <= seq
      <4>1. ~(seq <= record_of(a, who).last_sequence)
        BY <2>4 DEF Astray, who, seq
      <4>2. record_of(a, who).last_sequence \in Nat
        BY <3>2
      <4> QED BY <2>2, <4>1, <4>2, NotAbove
    <3>5. ASSUME NEW k \in DOMAIN b.window
          PROVE  /\ b.window[k].sequence \in Nat
                 /\ b.window[k].sequence <= record_of(b, b.window[k].incarnation).last_sequence
                 /\ \E n \in DOMAIN g : g[n].request.attempt = b.window[k].attempt
      <4>1. CASE /\ b.window[k].incarnation = who /\ b.window[k].sequence = seq
                 /\ b.window[k].attempt = at
        <5>1. \E n \in DOMAIN g : g[n].request.attempt = b.window[k].attempt
          BY <2>1, <4>1 DEF at
        <5>2. seq <= seq
          BY <2>2, Equal
        <5> QED BY <2>2, <3>1, <4>1, <5>1, <5>2
      <4>2. ASSUME NEW j \in DOMAIN a.window, b.window[k] = a.window[j]
            PROVE  /\ b.window[k].sequence \in Nat
                   /\ b.window[k].sequence <= record_of(b, b.window[k].incarnation).last_sequence
                   /\ \E n \in DOMAIN g : g[n].request.attempt = b.window[k].attempt
        <5> DEFINE x == a.window[j]
                   old == record_of(a, x.incarnation).last_sequence
                   new == record_of(b, x.incarnation).last_sequence
        <5>1. /\ x.sequence \in Nat /\ x.sequence <= old
              /\ \E n \in DOMAIN h : h[n].request.attempt = x.attempt
          BY <2>4 DEF Filed
        <5>2. \E n \in DOMAIN g : g[n].request.attempt = x.attempt
          BY <1>1, <5>1
        <5>3. old \in Nat /\ new \in Nat
          BY <3>2, <3>3
        <5>4. old <= new
          <6>1. CASE x.incarnation = who
            BY <3>1, <3>4, <6>1
          <6>2. CASE x.incarnation # who
            <7>1. old = new
              BY <3>1, <6>2
            <7> HIDE DEF old, new
            <7> QED BY <5>3, <7>1, Equal
          <6> QED BY <6>1, <6>2
        <5> HIDE DEF old, new, x
        <5>5. x.sequence <= new
          BY <5>1, <5>3, <5>4, Through
        <5> QED BY <4>2, <5>1, <5>2, <5>5 DEF new, x
      <4>3. Entered(a.window, b.window, r)
        BY <2>4 DEF Turn
      <4> QED BY <4>1, <4>2, <4>3 DEF Entered, who, seq, at
    <3>6. Filed(b, g)
      BY <3>3, <3>5 DEF Filed
    <3> QED BY <3>6 DEF b
  <2> QED BY <1>3, <2>3, <2>4 DEF DecidedSo, b
<1> QED BY <1>2, <1>3 DEF Outcome, TurnedDown, ToldOf, Same

\* The engine serves a message: a call's reconciliation that is still to come is.
LEMMA FreshTaken ==
  ASSUME NEW i, NEW c, NEW w, NEW v, NEW h, Fresh(i, c, w, h), NEW m, NEW out, NEW g,
         Recorded(h, m, out, g), Unreconciled(c, v) => Unreconciled(c, w),
         Of(m, i, c.call.number) /\ Unreconciled(c, v) => m.request.op # "Reconcile"
  PROVE  Fresh(i, c, v, g)
<1> SUFFICES ASSUME Unreconciled(c, v), NEW k \in DOMAIN g, Of(g[k], i, c.call.number)
             PROVE  g[k].request.op # "Reconcile"
  BY DEF Fresh
<1>1. \A n \in DOMAIN h : Of(h[n], i, c.call.number) => h[n].request.op # "Reconcile"
  BY DEF Fresh
<1>2. CASE g = h
  BY <1>1, <1>2
<1>3. CASE Extends(g, h, m)
  <2>1. Longer(g, h, m)
    BY <1>3, ExtendsKeeps
  <2> QED BY <1>1, <2>1 DEF Longer
<1> QED BY <1>2, <1>3 DEF Recorded

\* The attempt that a client has on the wire is new.
LEMMA NewAttempt ==
  ASSUME NEW i, NEW c, NEW w, NEW l, NEW h, Shape(i, c, w, l, boot), Pst(i, c, w, l, h),
         Fresh(i, c, w, h), \A k \in DOMAIN h : Tagged(h[k]), w.state = "request",
         w.request.op \notin {"Open", "Describe"}, NEW k \in DOMAIN h
  PROVE  h[k].request.attempt # w.request.attempt
<1> SUFFICES ASSUME h[k].request.attempt = w.request.attempt PROVE FALSE
  OBVIOUS
<1>1. AsksFor(w, i, c) /\ c.call.step # "none" /\ CallShape(c)
  BY DEF Shape
<1>2. /\ w.request.attempt[1] = i /\ w.request.attempt[2] = c.call.number
      /\ w.request.attempt[3] = c.call.step /\ w.request.op = Op(c)
  BY <1>1 DEF AsksFor
<1>3. Of(h[k], i, c.call.number) /\ h[k].request.attempt[3] = c.call.step
  BY <1>2 DEF Of
<1>4. h[k].request.op = "Reconcile"
  BY <1>3 DEF Pst, Expecting, OnlyReconciled
<1>5. c.call.step = "reconcile"
  BY <1>3, <1>4 DEF Tagged
<1>6. Unreconciled(c, w)
  BY <1>5 DEF Unreconciled
<1> QED BY <1>3, <1>4, <1>6 DEF Fresh

\* The request on the wire has a number, and says what it is.
LEMMA RequestCounted ==
  ASSUME NEW i, NEW c, NEW w, NEW l, NEW b, Shape(i, c, w, l, b), Counted(c, w, l), w.state = "request"
  PROVE  w.request.sequence \in Nat /\ Tagged(w)
<1>1. AsksFor(w, i, c) /\ c.call.step # "none" /\ CallShape(c)
  BY DEF Shape
<1>2. /\ w.request.op = Op(c) /\ w.request.attempt[3] = c.call.step
      /\ w.request.op = "Open" => w.request.sequence = 1
      /\ w.request.op # "Open" => w.request.sequence = c.next_sequence
  BY <1>1 DEF AsksFor
<1>3. /\ c.call.step = "only" => Op(c) \in {"Open", "Describe"}
      /\ c.call.step \in {"describe", "redescribe"} => Op(c) = "Describe"
      /\ c.call.step \in {"first", "retry"} => Op(c) \in Tries
  BY <1>1, OpRequested
<1>4. w.request.sequence \in Nat
  <2>1. c.next_sequence \in Nat
    BY DEF Counted
  <2> QED BY <1>2, <2>1, SMTT(30)
<1>5. c.call.step \in Steps
  BY <1>1 DEF CallShape
<1>6. Tagged(w)
  BY <1>2, <1>3, <1>5, OtherCalls DEF Tagged, Steps
<1> QED BY <1>4, <1>6

\* The reply to a client's own request keeps the client placed, and its numbers numbers.
LEMMA PlacedServe ==
  ASSUME NEW i, NEW c, NEW w, NEW l, NEW h, Shape(i, c, w, l, boot), Pst(i, c, w, l, h),
         Fresh(i, c, w, h), \A k \in DOMAIN h : Tagged(h[k]), Counted(c, w, l), w.state = "request",
         NEW a, Filed(a, h), NEW out, Outcome(a, w, out, boot), DOMAIN NoAccount # AccountFields
  PROVE  /\ w.request.sequence \in Nat /\ Tagged(w) /\ Counted(c, out.reply, l)
         /\ Placed(c, w, Watermark(a, i)) => Placed(c, out.reply, Watermark(out.account, i))
<1> DEFINE r == w.request
           v == out.reply
           n == Watermark(a, i)
           q == Watermark(out.account, i)
<1>1. AsksFor(w, i, c) /\ c.call.step # "none" /\ CallShape(c)
  BY DEF Shape
<1>2. /\ r.op = Op(c) /\ r.incarnation = i /\ r.attempt[3] = c.call.step
      /\ r.op = "Open" => r.sequence = 1
      /\ r.op # "Open" => r.sequence = c.next_sequence
  BY <1>1 DEF AsksFor
<1>3. /\ Op(c) \in Requested
      /\ c.call.step = "only" => Op(c) \in {"Open", "Describe"}
      /\ c.call.step \in {"describe", "redescribe"} => Op(c) = "Describe"
      /\ c.call.step = "reconcile" => Op(c) = "Reconcile"
      /\ c.call.step \in {"first", "retry"} => Op(c) \in Tries
  BY <1>1, OpRequested
<1>4. r.sequence \in Nat /\ Tagged(w)
  BY RequestCounted
<1>5. c.call.step \in Steps
  BY <1>1 DEF CallShape
<1>7. a # NoAccount => record_of(a, i).last_sequence \in Nat
  BY DEF Filed
<1>8. n \in Nat
  BY <1>7 DEF Watermark
<1>9. v.state = "reply" /\ v.state # "idle" /\ v.state # "request"
  BY DEF Outcome
<1>10. v.sequence \in Nat
  <2>1. CASE ToldOf(a, w, out)
    BY <1>2, <1>7, <2>1 DEF ToldOf
  <2> QED BY <1>4, <2>1 DEF Outcome, TurnedDown, DecidedSo
<1>11. Counted(c, v, l)
  BY <1>10 DEF Counted
<1>12. ASSUME Placed(c, w, n) PROVE Placed(c, v, q)
  <2>1. c.next_sequence \in 1..(n + 1) /\ (c.call.step \in {"first", "retry"} => c.placed)
    BY <1>12 DEF Placed
  <2>2. Sure(c) => c.next_sequence = n + 1
    BY <1>12 DEF Placed
  <2>3. r.op \notin {"Open", "Describe"} => Sure(c)
    <3>1. r.op \notin {"Open", "Describe"} => c.call.step \in {"first", "retry", "reconcile"}
      BY <1>2, <1>3, <1>5 DEF Steps
    <3> QED BY <2>1, <3>1 DEF Sure
  <2>4. r.op \notin {"Open", "Describe"} /\ a # NoAccount => ~Astray(a, r)
    <3> SUFFICES ASSUME r.op \notin {"Open", "Describe"}, a # NoAccount PROVE ~Astray(a, r)
      OBVIOUS
    <3>1. r.sequence = n + 1 /\ n = record_of(a, i).last_sequence
      BY <1>2, <2>2, <2>3 DEF Watermark
    <3>2. ASSUME NEW k \in DOMAIN a.window, a.window[k].incarnation = i, a.window[k].sequence = r.sequence
          PROVE  FALSE
      <4>1. a.window[k].sequence <= record_of(a, i).last_sequence
        BY <3>2 DEF Filed
      <4>2. n \in Nat /\ r.sequence = n + 1 /\ r.sequence <= n
        BY <1>8, <3>1, <3>2, <4>1
      <4> HIDE DEF n
      <4> QED BY <4>2, Follows
    <3>3. ~in_window(a.window, r.incarnation, r.sequence)
      BY <1>2, <3>2 DEF in_window
    <3>4. ASSUME NEW k \in DOMAIN a.window, a.window[k].attempt = r.attempt
          PROVE  FALSE
      <4>1. PICK j \in DOMAIN h : h[j].request.attempt = a.window[k].attempt
        BY <3>4 DEF Filed
      <4>2. h[j].request.attempt # w.request.attempt
        BY NewAttempt
      <4> QED BY <3>4, <4>1, <4>2
    <3>5. ~attempt_in_window(a.window, r.attempt)
      BY <3>4 DEF attempt_in_window
    <3>6. ~(r.sequence <= record_of(a, i).last_sequence) /\ ~(r.sequence > record_of(a, i).last_sequence + 1)
      <4>1. record_of(a, i).last_sequence \in Nat /\ r.sequence = record_of(a, i).last_sequence + 1
        BY <1>8, <3>1
      <4> QED BY <4>1, Follows
    <3> QED BY <1>2, <3>3, <3>5, <3>6 DEF Astray
  <2> HIDE DEF r, v, n
  <2>5. CASE TurnedDown(a, w, out, boot)
    <3>1. q = n
      BY <2>5, MarksWatermark DEF TurnedDown, n
    <3>2. ~v.decided /\ v.reason # "Ok"
      BY <2>4, <2>5 DEF TurnedDown, v, r
    <3>3. ~Misplaced(v.reason)
      BY <1>2, <2>4, <2>5 DEF TurnedDown, v, r
    <3> HIDE DEF q
    <3> QED BY <1>9, <2>1, <2>2, <3>1, <3>2, <3>3 DEF Placed
  <2>6. CASE ToldOf(a, w, out)
    <3>1. q = n
      BY <2>6 DEF ToldOf, n
    <3>2. v.decided = FALSE /\ v.reason = "Ok" /\ v.sequence = record_of(a, i).last_sequence /\ a # NoAccount
      BY <1>2, <2>6 DEF ToldOf, v, r
    <3>3. v.sequence = n /\ ~v.decided
      BY <3>2 DEF n, Watermark
    <3>4. ~Misplaced(v.reason)
      BY <3>2 DEF Misplaced
    <3> HIDE DEF q
    <3> QED BY <1>9, <2>1, <2>2, <3>1, <3>3, <3>4 DEF Placed
  <2>7. CASE DecidedSo(a, w, out)
    <3>1. /\ v.decided /\ Plain(v.reason) /\ r.op # "Describe" /\ v.sequence = r.sequence
      BY <2>7 DEF DecidedSo, v, r
    <3>2. ~Misplaced(v.reason) /\ c.call.step \notin {"describe", "redescribe"}
      BY <1>2, <1>3, <3>1 DEF Plain, Misplaced
    <3>3. q = r.sequence /\ c.next_sequence \in 1..(q + 1)
      <4>1. CASE r.op = "Open" /\ a = NoAccount /\ OpenTurn(out.account, r)
        <5>1. out.account # NoAccount
          BY <4>1 DEF OpenTurn, Shaped
        <5>2. q = 1 /\ r.sequence = 1
          BY <1>2, <4>1, <5>1 DEF OpenTurn, Watermark
        <5>3. n = 0
          BY <4>1 DEF n, Watermark
        <5>4. c.next_sequence \in 1..(0 + 1)
          BY <2>1, <5>3
        <5>5. c.next_sequence \in 1..(1 + 1)
          BY <5>4, AtMostTwo
        <5> HIDE DEF q
        <5> QED BY <5>2, <5>5
      <4>2. CASE r.op # "Open" /\ a # NoAccount /\ Turn(a, out.account, r)
        <5>1. out.account # NoAccount
          BY <4>2 DEF Turn, Shaped
        <5>2. q = r.sequence
          BY <1>2, <4>2, <5>1 DEF Turn, Watermark
        <5>3. r.sequence = n + 1 /\ c.next_sequence = n + 1
          BY <1>2, <2>2, <2>3, <3>1, <4>2
        <5> HIDE DEF q
        <5>4. c.next_sequence \in 1..(c.next_sequence + 1)
          BY <1>8, <5>3, Follows
        <5> QED BY <5>2, <5>3, <5>4
      <4> QED BY <2>7, <4>1, <4>2 DEF DecidedSo, r
    <3> HIDE DEF q
    <3> QED BY <1>9, <2>1, <3>1, <3>2, <3>3 DEF Placed
  <2> QED BY <2>5, <2>6, <2>7 DEF Outcome
<1> QED BY <1>4, <1>11, <1>12

\* From a to b the watermark of i stays.
Unmoved(a, b, i) == Watermark(b, i) = Watermark(a, i)

\* Nobody else's watermark moves.
LEMMA WatermarkOther ==
  ASSUME NEW a, NEW m, NEW out, NEW nonce, Outcome(a, m, out, nonce), DOMAIN NoAccount # AccountFields,
         NEW i, m.request.incarnation # i
  PROVE  Unmoved(a, out.account, i)
<1> USE DEF Unmoved
<1>1. CASE Same(a, out.account)
  BY <1>1, MarksWatermark
<1>2. CASE DecidedSo(a, m, out)
  <2>1. CASE a = NoAccount /\ OpenTurn(out.account, m.request)
    BY <2>1 DEF OpenTurn, Watermark
  <2>2. CASE a # NoAccount /\ Turn(a, out.account, m.request)
    <3>1. out.account # NoAccount
      BY <2>2 DEF Turn, Shaped
    <3> QED BY <2>2, <3>1 DEF Turn, Watermark
  <2> QED BY <1>2, <2>1, <2>2 DEF DecidedSo
<1> QED BY <1>1, <1>2 DEF Outcome, TurnedDown, ToldOf, Same

\* What is known of the place of client i.
Seat(i) ==
  /\ Counted(client[i], wire[i], limbo[i])
  /\ Fresh(i, client[i], wire[i], history)
  /\ raced[i] = TRUE \/ \A a \in Accounts : Placed(client[i], wire[i], Watermark(accounts[a], i))

Places ==
  /\ Story
  /\ \A a \in Accounts : Filed(accounts[a], history)
  /\ \A k \in DOMAIN history : Tagged(history[k])
  /\ \A i \in Incarnations : Seat(i)

\* Initially nothing is placed.
LEMMA PlacesInit == Init => Places
<1> SUFFICES ASSUME Init PROVE Places
  OBVIOUS
<1>1. \A a \in Accounts : accounts[a] = NoAccount
  BY DEF Init
<1>2. DOMAIN history = {}
  BY SMTT(30) DEF Init
<1>3. ASSUME NEW i \in Incarnations PROVE Seat(i)
  <2> DEFINE c == client[i]
             q == [NoCall EXCEPT !.number = 0]
  <2>1. c = NewClient(0) /\ wire[i] = Down /\ limbo[i] = Down
    BY DEF Init
  <2>2. q.step = "none"
    BY DEF NoCall
  <2>3. c = [connected |-> FALSE, challenge |-> 0, next_sequence |-> 1, placed |-> FALSE,
             account |-> Unset, epoch |-> 0, generation |-> 0, call |-> q, result |-> "none"]
    BY <2>1 DEF NewClient
  <2> HIDE DEF c, q
  <2>4. c.next_sequence = 1 /\ c.call = q
    BY <2>3
  <2>5. Down.state \notin {"idle", "request"} /\ Down.state # "reply" /\ Down.state # "request"
    BY DEF Down
  <2>6. Counted(c, Down, Down)
    BY <2>4, <2>5, SMTT(30) DEF Counted
  <2>7. Fresh(i, c, Down, history)
    BY <1>2 DEF Fresh
  <2>8. \A a \in Accounts : Watermark(accounts[a], i) = 0
    BY <1>1 DEF Watermark
  <2>9. Placed(c, Down, 0)
    BY <2>2, <2>4, <2>5, SMTT(30) DEF Placed
  <2> QED BY <2>1, <2>6, <2>7, <2>8, <2>9 DEF Seat, c
<1> QED BY <1>1, <1>2, <1>3, StoryInit DEF Places, Filed

\* The engine takes a message of client k: the accounts, the history and the places of the others.
LEMMA PlacesTaken ==
  ASSUME Places, DOMAIN NoAccount # AccountFields, NEW k \in Incarnations,
         NEW m, m.account \in Accounts, m.request.incarnation = k, m.request.attempt[1] = k,
         m.request.sequence \in Nat, Tagged(m),
         NEW out, NEW nonce, Outcome(accounts[m.account], m, out, nonce), Taken(m, out),
         client' = client,
         \A j \in Incarnations : j # k => wire'[j] = wire[j] /\ limbo'[j] = limbo[j] /\ raced'[j] = raced[j]
  PROVE  /\ \A a \in Accounts : Filed(accounts'[a], history')
         /\ \A n \in DOMAIN history' : Tagged(history'[n])
         /\ \A j \in Incarnations : j # k => Seat(j)'
<1>1. Recorded(history, m, out, history') /\ accounts'[m.account] = out.account
  BY DEF Taken
<1>2. ASSUME NEW a \in Accounts PROVE Filed(accounts'[a], history')
  <2>1. CASE a = m.account
    <3>1. Filed(accounts[m.account], history)
      BY DEF Places
    <3>2. Filed(out.account, history')
      BY <1>1, <3>1, FiledOutcome
    <3> QED BY <1>1, <2>1, <3>2
  <2>2. CASE a # m.account
    <3>1. accounts'[a] = accounts[a] /\ Filed(accounts[a], history)
      BY <2>2 DEF Taken, Places
    <3>2. CASE history' = history
      BY <3>1, <3>2
    <3>3. CASE Extends(history', history, m)
      <4>0. Longer(history', history, m)
        BY <3>3, ExtendsKeeps
      <4>1. DOMAIN history \subseteq DOMAIN history' /\ \A n \in DOMAIN history : history'[n] = history[n]
        BY <4>0 DEF Longer
      <4>2. Filed(accounts[a], history')
        BY <3>1, <4>1 DEF Filed
      <4> QED BY <3>1, <4>2
    <3> QED BY <1>1, <3>2, <3>3 DEF Recorded
  <2> QED BY <2>1, <2>2
<1>3. ASSUME NEW n \in DOMAIN history' PROVE Tagged(history'[n])
  <2>1. \A j \in DOMAIN history : Tagged(history[j])
    BY DEF Places
  <2>2. CASE history' = history
    BY <1>3, <2>1, <2>2
  <2>3. CASE Extends(history', history, m)
    <3>1. Longer(history', history, m)
      BY <2>3, ExtendsKeeps
    <3> QED BY <1>3, <2>1, <3>1 DEF Longer
  <2> QED BY <1>1, <2>2, <2>3 DEF Recorded
<1>4. ASSUME NEW j \in Incarnations, j # k PROVE Seat(j)'
  <2>1. Seat(j) /\ client'[j] = client[j] /\ wire'[j] = wire[j] /\ limbo'[j] = limbo[j]
        /\ raced'[j] = raced[j]
    BY <1>4 DEF Places
  <2>2. Counted(client'[j], wire'[j], limbo'[j])
    BY <2>1 DEF Seat
  <2>3. ~Of(m, j, client[j].call.number)
    BY <1>4 DEF Of
  <2>4. Fresh(j, client[j], wire[j], history')
    BY <1>1, <2>1, <2>3, FreshTaken DEF Seat
  <2>5. ASSUME NEW a \in Accounts PROVE Watermark(accounts'[a], j) = Watermark(accounts[a], j)
    <3>1. CASE a = m.account
      <4>1. m.request.incarnation # j
        BY <1>4
      <4>2. Unmoved(accounts[m.account], out.account, j)
        BY <4>1, WatermarkOther
      <4>3. Watermark(out.account, j) = Watermark(accounts[m.account], j)
        BY <4>2 DEF Unmoved
      <4> QED BY <1>1, <3>1, <4>3
    <3>2. CASE a # m.account
      BY <3>2 DEF Taken
    <3> QED BY <3>1, <3>2
  <2>6. raced'[j] = TRUE \/ \A a \in Accounts : Placed(client'[j], wire'[j], Watermark(accounts'[a], j))
    BY <2>1, <2>5 DEF Seat
  <2>7. Fresh(j, client'[j], wire'[j], history')
    BY <2>1, <2>4
  <2> QED BY <2>2, <2>6, <2>7 DEF Seat
<1> QED BY <1>2, <1>3, <1>4

\* The accounts of a next boot, and their places, are those of the last one.
LEMMA FiledForget ==
  ASSUME NEW a, Shaped(a), NEW h, Filed(a, h), a # NoAccount, DOMAIN NoAccount # AccountFields, NEW i
  PROVE  Filed(forget_liveness(a), h) /\ Watermark(forget_liveness(a), i) = Watermark(a, i)
<1> DEFINE b == forget_liveness(a)
<1>1. Keeps(a, b) /\ b.window = a.window
  BY ForgetLiveness
<1> HIDE DEF b
<1>2. \A j : record_of(b, j).last_sequence = record_of(a, j).last_sequence
  BY <1>1 DEF Keeps, RecordKept
<1>3. b # NoAccount
  BY <1>1 DEF Keeps, Shaped
<1>4. Filed(b, h)
  BY <1>1, <1>2 DEF Filed
<1>5. Watermark(b, i) = Watermark(a, i)
  BY <1>2, <1>3 DEF Watermark
<1> QED BY <1>4, <1>5 DEF b

\* Every account has a watermark for everyone.
LEMMA WatermarkNumber ==
  ASSUME NEW a, NEW h, Filed(a, h), NEW i
  PROVE  Watermark(a, i) \in Nat
<1>1. a # NoAccount => record_of(a, i).last_sequence \in Nat
  BY DEF Filed
<1> QED BY <1>1 DEF Watermark

\* Every step keeps the places, when there is one account.
LEMMA PlacesStep ==
  ASSUME DOMAIN NoAccount # AccountFields, \A a, b \in Accounts : a = b
  PROVE  Places /\ [Next]_vars => Places'
<1> SUFFICES ASSUME Places, [Next]_vars PROVE Places'
  OBVIOUS
<1>1. /\ Story /\ Basis /\ (\A a \in Accounts : Filed(accounts[a], history))
      /\ (\A k \in DOMAIN history : Tagged(history[k])) /\ (\A i \in Incarnations : Seat(i))
      /\ \A i \in Incarnations : /\ Shape(i, client[i], wire[i], limbo[i], boot)
                                 /\ Pst(i, client[i], wire[i], limbo[i], history)
  BY DEF Places, Story, Basis
<1>2. ASSUME \A a \in Accounts : Filed(accounts'[a], history'),
             \A k \in DOMAIN history' : Tagged(history'[k]), \A i \in Incarnations : Seat(i)'
      PROVE  Places'
  <2>1. Story'
    BY <1>1, StoryStep
  <2> QED BY <1>2, <2>1 DEF Places
<1>3. ASSUME NEW a \in Accounts, NEW i \in Incarnations PROVE Watermark(accounts[a], i) \in Nat
  BY <1>1, WatermarkNumber
<1>4. ASSUME NEW i \in Incarnations, ClientMoves(i) PROVE Places'
  <2>1. PICK d, v : Only(i, d, v) /\ ClientMove(i, client[i], wire[i], d, v)
    BY <1>4 DEF ClientMoves
  <2>2. accounts' = accounts /\ history' = history /\ limbo' = limbo /\ raced' = raced
    BY <1>4 DEF ClientMoves
  <2> DEFINE c == client[i]
             w == wire[i]
             l == limbo[i]
  <2>3. /\ Shape(i, c, w, l, boot) /\ Pst(i, c, w, l, history) /\ Counted(c, w, l)
        /\ Fresh(i, c, w, history) /\ ClientMove(i, c, w, d, v)
        /\ raced[i] = TRUE \/ \A a \in Accounts : Placed(c, w, Watermark(accounts[a], i))
    BY <1>1, <2>1 DEF Seat
  <2> HIDE DEF c, w, l
  <2>4. Counted(d, v, l) /\ Fresh(i, d, v, history)
    BY <2>3, CountedMove, FreshMove
  <2>5. ASSUME NEW a \in Accounts, Placed(c, w, Watermark(accounts[a], i))
        PROVE  Placed(d, v, Watermark(accounts[a], i))
    <3> DEFINE n == Watermark(accounts[a], i)
    <3>1. n \in Nat /\ Placed(c, w, n)
      BY <1>3, <2>5
    <3> HIDE DEF n
    <3>2. Placed(d, v, n)
      BY <2>3, <3>1, PlacedMove
    <3> QED BY <3>2 DEF n
  <2>6. raced[i] = TRUE \/ \A a \in Accounts : Placed(d, v, Watermark(accounts[a], i))
    BY <2>3, <2>5
  <2>7. \A j \in Incarnations : Seat(j)'
    BY <1>1, <2>1, <2>2, <2>4, <2>6 DEF Seat, Only, l
  <2> QED BY <1>1, <1>2, <2>2, <2>7
<1>5. ASSUME NEW i \in Incarnations, Serves(i) PROVE Places'
  <2> DEFINE c == client[i]
             w == wire[i]
             l == limbo[i]
             a == accounts[w.account]
  <2>1. PICK out : Outcome(a, w, out, boot) /\ Taken(w, out) /\ wire'[i] = out.reply
    BY <1>5 DEF Serves
  <2>2. /\ w.state = "request" /\ AsksFor(w, i, c)
        /\ (\A j \in Incarnations : j # i => wire'[j] = wire[j])
        /\ client' = client /\ limbo' = limbo /\ raced' = raced
    BY <1>5 DEF Serves
  <2>3. /\ w.account \in Accounts /\ w.request.incarnation = i /\ w.request.attempt[1] = i
        /\ w.request.attempt[2] = c.call.number /\ w.request.op = Op(c)
    BY <1>1, <2>2 DEF Shape, CallShape, AsksFor
  <2>4. /\ Shape(i, c, w, l, boot) /\ Pst(i, c, w, l, history) /\ Counted(c, w, l)
        /\ Fresh(i, c, w, history) /\ Filed(a, history)
        /\ raced[i] = TRUE \/ Placed(c, w, Watermark(a, i))
    BY <1>1, <2>3 DEF Seat
  <2> HIDE DEF c, w, l, a
  <2>5. /\ w.request.sequence \in Nat /\ Tagged(w) /\ Counted(c, out.reply, l)
        /\ Placed(c, w, Watermark(a, i)) => Placed(c, out.reply, Watermark(out.account, i))
    BY <1>1, <2>1, <2>2, <2>4, PlacedServe
  <2>6. /\ \A k \in Accounts : Filed(accounts'[k], history')
        /\ \A n \in DOMAIN history' : Tagged(history'[n])
        /\ \A j \in Incarnations : j # i => Seat(j)'
    BY <2>1, <2>2, <2>3, <2>5, PlacesTaken DEF a
  <2>7. Fresh(i, c, out.reply, history')
    <3>1. Recorded(history, w, out, history')
      BY <2>1 DEF Taken
    <3>2. out.reply.state = "reply" /\ out.reply.state # "request"
      BY <2>1 DEF Outcome
    <3>3. Unreconciled(c, out.reply) => c.call.step \in {"only", "describe", "first", "redescribe"}
      BY <3>2 DEF Unreconciled
    <3>4. Unreconciled(c, out.reply) => Unreconciled(c, w)
      BY <3>3 DEF Unreconciled
    <3>5. CallShape(c) /\ c.call.step # "none"
      BY <2>2, <2>4 DEF Shape
    <3>6. /\ c.call.step = "only" => Op(c) \in {"Open", "Describe"}
          /\ c.call.step \in {"describe", "redescribe"} => Op(c) = "Describe"
          /\ c.call.step \in {"first", "retry"} => Op(c) \in Tries
      BY <3>5, OpRequested
    <3>7. Unreconciled(c, out.reply) => w.request.op # "Reconcile"
      BY <2>3, <3>3, <3>6, OtherCalls
    <3> QED BY <2>4, <3>1, <3>4, <3>7, FreshTaken
  <2>8. raced'[i] = TRUE \/ \A k \in Accounts : Placed(c, out.reply, Watermark(accounts'[k], i))
    <3>1. \A k \in Accounts : accounts'[k] = out.account
      BY <2>1, <2>3 DEF Taken
    <3> QED BY <2>2, <2>4, <2>5, <3>1
  <2>9. Seat(i)'
    BY <2>1, <2>2, <2>5, <2>7, <2>8 DEF Seat, c, l
  <2>10. \A j \in Incarnations : Seat(j)'
    BY <2>6, <2>9
  <2> QED BY <1>2, <2>6, <2>10
<1>6. ASSUME NEW i \in Incarnations, ServesLate(i) PROVE Places'
  <2> DEFINE c == client[i]
             w == wire[i]
             l == limbo[i]
  <2>1. PICK out : Outcome(accounts[l.account], l, out, boot) /\ Taken(l, out)
    BY <1>6 DEF ServesLate
  <2>2. /\ l.state = "request" /\ Late(l, i, c) /\ limbo'[i] = Down /\ raced'[i] = TRUE
        /\ (\A j \in Incarnations : j # i => limbo'[j] = limbo[j])
        /\ (\A j \in Incarnations : j # i => raced'[j] = raced[j])
        /\ client' = client /\ wire' = wire
    BY <1>6 DEF ServesLate
  <2>3. l.account \in Accounts /\ l.request.incarnation = i /\ l.request.attempt[1] = i
    BY <2>2 DEF Late
  <2>4. Counted(c, w, l) /\ Fresh(i, c, w, history) /\ Shape(i, c, w, l, boot)
    BY <1>1 DEF Seat
  <2> HIDE DEF c, w, l
  <2>5. l.request.sequence \in Nat /\ Tagged(l)
    BY <2>2, <2>4 DEF Counted
  <2>6. /\ \A k \in Accounts : Filed(accounts'[k], history')
        /\ \A n \in DOMAIN history' : Tagged(history'[n])
        /\ \A j \in Incarnations : j # i => Seat(j)'
    BY <2>1, <2>2, <2>3, <2>5, PlacesTaken
  <2>7. Fresh(i, c, w, history')
    <3>1. Recorded(history, l, out, history')
      BY <2>1 DEF Taken
    <3>2. c.call.step # "none" => l.request.attempt[2] # c.call.number
      <4>1. c.call.number \in Nat
        BY <2>4 DEF Shape, CallShape
      <4> QED BY <2>2, <4>1, SMTT(30) DEF Late
    <3>3. ~(Of(l, i, c.call.number) /\ Unreconciled(c, w))
      BY <3>2 DEF Of, Unreconciled
    <3> QED BY <2>4, <3>1, <3>3, FreshTaken
  <2>8. Counted(c, w, Down)
    <3>1. Down.state # "request"
      BY DEF Down
    <3> QED BY <2>4, <3>1 DEF Counted
  <2>9. Seat(i)'
    BY <2>2, <2>7, <2>8 DEF Seat, c, w
  <2>10. \A j \in Incarnations : Seat(j)'
    BY <2>6, <2>9
  <2> QED BY <1>2, <2>6, <2>10
<1>7. /\ Down.state # "request" /\ Down.state # "reply"
      /\ \A c, w : Unreconciled(c, Down) => Unreconciled(c, w)
  BY DEF Down, Unreconciled
<1>8. ASSUME NEW i \in Incarnations, Breaks(i) PROVE Places'
  <2>1. wire'[i] = Down /\ accounts' = accounts /\ history' = history /\ client' = client
        /\ limbo' = limbo /\ raced' = raced /\ \A j \in Incarnations : j # i => wire'[j] = wire[j]
    BY <1>8 DEF Breaks
  <2>2. Counted(client[i], Down, limbo[i]) /\ Fresh(i, client[i], Down, history)
    BY <1>1, <1>7 DEF Seat, Counted, Fresh
  <2>3. raced[i] = TRUE \/ \A a \in Accounts : Placed(client[i], Down, Watermark(accounts[a], i))
    BY <1>1, <1>3, PlacedDown DEF Seat
  <2>4. \A j \in Incarnations : Seat(j)'
    BY <1>1, <2>1, <2>2, <2>3 DEF Seat
  <2> QED BY <1>1, <1>2, <2>1, <2>4
<1>9. ASSUME NEW i \in Incarnations, Kills(i) PROVE Places'
  <2> DEFINE c == client[i]
             w == wire[i]
             l == limbo[i]
  <2>1. PICK d : Only(i, d, Down) /\ Restarted(c, d)
    BY <1>9 DEF Kills
  <2>2. /\ accounts' = accounts /\ history' = history /\ raced' = raced
        /\ limbo'[i] = IF w.state = "request" THEN w ELSE l
        /\ \A j \in Incarnations : j # i => limbo'[j] = limbo[j]
    BY <1>9 DEF Kills
  <2>3. /\ Counted(c, w, l) /\ Shape(i, c, w, l, boot)
        /\ raced[i] = TRUE \/ \A a \in Accounts : Placed(c, w, Watermark(accounts[a], i))
    BY <1>1 DEF Seat
  <2> HIDE DEF c, w, l
  <2>4. d.next_sequence = 1 /\ d.call.step = "none"
    BY <2>1 DEF Restarted
  <2>5. w.state = "request" => w.request.sequence \in Nat /\ Tagged(w)
    BY <2>3, RequestCounted
  <2>6. Counted(d, Down, limbo'[i])
    <3>1. d.next_sequence \in Nat
      BY <2>4, SMTT(30)
    <3>2. limbo'[i].state = "request" => limbo'[i].request.sequence \in Nat /\ Tagged(limbo'[i])
      BY <2>2, <2>3, <2>5 DEF Counted
    <3> QED BY <1>7, <3>1, <3>2 DEF Counted
  <2>7. Fresh(i, d, Down, history)
    <3>1. ~Unreconciled(d, Down)
      BY <2>4 DEF Unreconciled
    <3> QED BY <3>1 DEF Fresh
  <2>8. \A a \in Accounts : Placed(d, Down, Watermark(accounts[a], i))
    BY <1>3, <2>1, PlacedDown
  <2>9. Seat(i)'
    BY <2>1, <2>2, <2>6, <2>7, <2>8 DEF Seat, Only
  <2>10. \A j \in Incarnations : Seat(j)'
    BY <1>1, <2>1, <2>2, <2>9 DEF Seat, Only
  <2> QED BY <1>1, <1>2, <2>2, <2>10
<1>10. ASSUME Restarts PROVE Places'
  <2>1. client' = client /\ history' = history /\ raced' = raced
        /\ \A i \in Incarnations : wire'[i] = Down /\ limbo'[i] = Down
    BY <1>10 DEF Restarts
  <2>2. ASSUME NEW a \in Accounts, NEW i
        PROVE  Filed(accounts'[a], history) /\ Watermark(accounts'[a], i) = Watermark(accounts[a], i)
    <3>1. CASE accounts[a] = NoAccount /\ accounts'[a] = NoAccount
      BY <3>1 DEF Filed
    <3>2. CASE accounts[a] # NoAccount /\ accounts'[a] = forget_liveness(accounts[a])
      <4>1. Shaped(accounts[a]) /\ Filed(accounts[a], history)
        BY <1>1, <3>2 DEF Basis, Sane
      <4> QED BY <3>2, <4>1, FiledForget
    <3> QED BY <1>10, <3>1, <3>2 DEF Restarts
  <2>3. ASSUME NEW i \in Incarnations PROVE Seat(i)'
    <3>1. Counted(client[i], Down, Down) /\ Fresh(i, client[i], Down, history)
      BY <1>1, <1>7 DEF Seat, Counted, Fresh
    <3>2. raced[i] = TRUE \/ \A a \in Accounts : Placed(client[i], Down, Watermark(accounts[a], i))
      BY <1>1, <1>3, PlacedDown DEF Seat
    <3>3. raced[i] = TRUE \/ \A a \in Accounts : Placed(client[i], Down, Watermark(accounts'[a], i))
      BY <2>2, <3>2
    <3> QED BY <2>1, <3>1, <3>3 DEF Seat
  <2> QED BY <1>1, <1>2, <2>1, <2>2, <2>3
<1>11. CASE Steady
  <2>1. \A j \in Incarnations : Seat(j)'
    BY <1>1, <1>11 DEF Seat, Steady
  <2> QED BY <1>1, <1>2, <1>11, <2>1 DEF Steady
<1> QED BY <1>1, <1>4, <1>5, <1>6, <1>8, <1>9, <1>10, <1>11, StepCases

\* The third invariant is an invariant.
LEMMA PlacesInvariant ==
  ASSUME DOMAIN NoAccount # AccountFields, \A a, b \in Accounts : a = b
  PROVE  Spec => []Places
BY PlacesInit, PlacesStep, PTL DEF Spec

\* A client of one account finds its place: no answer of the engine finds fault
\* with the sequence of an attempt, unless one of the client's killed
\* predecessor was applied late.
THEOREM ClientWellPlaced ==
  ASSUME DOMAIN NoAccount # AccountFields, \A a, b \in Accounts : a = b
  PROVE  Spec => []WellPlaced
<1>1. Places => WellPlaced
  <2> SUFFICES ASSUME Places, NEW i \in Incarnations, wire[i].state = "reply",
                      wire[i].reason \in {"SequenceGap", "StaleReplay", "AttemptConflict"}
               PROVE  raced[i]
    BY DEF WellPlaced
  <2>1. Misplaced(wire[i].reason)
    BY DEF Misplaced
  <2>2. PICK a : a \in Accounts
    <3>1. Shape(i, client[i], wire[i], limbo[i], boot)
      BY DEF Places, Story, Basis
    <3> QED BY <3>1 DEF Shape, CallShape
  <2>3. raced[i] = TRUE \/ Placed(client[i], wire[i], Watermark(accounts[a], i))
    BY <2>2 DEF Places, Seat
  <2> QED BY <2>1, <2>3 DEF Placed
<1> QED BY <1>1, PlacesInvariant, PTL
=============================================================================
