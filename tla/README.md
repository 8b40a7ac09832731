# Credit Fabric: verification

TLA+ models of Credit Fabric, the TLC runs that check them on small instances,
and TLAPS proofs for every instance about the ledger, the engine, the file
journal, the server, its client and the stream between them.
`PROJECT.json` lists the runs, the source lines each definition stands for, the hazards and the findings.

## The system

| Part | State | Operations | What makes it correct |
|---|---|---|---|
| Ledger (`ledger.cpp`) | capacity, cumulative 64-bit counters | ten mutators on a plan, installed when Ok | the closure identities; credit moves only between buckets; nothing is stranded |
| Account and decision (`engine.cpp`) | era, ledger, incarnations, fences, attempt window | `apply`: Open, Describe, six data and nine control operations | a slot is decided once; a retry gets the recorded answer; nothing outlives its era |
| Authority (`authority.cpp`) | standing of each incarnation, challenge nonce | Reconcile, Fence, RetireIncarnation, end of era, restart | live only by this boot's challenge; a fence is for ever; only the operator controls |
| Durability (`engine.cpp`, `journal.cpp`) | journal, snapshot, chain, latch, ambiguous notes | persist, snapshot, rotate, roll back, recover | what is acknowledged is recovered; recovery succeeds on an intact journal |
| File journal (`file_journal.cpp`, `platform.cpp`) | bytes, offsets, torn flag | open and replay, append, rotate, write_snapshot | power loss at any point leaves every acknowledged record readable; growth is bounded |
| Coordinator server (`coordinator.cpp`, `transport.cpp`) | flags, accept thread, connection threads, registry | start, stop, accept, serve | stop returns and joins everything; no connection is forgotten |
| Coordinator client (`coordinator.cpp`) | connection, challenge, sequence, authority | connect, describe, reconcile, submit | one call decides once, at watermark + 1 |
| Transport (`transport.cpp`, frames of `wire.cpp`) | bytes in flight, what is read of a frame | send_frame, recv_frame, the stop flag | frames arrive whole, unchanged and in order; no call outlasts a stop |
| Codec (`bytes.hpp`, `wire.cpp`, `record.cpp`) | none | encode and decode of seven messages and records | decoding inverts encoding; nothing else is accepted |
| Tools (`local_session.hpp`, `cfctl`, `cf_coordinator`) | a session: era, sequence, standing | open, reconcile, call, serve | a command has one effect, whatever was killed before it |
| Digests, bench, explanations | none, or read only | | not modelled, see below |

Workers hold no authority: a client sends a request over its connection, the
connection's thread hands it to the one engine under the engine's mutex, the
engine decides it against the account and writes an intent and a commit record
before it answers. Hard behaviours: lost answers and retries, the end of an era
between two messages, window eviction, a crash or an I/O error between any two
journal writes, snapshots that replace the records they cover, several restarts,
shutdown against threads that block on peers, frames that arrive in pieces,
tools that are killed and started again with no memory.

## Modules

| Module | Models | Uses |
|---|---|---|
| `Ledger` | `LedgerPlan` and `compute_view` as operators on words of width `MaxU64` | |
| `CreditPool` | abstract: five buckets and the moves between them | |
| `LedgerAccount` | an account driven through the ledger; refines `CreditPool` | `Ledger` |
| `LedgerLemmas`, `LedgerProofs` | proofs | `LedgerAccount` |
| `CreditAccount` | admission, placement and decision on one request, as operators | `Ledger` |
| `CreditEngine` | the engine as callers see it: decided is durable, a boot may end at any time | `CreditAccount` |
| `DurableEngine` | journal, snapshot, rollback, latch, recover; refines `CreditEngine` | `CreditEngine` |
| `FileJournal` | the bytes under the journal | |
| `Coordinator` | server threads and sockets | |
| `CoordinatorClient` | the client against the decision operators | `CreditAccount` |
| `LocalSession` | the tools that own an engine, boot after boot on one journal | `CreditEngine` |
| `FrameStream` | one direction of a connection, byte by byte | |
| `Codec` | encoders and decoders as layouts, writer and reader, damaged inputs | |
| `CreditAccountLemmas` | lemmas on the account: requests, admission, publishing, what a caller sees of a decision | `CreditAccount` |
| `CreditEngineProofs` | proofs | `CreditEngine`, `CreditAccountLemmas`, `LedgerLemmas` |
| `FileJournalProofs` | proofs | `FileJournal` |
| `CoordinatorProofs` | proofs | `Coordinator` |
| `CoordinatorClientProofs` | proofs | `CoordinatorClient`, `CreditAccountLemmas` |
| `FrameStreamProofs` | proofs | `FrameStream` |

Each header comment says which variable stands for which field. An action is a
whole handler: `Decide` and `Apply` run from admission to the answer, because
the engine's mutex is held that long; a failure or crash inside is an action of
its own with the writes done so far. A refusal without effect is a stuttering
step. A digest is the record of the fields it digests, and so taken as
injective; the chain value is the sequence of commits it was made from; a CRC is
the test that a record is whole. There is one account (two in `SecondAccount`).

How the parts meet: `LocalSession` puts the tools on top of `CreditEngine`,
`DurableEngine` shows that the journalled engine implements `CreditEngine`, and
`FileJournal`, `FrameStream` and `Codec` are the bytes under the journal and the
connection. `Coordinator` and `CoordinatorClient` take what `FrameStream` checks:
a frame arrives whole or the connection ends.

## Runs

| Run | Checks | Result |
|---|---|---|
| `ledger` | `TypeOK` `Closure` `NoStrandedCredit` `PoolSpec` | pass |
| `engine_authority` | `DecidedOnce` `WatermarkExact` `RetryIsAnswered` `FencedForEver` `LiveByThisChallenge` `AuthorityMonotone` | pass |
| `session` | `CommandDecidedOnce` `SettledAtFirstTurn` | pass |
| `durable_restarts` | `RecoverySucceeds` `AmbiguityExact` `EngineSpec` under failing and cut writes | pass |
| `durable_replay` | `NothingOutlivesItsEra` `RecoverySucceeds` `AcknowledgedIsDurable` `RollbackExact` with all operations and failing appends | pass |
| `journal_bytes` | `AppendedSurvives` `FileIsKnown` `HeaderStays` `GrowthBounded` | pass |
| `coordinator` | `StopJoinsAll` `ConnectionBound` `OneInDoubt` `StopReturns` `Attended` | pass |
| `client_calls` | `ReconcilesOnce` `SubmitDecidesOnce` `WellPlaced` `OkIsDecided` | pass |
| `frames` | `DeliveredInOrder` `CleanClose` `StopEndsCall` `ClientSendEnds` | pass |
| `codec` | `RoundTrip` `Canonical` `SelfDelimiting` `ReservesWhatIsThere` | pass |
| `second_restart` | `RecoverySucceeds` | violated |
| `snapshot_before_publish` | `DecidedOnce` | violated |

Scope of the passing runs. The findings below are reachable in the code, so a
run that is to pass has to stay clear of them, and its result holds only there.
`durable_restarts` has one incarnation, which reconciles again before anything
else is decided after a restart and so hides the liveness reset of
`second_restart`; it has no producers, no automatic snapshots, and no failing
flush at the end of a rotation. `durable_replay` has no restart between
decisions (`recovered` is what recovery would give in each state), no producers
and no snapshots. In it an append of any operation may fail, and `RollbackExact`
says what the failure leaves in memory: nothing, but for a failed end of an era,
which leaves the other incarnations without their standing, and a failed refusal
of an Issue, which leaves the role it was bound to (`RollbackOfRoles`). That the
rollback has no exception is `RollbackComplete`, refuted below. The byte budget
that also makes a snapshot due (engine.cpp:1424) is a free choice at each commit
where `BytesFill` is set; it is set in `snapshot_before_publish` only, because
every automatic snapshot leads to that finding.
`journal_bytes` leaves out the same flush; in it a flushed new file keeps its
name, and the flush of the directory behind a rename succeeds when the call
returns (it may be cut by a power failure before that). `session` has an engine
that always recovers, so it is about boots that `second_restart` would not stop.
`codec` has one note limit in both processes, below the encoder's, and
collections below the ceiling. `client_calls` has one account and four
operations, the ones after which a client has to place itself, prove itself or
is answered with a reason that looks like a demand to; the theorems on the
client are for all of them. No client hands `submit` a Reconcile that it filled
in itself (`reconcile` is the call for it), a role or an expected digest.
`coordinator` serves one connection at a time, the limit being one; `Attended`
excepts an accept thread that ended although nobody called stop, which an accept
error or a start after a stop brings about.

Bounds. `MaxU64` stands for 2^64-1; with 6 and 5 the ledger run and
`durable_replay` reach the end of the word. A window of 2 evicts at the third
decision. Two incarnations are the operator and somebody else; two boots make
one stale nonce, three in `session` two tools after the first. The last
decision or snapshot of `durable_restarts` begins at journal number 5 at the
latest: three decisions, or two with a snapshot before, between or after them, a
failure or a crash at each of their writes, and two restarts. Four
records of one or two cells let a short record overwrite a longer one and, with
five cells, fill the budget; three frames are a greeting and two requests. A stream of two frames over a
buffer of three cells cuts each of them at every place; one byte is damaged, one
end killed or stopped. A byte of `codec` has eight values and every field its
width in bytes, so that a number of eight bytes still fits an integer of TLC;
sample 3 has every number at its highest. `client_calls` has two
calls each and one fault, at any point. Where `CHECK_DEADLOCK FALSE` is set, the
bounds on decisions, boots, calls or frames end every behaviour, or the server
is stopped for good. A connection that has ended stays so, and
`codec` decodes once. The ledger never stops and its run checks deadlock.

Fairness, in `Coordinator` and `FrameStream`: each thread that can take a step takes one
(the operating system schedules runnable threads). Peers have none: they may be
silent for ever. `wait_ready` polls with a timeout and looks at the stop flag,
which is why a receive that waits can end; `recv_blocks` shows that without
that `StopReturns` fails. A send need not succeed: the peer may not read.
All of this is of a process that ignores SIGPIPE (see below).
`FrameStream` adds what `serve_connection` does: it receives again after each
frame and closes after a call that failed. On this rests `ClientSendEnds`; the
client itself has no stop flag.

Every property of a passing run has a mutant: a definition with a plausible bug,
kept beside the right one and marked as such, under which TLC finds the property
violated (`PROJECT.json`, "mutants").

## Proofs

`LedgerProofs`, for every width, capacity and policy that `ConfigAssumption`
admits:

- `TypeCorrect`, `ClosureHolds`, `NothingStranded`: `Spec => []...` for
  `TypeOK`, `Closure` and `NoStrandedCredit`;
- `Refinement`: `Spec => PoolSpec`.

`Closure` speaks of the derived view, which shows zeroes once the counters do
not reconcile, and is not inductive in that form. `LedgerInv` says on the stored
counters that `check_invariants` accepts them. `LedgerLemmas` has one lemma per
mutator: when it is not refused, its guard, its new counters, and that they
reconcile. `LedgerProofs` has one step lemma per action from these, then the
invariant, and each theorem follows from the invariant by arithmetic.

`CreditEngineProofs`, for every set of incarnations, every window, every limit
and any number of boots and decisions, on the assumption that `NoAccount` is not
a record with the fields of an account (`EngineRetryIsAnswered` also: `Unset` is
not one with the fields of a request).

- `EngineInvariant`: `Spec => []IInv`;
- `EngineDecidesOnce`, `EngineWatermarkExact`, `EngineFencesForEver`,
  `EngineLiveByThisChallenge`, `EngineRetryIsAnswered`: the invariants of
  `engine_authority`;
- `EngineNothingOutlivesItsEra`, which `durable_replay` checks;
- `EngineOperatorControls`: every control operation was the operator's;
- `EngineAuthorityMonotone`: the action property.

None of the invariants is inductive alone. A slot is decided once because
placement admits only `last_sequence + 1`, and that is a free slot only if the
watermark is exact; a fence is final only if the fence list and the states agree
and nothing of the target follows in the history; a live incarnation has the
challenge of this boot only if a restart has forgotten the others. `IInv` is
`Good(account, history, serving, boot)`: the account has its fields, the fence
list holds exactly the fenced, who is reconciled has proved it to this boot in
this era, and the history has for each incarnation the slots up to its
watermark, each once, with no control by others and nothing after a fence. The
proof speaks of values and not of variables: `DecideEffect` says what every
decision does to an account, as one of four kinds (it keeps every standing, it
reconciles, it fences or it ends an era), one lemma per kind shows that it keeps
`Good` (`KeepsGood`, `ReconcilesGood`, `FencesGood`, `EndsEraGood`), then one
per action (`DecideOK`, `OpenOK`, `CrashOK`, `RestartOK`), and `StepOK` joins
them. The window plays no part in it: that eviction cannot bring a slot back
follows from the watermark alone.

The other two theorems need a second invariant, `BooksInv`, beside `IInv`: an
entry of the window stands for a decision in the history, with its request and
answer unless a restart has lost them; the ledger's counters reconcile and fit
their word; and outstanding credit is at most what the history issued in this
generation. It is kept because every mutator but
Issue leaves outstanding credit or lowers it, Issue raises it by its count, and
the end of an era quarantines all of it (`LedgerLemmas` has the mutators). The sum
over the history is a recursive function; what an append adds to it is proved by
induction, through the least element of the set of counterexamples
(`WellFoundedInduction`), as are the facts on the scan of a journal below.

`FileJournalProofs`, for records of every size, every budget and any sequence of
failed writes, rotations and power failures:

- `JournalGrowthBounded`: without a hypothesis;
- `JournalHeaderStays`: if a flushed new file keeps its name;
- `JournalFileIsKnown`: if a rotation's last flush does not fail;
- `JournalAppendedSurvives`: under both, and if the flush of the directory behind
  a rename succeeds.

The hypotheses are the cases in which the property is false: `NewJournalName`,
`GapAfterRotation` and `SilentDirectory` below. `FilesInv` is about lengths and
offsets, `HeaderInv` about the first cell, `KnownInv` says that the records the
engine knows lie whole and in order up to `write_offset_`, with at most one that
failed behind them. For the last theorem `SafeInv` says this of the flushed file
and of the written one at once: the records due lie whole in both, end at or
before `write_offset_`, and no cell behind belongs to one of them, so whatever a
power failure mixes of the two agrees with both as far as the last record due.

`CoordinatorProofs`, for every number of connections, every limit and every
interleaving of the accept thread, the connection threads and `stop`, on
`CoordinatorAssumption`: `ServerInvariant` (`Spec => []IInv`, `TypeOK` is a
conjunct of it), `ServerStopJoinsAll`, `ServerConnectionBound` and
`ServerOneInDoubt`. A thread runs before it is in `workers_`, so that `stop`
joins all of them rests on where the other threads are: `IInv` says that the
accept thread has a connection in hand only while it admits it (`InHand`), that
it is gone when `stop` swaps `workers_` out (`Phases`), that a thread which has
not ended is in `workers_`, in what `stop` took from it, or in that hand
(`Registered`), that a started thread has room in the registry (`Room`), and at
which places a request may be applied and not answered (`InDoubt`). There is one
lemma per thread (`PeerOK`, `AcceptorOK`, `WorkerOK`, `StopOK`), with one step
per action.

`CoordinatorClientProofs`, for any number of clients, calls, restarts and faults,
and for every operation with any count, target, decision and cause:

- `ClientSubmitDecidesOnce`, `ClientOkIsDecided`: without a hypothesis, from the
  invariant `Story`;
- `ClientReconcilesOnce`: with the assumption on `NoAccount`, from `Eras`. It has
  one exception, which the code has: the engine refuses to retire an incarnation
  it does not know with the reason it has for a caller it does not know
  (engine.cpp:1323), so `submit` reconciles, asks again and ends with it;
- `ClientWellPlaced`: with it and for one account, from `Places`. With two
  accounts it is false (`SecondAccount` below).

A request that was sent is on the wire, in limbo (its client was killed and the
connection's thread still has it), in the history, or lost; `Story` says what each
of these allows. As long as a call awaits an answer that could make it
try again, the history has nothing of the call but a Reconcile; a request in
limbo is of an earlier call number than the one in progress, and its call has
nothing else in the history either; an answer Ok is of a request in the history.
So the second try of a call can be the only decision of it. `Eras` adds what the
client knows of the era: after a description that was not disturbed the client's
epoch and generation are the account's, and after its Reconcile it stands
(`Stands`), so the answer to the retry does not ask for another. An operation of
another client may take that standing away only by fencing or retiring it, and
then the answer is a different one, or by ending the era. `Places` adds
the client's sequence: it is never above watermark + 1, and equal to it whenever
an attempt is sent (`Placed`), and the attempt's identity is not in the window,
because each entry of the window is in the history (`Filed`), which has no
Reconcile of a call that has not yet sent or not yet got the answer to one
(`Fresh`). What the engine may do with a request is one predicate, `Outcome`,
proved for every request (`AnsweredOutcome`, `OpenedOutcome`): it is turned down
or told and nothing that these invariants speak of changes (`Same`: a Fence that
is refused at the limit may leave a record), or it is decided. The steps are then looked at for
the client that takes them, for the one that is served and for the others.

`FrameStreamProofs`, for every number and size of frames, every buffer and every
way the stream cuts and joins them: `StreamDeliversInOrder`, `StreamCleanClose`
and `StreamTypes` (`TypeOK`, with the bound on the receiver's buffer). `IInv` says
that frame, pipe and rest together are the encodings of the frames not yet
delivered, except at one position if a cell was damaged (`Flows`, with the offsets
at which the frames are cut as a witness), and at which of these offsets the
calls of sender and receiver stand. What recv_frame accepts is then the next frame:
a damaged type or payload is not what the checksum was made of, and with a damaged
length decode_frame looks for a checksum where there is a payload, or takes one for
a payload (`DecodedIsSent`; a checksum is the record of what it covers). The end
of the stream at the start of a read_exact is the end of a frame or of a header
(`EndIsClean`).

What is checked by TLC only, and why:

- Liveness (`StopReturns`, `Attended`, `StopEndsCall`, `ClientSendEnds`): fairness
  is beyond the prover.
- `RecoverySucceeds`, `RollbackExact`, `AmbiguityExact` and
  `AcknowledgedIsDurable` of `DurableEngine`: they are false for some values of the
  constants, as the findings show, and hold in the runs because of their bounds.
  `EngineSpec` of `DurableEngine` rests on the same bounds.
- `CommandDecidedOnce` and `SettledAtFirstTurn` of `LocalSession`: no proof has
  been written.
- `Codec`: its layouts are read and written by RECURSIVE operators, in whose
  presence the prover loses its arithmetic.
- `TypeOK` of the engine and of the modules not named above.

## Findings

Two runs end with a counterexample; `PROJECT.json` quotes the sentence each
contradicts. Both were also reproduced by executing the library.

| Run | What the code does |
|---|---|
| `second_restart` | an intact journal is refused at the second recovery: the liveness reset is not journalled |
| `snapshot_before_publish` | an automatic snapshot forgets the slot it was triggered by, which is decided again |

### Further configurations

These are not part of the regular set of runs. Each checks one statement of the
repository's documents or comments, and TLC refutes it within seconds
(`tlc -config X.cfg Module`), but for the ones at the end, which pass. The ones marked * were also
reproduced by executing the library.

| Configuration | Module, property | What the code does | Against |
|---|---|---|---|
| `TornTail` * | `DurableEngine`, `AppendsResume` | after a torn tail is cut, the first append fails and latches the engine (file_journal.cpp:243) | README 331-334 |
| `ConcurrentLimit` | `Coordinator`, `LimitIsConcurrent` | the connection limit counts finished connections (coordinator.cpp:97) | README 429, 361 |
| `RefusedBinding` * | `DurableEngine`, `RecoverySucceeds` | a refused Issue keeps its binding, replay does not: the journal is refused (engine.cpp:1138) | README 310-311, 338-341 |
| `FenceAtLimit` * | `DurableEngine`, `RecoverySucceeds` | a Fence refused at the limit leaves an unjournalled record: the journal is refused (engine.cpp:1300) | README 307-308, 338-341 |
| `GapAfterRotation` * | `DurableEngine`, `AcknowledgedIsDurable` | after a failed rotation, acknowledged records lie behind a hole and are lost (file_journal.cpp:282) | README 61-62 |
| `ForgottenAnswer` * | `DurableEngine`, `RetryIsNoConflict` | an identical retry after a snapshot is answered as a conflict (engine.cpp:491) | README 298-299, 548-551 |
| `FailedYetDurable` | `DurableEngine`, `UndecidedLeavesNoTrace` | a request answered as undecided may be decided after the restart (engine.cpp:1348) | README 404-405 |
| `RollbackOfAnEra` | `DurableEngine`, `RollbackComplete` | a failed AdvanceEpoch does not restore the others' standing (engine.cpp:1344) | README 347-349, engine.cpp:359 |
| `DecidedFlag` | `CreditEngine`, `DecidedConsumesSlot` | an identity conflict is answered as decided for a free slot (engine.cpp:958) | engine.hpp:113 |
| `OpenByAnyone` | `CreditEngine`, `OpenNeedsOperator` | Open is not limited to the operator (engine.cpp:898) | engine.hpp:37, 64, README 266 |
| `RetiredForGood` | `CreditEngine`, `RetiredMayReopen` | a retired incarnation cannot reconcile (engine.cpp:915) | authority.hpp:30 |
| `LedgerTelemetry` | `LedgerAccount`, `ConsumedNeverGates` | the counter `consumed` refuses spending at its limit (ledger.cpp:166) | ledger.hpp:49 |
| `UnansweredAtStop` | `Coordinator`, `UnansweredIsUndecided` | a request may be decided and not answered at shutdown (coordinator.cpp:188) | README 364-366 |
| `SecondAccount` | `CoordinatorClient`, `WellPlaced` | a client's sequence is not lowered for a second account (coordinator.cpp:382) | coordinator.cpp:373-375, engine.hpp:105-106 |
| `AmbiguityLimit` | `DurableEngine`, `AmbiguityExact` | a full list of ambiguous notes drops the oldest, still in doubt (engine.cpp:615) | README 342-344 |
| `FullJournal` | `FileJournal`, `FullCanRotate` | a snapshot appends before it rotates, so a journal at its byte budget cannot be emptied (file_journal.cpp:247) | README 345-346 |
| `NewJournalName` | `FileJournal`, `AppendedSurvives` | the directory of a new journal is not flushed (file_journal.cpp:83), on a file system that needs it | README 61-62 |
| `SilentDirectory` | `FileJournal`, `AppendedSurvives` | the failure of the directory flush behind a snapshot's rename is ignored (platform.cpp:57), then rotation drops the records | README 61-62 |
| `TornFrame` | `FrameStream`, `TornIsRefused` | a stream that ends right behind a header is reported as a clean close (transport.cpp:244) | wire.hpp:14-16 |
| `LoweredNoteLimit` | `Codec`, `RoundTrip` | an intent written under a higher note limit is refused by recovery (engine.cpp:553) | README 338-341 |
| `RaisedNoteLimit` | `Codec`, `RoundTrip` | a note above 4096 bytes is left out without its length, and the message cannot be read (wire.cpp:212) | README 338-341 |
| `LongCollection` | `Codec`, `RoundTrip` | a window above 2^20 entries is written and not read back (record.cpp:18) | README 338-341 |
| `JournalTypes` | `FileJournal`, `TypeOK` | passes: the types |  |
| `DurableFleet`, `FleetFailures` | `DurableEngine`, `EngineSpec` | pass: the refinement with two incarnations, over restarts and with failing appends |  |
| `RollbackOfRoles` | `DurableEngine`, `RollbackExact`, `TypeOK`, `NothingOutlivesItsEra` | passes, in a minute or two: every operation, with producers to bind |  |

## Not modelled

- The functions behind digests, CRC-32C and entropy: bit-level; taken as
  injective, or as values nobody repeats.
- `explain`, `render`, statistics, version: they read the state.
- `cf_worker`, `cfctl --port`: loops over the client's calls, which
  `CoordinatorClient` interleaves freely. `cf_bench` and `bench.cpp` measure.
  Parsing of arguments and printing.
- Validation of an account's configuration (`policy.cpp`), a pure predicate; the
  constants of a run satisfy it.
- SIGPIPE. `write_all` sends without MSG_NOSIGNAL (transport.cpp:138) and nothing
  sets the signal's disposition, so on POSIX a send to a peer that has closed ends
  a process that leaves the default. `SendFails` and `FrameStream` have the error
  that a process gets which ignores the signal; what the end of the process does
  to the engine is a crash of `DurableEngine`. The break after a response that
  cannot be encoded (coordinator.cpp:187) is not reached: `encode_response_message`
  returns no error (wire.cpp:377).
- The set-up of sockets, Winsock, and the in-memory journal, which has the
  interface of the file journal without its faults.
- Several accounts in one journal (their states are disjoint but for the engine's
  counters); several engines on one journal, which the repository's README
  excludes.
- That `FileJournal` implements the disk of `DurableEngine` is argued, not
  checked: the faults of `DurableEngine` (`Botched`, `Leftovers`, `Cut`) are those
  that `FileJournal` shows a replay can meet.
