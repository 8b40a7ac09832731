------------------------------- MODULE Codec -------------------------------
(***************************************************************************)
(* The byte codec of the wire messages and of the durable records.  What a *)
(* function of wire.cpp or record.cpp writes or reads is a layout: the     *)
(* sequence of its calls on the ByteWriter or ByteReader.  The encoding    *)
(* and the decoding function of a structure are two separate functions in  *)
(* the source, so they are two separate layouts here.                      *)
(*                                                                         *)
(*   kind      what is encoded: a wire message or a durable record         *)
(*   sample    the number of the message; `Message' has its fields         *)
(*   bytes     its encoding, as it was written or as it arrives            *)
(*   fault     what happened to the bytes in between                       *)
(*   result    what the decoder returned, once it has                      *)
(*                                                                         *)
(* A byte has Base values, so that a u64 fits an integer of TLC; every     *)
(* field keeps the number of bytes it has in the source.                   *)
(***************************************************************************)
EXTENDS Integers, Sequences, SequencesExt, TLC

CONSTANTS
  Base,             \* values of a byte
  kOpKindCount,     \* the number of operations
  kReasonCount,     \* the number of reasons
  kMaxLabelBytes,   \* the longest label
  NoteCeiling,      \* the longest note the encoder writes
  max_note_bytes,   \* the limit of the process that encodes
  RecoveryNotes,    \* the limit of the process that recovers
  kMaxCollection,   \* the most elements of a collection
  MaxItems,         \* bound on the elements in a collection
  Samples,          \* the messages tried, by number
  Faulty,           \* those whose encoding may be damaged
  Damages           \* the values a damaged byte takes

ASSUME CodecAssumption ==
  /\ Base \in Nat \ {0, 1} /\ kOpKindCount <= Base /\ kReasonCount <= Base * Base
  /\ max_note_bytes \in Nat /\ MaxItems \in Nat
  /\ Samples \subseteq Nat /\ Faulty \subseteq Samples /\ Damages \subseteq 0..Base - 1

VARIABLES kind, sample, bytes, fault, result

vars == <<kind, sample, bytes, fault, result>>

-----------------------------------------------------------------------------
(* bytes.hpp: calls on a ByteWriter or a ByteReader, as steps of a layout. *)
(* A number step has the highest value its reader accepts.                 *)

u8(name) == <<"number", name, 1, Base - 1>>
u16(name) == <<"number", name, 2, Base^2 - 1>>
u32(name) == <<"number", name, 4, Base^4 - 1>>
u64(name) == <<"number", name, 8, Base^8 - 1>>

\* A reader that takes every byte but zero for true.
lax_boolean(name) == <<"flag", name, Base - 1>>

boolean(name) == <<"flag", name, 1>>

text(name, max_bytes) == <<"text", name, max_bytes>>

\* A structure in its own function, an optional one, and a collection.
part(name, layout) == <<"part", name, layout>>
if_set(flag, name, layout) == <<"if_set", name, flag, layout>>
list(name, minimum, layout) == <<"list", name, minimum, layout>>
blocks(name, minimum, layout) == <<"blocks", name, minimum, layout>>

u64s(names) == [i \in DOMAIN names |-> u64(names[i])]

digest(name) == part(name, <<u64("lo"), u64("hi")>>)

at_most(name, width, top) == <<"number", name, width, top>>

is_valid_op(name) == at_most(name, 1, kOpKindCount - 1)
is_valid_reason(name) == at_most(name, 2, kReasonCount - 1)

-----------------------------------------------------------------------------
(* The writer.                                                             *)

little_endian(value, width) == [i \in 1..width |-> (value \div Base^(i - 1)) % Base]

RECURSIVE write(_, _)

put(step, value) ==
  LET v == value[step[2]]
  IN  CASE step[1] = "number" -> little_endian(v, step[3])
        [] step[1] = "flag" -> <<IF v THEN 1 ELSE 0>>
        [] step[1] = "text" -> IF Len(v) > step[3] THEN <<>> ELSE little_endian(Len(v), 4) \o v
        [] step[1] = "part" -> write(step[3], v)
        [] step[1] = "if_set" -> IF value[step[3]] THEN write(step[4], v) ELSE <<>>
        [] step[1] = "list" ->
             little_endian(Len(v), 8) \o FlattenSeq([i \in DOMAIN v |-> write(step[4], v[i])])
        [] step[1] = "blocks" ->
             little_endian(Len(v), 8)
               \o FlattenSeq([i \in DOMAIN v |->
                    little_endian(Len(write(step[4], v[i])), 4) \o write(step[4], v[i])])

write(layout, value) == FlattenSeq([i \in DOMAIN layout |-> put(layout[i], value)])

-----------------------------------------------------------------------------
(* The reader: the bytes it is over, how far it is, what it has read, and  *)
(* the most bytes its collections would fill at their least.               *)

ByteReader(data, first, last) ==
  [data |-> data, position |-> first - 1, size |-> last, ok |-> TRUE, value |-> <<>>, reserved |-> 0]

remaining(reader) == reader.size - reader.position
done(reader) == reader.position = reader.size
failed(reader) == [reader EXCEPT !.ok = FALSE]
skip(reader, count) == [reader EXCEPT !.position = @ + count]
holding(reader, name, v) == [reader EXCEPT !.value = @ @@ (name :> v)]

number_at(reader, width) ==
  LET upto[i \in 0..width] ==
        IF i = 0 THEN 0 ELSE upto[i - 1] + reader.data[reader.position + i] * Base^(i - 1)
  IN  upto[width]

within_ceiling(reader, count, minimum) == count <= kMaxCollection

within_budget(reader, count, minimum) ==
  count <= kMaxCollection /\ remaining(reader) >= count * minimum

RECURSIVE read(_, _)

get_number(reader, name, width, top) ==
  IF remaining(reader) < width \/ number_at(reader, width) > top THEN failed(reader)
  ELSE holding(skip(reader, width), name, number_at(reader, width))

get_flag(reader, name, top) ==
  IF remaining(reader) < 1 \/ number_at(reader, 1) > top THEN failed(reader)
  ELSE holding(skip(reader, 1), name, number_at(reader, 1) # 0)

get_text(reader, name, max_bytes) ==
  IF remaining(reader) < 4 THEN failed(reader)
  ELSE LET length == number_at(reader, 4)
           start  == skip(reader, 4)
       IN  IF length > max_bytes \/ length > remaining(start) THEN failed(reader)
           ELSE holding(skip(start, length), name,
                        SubSeq(reader.data, start.position + 1, start.position + length))

get_part(reader, name, layout) ==
  LET inner == read(layout, [reader EXCEPT !.value = <<>>])
  IN  holding([inner EXCEPT !.value = reader.value], name, inner.value)

\* One element of a collection, appended to what `value' holds so far.
get_item(reader, layout) ==
  IF ~reader.ok THEN reader
  ELSE LET inner == read(layout, [reader EXCEPT !.value = <<>>])
       IN  [inner EXCEPT !.value = Append(reader.value, inner.value)]

\* One account of a snapshot: a reader of its own over the bytes of the block.
get_block(reader, layout) ==
  IF ~reader.ok \/ remaining(reader) < 4 THEN failed(reader)
  ELSE LET length == number_at(reader, 4)
           start  == skip(reader, 4)
       IN  IF length > remaining(start) THEN failed(reader)
           ELSE LET nested == read(layout, ByteReader(reader.data, start.position + 1, start.position + length))
                IN  [skip(start, length) EXCEPT !.ok = nested.ok /\ done(nested),
                                                !.reserved = @ + nested.reserved,
                                                !.value = Append(@, nested.value)]

get_items(reader, step) ==
  IF remaining(reader) < 8 THEN failed(reader)
  ELSE LET count   == number_at(reader, 8)
           minimum == step[3]
           start   == skip(reader, 8)
           next(r, i) == IF step[1] = "list" THEN get_item(r, step[4]) ELSE get_block(r, step[4])
           items   == FoldLeft(next, [start EXCEPT !.value = <<>>, !.reserved = @ + count * minimum],
                               [i \in 1..count |-> i])
       IN  IF ~within_budget(start, count, minimum) THEN failed(reader)
           ELSE holding([items EXCEPT !.value = reader.value], step[2], items.value)

get(reader, step) ==
  IF ~reader.ok THEN reader
  ELSE CASE step[1] = "number" -> get_number(reader, step[2], step[3], step[4])
         [] step[1] = "flag" -> get_flag(reader, step[2], step[3])
         [] step[1] = "text" -> get_text(reader, step[2], step[3])
         [] step[1] = "part" -> get_part(reader, step[2], step[3])
         [] step[1] = "if_set" -> IF reader.value[step[3]] THEN get_part(reader, step[2], step[4])
                                  ELSE holding(reader, step[2], <<>>)
         [] step[1] \in {"list", "blocks"} -> get_items(reader, step)

read(layout, reader) == FoldLeft(get, reader, layout)

-----------------------------------------------------------------------------
(* wire.cpp: structures and messages.                                      *)

encode_authority == u64s(<<"domain", "account", "epoch", "generation", "incarnation">>)
decode_authority == u64s(<<"domain", "account", "epoch", "generation", "incarnation">>)

encode_account_config ==
  u64s(<<"domain", "account", "resource", "policy", "capacity", "max_capacity">>)
    \o <<u8("profile"), u64("min_issue"), u64("max_issue_per_attempt"), boolean("allow_protect"),
         boolean("allow_return"), boolean("allow_capacity_growth")>>

decode_account_config ==
  u64s(<<"domain", "account", "resource", "policy", "capacity", "max_capacity">>)
    \o <<at_most("profile", 1, 3), u64("min_issue"), u64("max_issue_per_attempt"), boolean("allow_protect"),
         boolean("allow_return"), boolean("allow_capacity_growth")>>

encode_view ==
  u64s(<<"capacity", "issued", "consumed", "returned", "stale", "spent", "protected_credits",
         "in_flight", "outstanding", "available">>) \o <<boolean("closed")>>

decode_view ==
  u64s(<<"capacity", "issued", "consumed", "returned", "stale", "spent", "protected_credits",
         "in_flight", "outstanding", "available">>) \o <<boolean("closed")>>

encode_request_body ==
  <<digest("attempt"), u8("op"), u64("sequence"), part("authority", encode_authority),
    u64("publisher"), u64("boot"), u64("id"),
    u64("resource"), u64("producer"), u64("consumer"), u64("grant"), u64("target"),
    u64("count"), u64("new_capacity"), digest("proof"), digest("expected_state"),
    part("config", encode_account_config), u8("decision"), u16("fence_cause"), text("note", NoteCeiling)>>

decode_request_body(max_bytes) ==
  <<digest("attempt"), is_valid_op("op"), u64("sequence"), part("authority", decode_authority),
    u64("publisher"), u64("boot"), u64("id"),
    u64("resource"), u64("producer"), u64("consumer"), u64("grant"), u64("target"),
    u64("count"), u64("new_capacity"), digest("proof"), digest("expected_state"),
    part("config", decode_account_config), at_most("decision", 1, 2), is_valid_reason("fence_cause"),
    text("note", max_bytes)>>

encode_outcome_body ==
  <<u16("reason"), u64("detail"), u8("op"), u64("sequence"), boolean("applied"), boolean("duplicate"),
    boolean("decided"), part("authority", encode_authority), part("view", encode_view),
    digest("state_digest"), u64("ambiguous_pending")>>

decode_outcome_body ==
  <<is_valid_reason("reason"), u64("detail"), is_valid_op("op"), u64("sequence"), boolean("applied"),
    boolean("duplicate"), boolean("decided"), part("authority", decode_authority),
    part("view", decode_view), digest("state_digest"), u64("ambiguous_pending")>>

encode_hello == <<u64("publisher"), u64("boot"), text("label", kMaxLabelBytes)>>
decode_hello == <<u64("publisher"), u64("boot"), text("label", kMaxLabelBytes)>>

encode_hello_ack ==
  <<u32("session"), digest("challenge"), u32("max_payload"), u32("format_version"),
    text("server_label", kMaxLabelBytes)>>

decode_hello_ack ==
  <<u32("session"), digest("challenge"), u32("max_payload"), u32("format_version"),
    text("server_label", kMaxLabelBytes)>>

-----------------------------------------------------------------------------
(* record.cpp: the durable records.                                        *)

encode_totals == u64s(<<"issued", "consumed", "returned", "stale", "spent", "protected_credits">>)
decode_totals == u64s(<<"issued", "consumed", "returned", "stale", "spent", "protected_credits">>)

encode_incarnation ==
  <<u64("id"), u64("publisher"), u64("boot"), u8("state"), u64("reconciled_epoch"),
    u64("reconciled_generation"), digest("reconciliation_proof"), u64("producer"), u64("consumer"),
    u64("grant"), u64("last_sequence"), u64("committed_ops"), u64("refused_ops"), u64("fenced_at_sequence")>>

\* The two counters are read in the other order.
decode_incarnation_swapped ==
  <<u64("id"), u64("publisher"), u64("boot"), at_most("state", 1, 3), u64("reconciled_epoch"),
    u64("reconciled_generation"), digest("reconciliation_proof"), u64("producer"), u64("consumer"),
    u64("grant"), u64("last_sequence"), u64("refused_ops"), u64("committed_ops"), u64("fenced_at_sequence")>>

decode_incarnation ==
  <<u64("id"), u64("publisher"), u64("boot"), at_most("state", 1, 3), u64("reconciled_epoch"),
    u64("reconciled_generation"), digest("reconciliation_proof"), u64("producer"), u64("consumer"),
    u64("grant"), u64("last_sequence"), u64("committed_ops"), u64("refused_ops"), u64("fenced_at_sequence")>>

encode_fence ==
  <<u64("incarnation"), u64("epoch"), u64("generation"), u16("cause"), u64("sequence"), u64("fenced_credit")>>

decode_fence ==
  <<u64("incarnation"), u64("epoch"), u64("generation"), is_valid_reason("cause"), u64("sequence"),
    u64("fenced_credit")>>

encode_ambiguous ==
  <<digest("attempt"), u8("op"), u64("sequence"), u64("incarnation"), u64("journal_sequence")>>

decode_ambiguous ==
  <<digest("attempt"), is_valid_op("op"), u64("sequence"), u64("incarnation"), u64("journal_sequence")>>

encode_account ==
  <<part("config", encode_account_config), u64("epoch"), u64("generation"), u64("capacity"),
    part("totals", encode_totals), boolean("hard_exhausted"), u16("exhaustion_cause"), digest("state_digest"),
    list("incarnations", 0, encode_incarnation), list("fences", 0, encode_fence),
    list("ambiguous", 0, encode_ambiguous), u64("committed_attempts"), u64("refused_attempts"),
    list("attempt_window", 0, u64s(<<"incarnation", "sequence">>))>>

decode_account ==
  <<part("config", decode_account_config), u64("epoch"), u64("generation"), u64("capacity"),
    part("totals", decode_totals), boolean("hard_exhausted"), is_valid_reason("exhaustion_cause"),
    digest("state_digest"),
    list("incarnations", 112, decode_incarnation), list("fences", 40, decode_fence),
    list("ambiguous", 40, decode_ambiguous), u64("committed_attempts"), u64("refused_attempts"),
    list("attempt_window", 16, u64s(<<"incarnation", "sequence">>))>>

encode_durable_attempt ==
  <<part("request", encode_request_body), part("outcome", encode_outcome_body), boolean("has_account"),
    boolean("created_account"), if_set("has_account", "account", encode_account),
    u64("engine_applied_attempts"), u64("engine_refused_attempts")>>

decode_durable_attempt ==
  <<part("request", decode_request_body(NoteCeiling)), part("outcome", decode_outcome_body),
    boolean("has_account"), boolean("created_account"), if_set("has_account", "account", decode_account),
    u64("engine_applied_attempts"), u64("engine_refused_attempts")>>

encode_durable_state ==
  <<u64("journal_sequence"), digest("chain"), u64("snapshots"), digest("state_digest"),
    blocks("accounts", 0, encode_account)>>

decode_durable_state ==
  <<u64("journal_sequence"), digest("chain"), u64("snapshots"), digest("state_digest"),
    blocks("accounts", 4, decode_account)>>

-----------------------------------------------------------------------------
(* What is encoded, with which limits, and decoded.  An Intent is a request *)
(* that recover reads with the limits of its own process.                   *)

Kinds == {"Hello", "HelloAck", "Request", "Response", "Intent", "Attempt", "Snapshot"}

encoder(k) ==
  CASE k = "Hello" -> encode_hello
    [] k = "HelloAck" -> encode_hello_ack
    [] k \in {"Request", "Intent"} -> encode_request_body
    [] k = "Response" -> encode_outcome_body
    [] k = "Attempt" -> encode_durable_attempt
    [] k = "Snapshot" -> encode_durable_state

decoder(k) ==
  CASE k = "Hello" -> decode_hello
    [] k = "HelloAck" -> decode_hello_ack
    [] k = "Request" -> decode_request_body(max_note_bytes)
    [] k = "Intent" -> decode_request_body(RecoveryNotes)
    [] k = "Response" -> decode_outcome_body
    [] k = "Attempt" -> decode_durable_attempt
    [] k = "Snapshot" -> decode_durable_state

\* What a decoder asks of the fields together, once it has read them.
coherent(k, value) ==
  CASE k = "Hello" -> value.publisher # 0 /\ value.boot # 0
    [] k = "HelloAck" -> value.challenge # [lo |-> 0, hi |-> 0]
    [] k = "Attempt" -> value.created_account => value.has_account /\ value.outcome.applied
    [] OTHER -> TRUE

\* What is left over is not looked at.
ends_anywhere(reader) == TRUE

ends(reader) == done(reader)

decode(k, data) ==
  LET reader == read(decoder(k), ByteReader(data, 1, Len(data)))
  IN  [ok |-> reader.ok /\ ends(reader) /\ coherent(k, reader.value),
       value |-> reader.value, reserved |-> reader.reserved]

-----------------------------------------------------------------------------
(* The messages tried.  The fields of a message have distinct values as    *)
(* far as their ranges allow; the flags take turns, a text and a list grow *)
(* with the number of the sample, and sample 3 has every number at its     *)
(* highest.                                                                *)

Least(m, n) == IF m < n THEN m ELSE n

RECURSIVE fields(_, _, _)

field(step, s, n) ==
  CASE step[1] = "number" -> IF s = 3 THEN step[4] ELSE (n + s) % (step[4] + 1)
    [] step[1] = "flag" -> (n + s) % 3 = 0
    [] step[1] = "text" -> [i \in 1..Least(s, step[3]) |-> (n + i) % Base]
    [] step[1] = "part" -> fields(step[3], s, 19 * n)
    [] step[1] = "if_set" -> IF s = 0 THEN <<>> ELSE fields(step[4], s, 19 * n)
    [] step[1] \in {"list", "blocks"} -> [i \in 1..Least(s, MaxItems) |-> fields(step[4], s, 19 * n + 7 * i)]

fields(layout, s, n) ==
  [name \in {layout[i][2] : i \in DOMAIN layout} |->
     LET i == CHOOSE j \in DOMAIN layout : layout[j][2] = name IN field(layout[i], s, n + i)]

Message(k, s) ==
  LET message == fields(decoder(k), s, 1)
  IN  CASE k = "Attempt" -> [message EXCEPT !.has_account = s > 0, !.created_account = s > 1,
                                            !.outcome.applied = s > 1]
        [] k = "Intent" -> [message EXCEPT !.note = [i \in 1..Least(s, max_note_bytes) |-> 1]]
        [] OTHER -> message

-----------------------------------------------------------------------------
Undecoded == [ok |-> FALSE, value |-> <<>>, reserved |-> 0]

Init ==
  /\ kind \in Kinds /\ sample \in Samples
  /\ bytes = write(encoder(kind), Message(kind, sample))
  /\ fault = "none"
  /\ result = Undecoded

Faults == fault = "none" /\ result = Undecoded /\ sample \in Faulty

\* A byte is changed.
Damage ==
  /\ Faults
  /\ \E i \in DOMAIN bytes, b \in Damages :
       bytes[i] # b /\ bytes' = [bytes EXCEPT ![i] = b]
  /\ fault' = "changed"
  /\ UNCHANGED <<kind, sample, result>>

\* The end is missing.
Truncate ==
  /\ Faults
  /\ \E n \in 0..Len(bytes) - 1 : bytes' = SubSeq(bytes, 1, n)
  /\ fault' = "cut"
  /\ UNCHANGED <<kind, sample, result>>

\* There is more than there should be.
Extend ==
  /\ Faults
  /\ \E b \in Damages : bytes' = Append(bytes, b)
  /\ fault' = "grown"
  /\ UNCHANGED <<kind, sample, result>>

Decode ==
  /\ result = Undecoded
  /\ result' = decode(kind, bytes)
  /\ fault' = IF fault = "none" THEN "intact" ELSE fault
  /\ UNCHANGED <<kind, sample, bytes>>

Next == Damage \/ Truncate \/ Extend \/ Decode

Spec == Init /\ [][Next]_vars

-----------------------------------------------------------------------------
(* Properties.                                                             *)

(***************************************************************************)
(* What was encoded is decoded to the same fields: every encoder writes    *)
(* its fields in the order, the widths and the number its decoder reads,   *)
(* and within the limits its decoder sets.                                 *)
(***************************************************************************)
RoundTrip == fault = "intact" => result.ok /\ result.value = Message(kind, sample)

(***************************************************************************)
(* Bytes that are accepted, damaged or not, are the encoding of what was   *)
(* decoded from them: no two inputs mean the same, so a digest or a        *)
(* checksum of the bytes is one of the meaning.                            *)
(***************************************************************************)
Canonical == result.ok => bytes = write(encoder(kind), result.value)

(***************************************************************************)
(* No input that is cut short or followed by more is accepted: a decoder   *)
(* takes all of its input or refuses it.                                   *)
(***************************************************************************)
SelfDelimiting == fault \in {"cut", "grown"} => ~result.ok

(***************************************************************************)
(* A damaged count reserves no more than the input could hold: what the    *)
(* collections reserve before they are read, at the least size of their    *)
(* elements, is within the bytes there are.                                *)
(***************************************************************************)
ReservesWhatIsThere == result.reserved <= Len(bytes)
=============================================================================
