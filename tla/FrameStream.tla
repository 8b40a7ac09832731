---------------------------- MODULE FrameStream ----------------------------
(***************************************************************************)
(* One direction of a connection: send_frame at one end, recv_frame at the *)
(* other, over a stream of bytes that takes and gives any number of them   *)
(* at a time.  The server's calls are given its stop flag, the client's    *)
(* are not; `server' says which end the server is.                         *)
(*                                                                         *)
(*   sent        the frames handed to send_frame, in order                 *)
(*   rest        what write_all has not written of the last one            *)
(*   pipe        the bytes that are written and not read                   *)
(*   frame       what recv_frame has read of the frame it is receiving     *)
(*   delivered   the frames recv_frame returned, in order                  *)
(*   call        where each end is: "idle" (in no call), "write", "header" *)
(*               or "body" (in write_all, in the first or in the second    *)
(*               read_exact), or the status its last call ended with       *)
(*   open        which ends hold their socket                              *)
(*   stopping    the server's stop flag                                    *)
(*   broken      the connection has failed                                 *)
(*   damaged     a byte was changed on the way                             *)
(*                                                                         *)
(* A field of the header is one cell, and so is a byte of the payload; the *)
(* checksum is two cells, and equal to another only if it is that of the   *)
(* same bytes.                                                             *)
(***************************************************************************)
EXTENDS Naturals, Sequences

CONSTANTS
  Types,           \* message types in use, "Bye" among them
  OtherType,       \* a type byte that is no MessageType
  MaxPayload,      \* the receiver's limit
  MaxSentPayload,  \* bound on the payloads sent; above MaxPayload
  MaxFrames,       \* bound on the frames sent
  PipeSize         \* what the sockets buffer between the two ends

ASSUME StreamAssumption ==
  /\ "Bye" \in Types /\ OtherType \notin Types
  /\ MaxPayload \in Nat /\ MaxSentPayload \in Nat
  /\ MaxFrames \in Nat /\ PipeSize \in Nat \ {0}

VARIABLES server, sent, rest, pipe, frame, delivered, call, open, stopping, broken, damaged

vars == <<server, sent, rest, pipe, frame, delivered, call, open, stopping, broken, damaged>>

Ends == {"sender", "receiver"}

Init ==
  /\ server \in Ends
  /\ sent = <<>> /\ rest = <<>> /\ pipe = <<>> /\ frame = <<>> /\ delivered = <<>>
  /\ call = [e \in Ends |-> "idle"]
  /\ open = [e \in Ends |-> TRUE]
  /\ stopping = FALSE /\ broken = FALSE /\ damaged = FALSE

-----------------------------------------------------------------------------
(* wire.cpp: the frame.                                                    *)

kFrameHeaderBytes == 5
kFrameTrailerBytes == 2
kFrameOverheadBytes == kFrameHeaderBytes + kFrameTrailerBytes

crc32c(bytes) == <<<<"crc", 1, bytes>>, <<"crc", 2, bytes>>>>

write_header(message) ==
  << <<"magic", "CFR1">>, <<"version", "current">>, <<"type", message.type>>,
     <<"flags", 0>>, <<"length", Len(message.payload)>> >>

encode_frame(message) ==
  LET bytes == write_header(message) \o message.payload
  IN  bytes \o crc32c(bytes)

payload_length(bytes) == bytes[5][2]

oversized(bytes) == payload_length(bytes) > MaxPayload

header_verdict(bytes) ==
  IF bytes[1] # <<"magic", "CFR1">> THEN "MalformedMessage"
  ELSE IF bytes[2] # <<"version", "current">> THEN "UnsupportedVersion"
  ELSE IF bytes[4] # <<"flags", 0>> THEN "MalformedMessage"
  ELSE IF oversized(bytes) THEN "OversizedFrame"
  ELSE "Ok"

total(bytes) == kFrameOverheadBytes + payload_length(bytes)

\* The checksum is read past and not compared.
unchecked(bytes) == TRUE

checksum_holds(bytes) ==
  LET covered == SubSeq(bytes, 1, kFrameHeaderBytes + payload_length(bytes))
  IN  SubSeq(bytes, Len(covered) + 1, total(bytes)) = crc32c(covered)

\* decode_frame looks at the header again, and at the type between its version and flags.
decode_frame(bytes) ==
  IF Len(bytes) < kFrameOverheadBytes THEN "TruncatedInput"
  ELSE IF bytes[3][2] \notin Types /\ header_verdict(bytes) # "UnsupportedVersion" THEN "MalformedMessage"
  ELSE IF header_verdict(bytes) # "Ok" THEN header_verdict(bytes)
  ELSE IF Len(bytes) < total(bytes) THEN "TruncatedInput"
  ELSE IF ~checksum_holds(bytes) THEN "ChecksumMismatch"
  ELSE "Ok"

message_of(bytes) ==
  [type |-> bytes[3][2],
   payload |-> SubSeq(bytes, kFrameHeaderBytes + 1, total(bytes) - kFrameTrailerBytes)]

-----------------------------------------------------------------------------
(* The sending end.  One iteration of the loop in write_all is one step;   *)
(* an iteration that finds the socket not ready changes nothing.           *)

InCall == {"write", "header", "body"}

Become(e, state) == call' = [call EXCEPT ![e] = state]

\* A Bye is empty, and the last frame of its sender.
Messages ==
  {[type |-> t, payload |-> [i \in 1..n |-> <<"payload", "a">>]] :
     t \in Types \ {"Bye"}, n \in 0..MaxSentPayload}
  \cup {[type |-> "Bye", payload |-> <<>>]}

Leaving == sent # <<>> /\ sent[Len(sent)].type = "Bye"

send_frame(message) ==
  /\ call["sender"] = "idle" /\ open["sender"]
  /\ Len(sent) < MaxFrames /\ ~Leaving
  /\ sent' = Append(sent, message)
  /\ rest' = encode_frame(message)
  /\ Become("sender", "write")
  /\ UNCHANGED <<server, pipe, frame, delivered, open, stopping, broken, damaged>>

\* The stop flag is never looked at.
deaf(e) == FALSE

stop_seen(e) == stopping /\ server = e

StopCall(e) ==
  /\ call[e] \in InCall /\ stop_seen(e)
  /\ Become(e, "ShutdownInProgress")
  /\ UNCHANGED <<server, sent, rest, pipe, frame, delivered, open, stopping, broken, damaged>>

Write(k) ==
  /\ call["sender"] = "write" /\ ~stop_seen("sender") /\ ~broken
  /\ k <= Len(rest) /\ Len(pipe) + k <= PipeSize
  /\ pipe' = pipe \o SubSeq(rest, 1, k)
  /\ rest' = SubSeq(rest, k + 1, Len(rest))
  /\ Become("sender", IF k = Len(rest) THEN "idle" ELSE "write")
  /\ UNCHANGED <<server, sent, frame, delivered, open, stopping, broken, damaged>>

\* An error of send is taken for a socket that is not ready.
error_retried == FALSE

send_error == broken \/ ~open["receiver"]

WriteFails ==
  /\ call["sender"] = "write" /\ ~stop_seen("sender") /\ send_error
  /\ Become("sender", "TransportError")
  /\ UNCHANGED <<server, sent, rest, pipe, frame, delivered, open, stopping, broken, damaged>>

-----------------------------------------------------------------------------
(* The receiving end: the loop in read_exact, twice per frame.             *)

recv_frame ==
  /\ call["receiver"] = "idle" /\ open["receiver"]
  /\ frame' = <<>>
  /\ Become("receiver", "header")
  /\ UNCHANGED <<server, sent, rest, pipe, delivered, open, stopping, broken, damaged>>

\* How far this read_exact has come, and how far it has to go.
offset == IF call["receiver"] = "header" THEN Len(frame) ELSE Len(frame) - kFrameHeaderBytes

count == IF call["receiver"] = "header" THEN kFrameHeaderBytes
         ELSE payload_length(frame) + kFrameTrailerBytes

Reading == call["receiver"] \in {"header", "body"} /\ ~stop_seen("receiver")

\* What recv_frame does once a read_exact has all it asked for.
Complete(bytes) ==
  IF call["receiver"] = "header"
    THEN /\ Become("receiver", IF header_verdict(bytes) = "Ok" THEN "body" ELSE header_verdict(bytes))
         /\ frame' = bytes
         /\ UNCHANGED delivered
    ELSE IF decode_frame(bytes) = "Ok"
           THEN /\ Become("receiver", "idle")
                /\ frame' = <<>>
                /\ delivered' = Append(delivered, message_of(bytes))
           ELSE /\ Become("receiver", decode_frame(bytes))
                /\ frame' = bytes
                /\ UNCHANGED delivered

Read(k) ==
  /\ Reading /\ ~broken
  /\ k <= count - offset /\ k <= Len(pipe)
  /\ pipe' = SubSeq(pipe, k + 1, Len(pipe))
  /\ LET bytes == frame \o SubSeq(pipe, 1, k)
     IN  IF k = count - offset THEN Complete(bytes)
         ELSE frame' = bytes /\ UNCHANGED <<call, delivered>>
  /\ UNCHANGED <<server, sent, rest, open, stopping, broken, damaged>>

\* The stream's end is clean wherever it comes.
always_closed == "closed"

end_of_stream == IF offset = 0 THEN "closed" ELSE "TruncatedInput"

ReadEnd ==
  /\ Reading /\ ~broken
  /\ pipe = <<>> /\ ~open["sender"]
  /\ Become("receiver", end_of_stream)
  /\ UNCHANGED <<server, sent, rest, pipe, frame, delivered, open, stopping, broken, damaged>>

ReadFails ==
  /\ Reading /\ broken
  /\ Become("receiver", "TransportError")
  /\ UNCHANGED <<server, sent, rest, pipe, frame, delivered, open, stopping, broken, damaged>>

-----------------------------------------------------------------------------
(* The owners of the two ends, and the connection.                         *)

\* serve_connection closes after a call that failed; a client when it likes.
Close(e) ==
  /\ open[e] /\ call[e] \notin InCall
  /\ open' = [open EXCEPT ![e] = FALSE]
  /\ UNCHANGED <<server, sent, rest, pipe, frame, delivered, call, stopping, broken, damaged>>

\* A process ends inside a call, by the SIGPIPE of a send to a closed peer too.
Kill(e) ==
  /\ call[e] \in InCall
  /\ open' = [open EXCEPT ![e] = FALSE]
  /\ Become(e, "killed")
  /\ UNCHANGED <<server, sent, rest, pipe, frame, delivered, stopping, broken, damaged>>

Stop ==
  /\ ~stopping /\ open[server]
  /\ stopping' = TRUE
  /\ UNCHANGED <<server, sent, rest, pipe, frame, delivered, call, open, broken, damaged>>

Break ==
  /\ ~broken /\ \A e \in Ends : open[e]
  /\ broken' = TRUE
  /\ UNCHANGED <<server, sent, rest, pipe, frame, delivered, call, open, stopping, damaged>>

OtherValues(cell) ==
  CASE cell[1] = "type" -> {<<"type", t>> : t \in Types \cup {OtherType}} \ {cell}
    [] cell[1] = "length" -> {<<"length", n>> : n \in 0..MaxSentPayload} \ {cell}
    [] cell[1] = "flags" -> {<<"flags", 1>>}
    [] cell[1] = "crc" -> {<<"crc", cell[2], <<>> >>}
    [] OTHER -> {<<cell[1], "other">>}

Damage ==
  /\ ~damaged
  /\ damaged' = TRUE
  /\ \E i \in DOMAIN pipe : \E value \in OtherValues(pipe[i]) : pipe' = [pipe EXCEPT ![i] = value]
  /\ UNCHANGED <<server, sent, rest, frame, delivered, call, open, stopping, broken>>

SenderStep == StopCall("sender") \/ (\E k \in 1..PipeSize : Write(k)) \/ WriteFails

ReceiverStep == StopCall("receiver") \/ (\E k \in 1..PipeSize : Read(k)) \/ ReadEnd \/ ReadFails

Next ==
  \/ \E message \in Messages : send_frame(message)
  \/ SenderStep
  \/ recv_frame
  \/ ReceiverStep
  \/ \E e \in Ends : Close(e) \/ Kill(e)
  \/ Stop \/ Break \/ Damage

(***************************************************************************)
(* A thread inside a call goes on: wait_ready returns within its interval. *)
(* serve_connection calls recv_frame again after each frame, and closes    *)
(* its socket after a call that failed.  A client owes nothing.            *)
(***************************************************************************)
Fairness ==
  /\ WF_vars(SenderStep)
  /\ WF_vars(ReceiverStep)
  /\ WF_vars(server = "receiver" /\ recv_frame)
  /\ WF_vars(\E e \in Ends : server = e /\ call[e] # "idle" /\ Close(e))

Spec == Init /\ [][Next]_vars /\ Fairness

-----------------------------------------------------------------------------
(* Properties.                                                             *)

Statuses ==
  {"Ok", "closed", "killed", "ShutdownInProgress", "TransportError", "TruncatedInput",
   "MalformedMessage", "UnsupportedVersion", "OversizedFrame", "ChecksumMismatch"}

(***************************************************************************)
(* The types, with the bound recv_frame keeps: the buffer it sizes from a  *)
(* length it has been sent is no larger than the receiver's limit allows.  *)
(***************************************************************************)
TypeOK ==
  /\ server \in Ends /\ stopping \in BOOLEAN /\ broken \in BOOLEAN /\ damaged \in BOOLEAN
  /\ call \in [Ends -> {"idle"} \cup InCall \cup Statuses]
  /\ open \in [Ends -> BOOLEAN]
  /\ Len(pipe) <= PipeSize
  /\ call["receiver"] = "header" => Len(frame) < kFrameHeaderBytes
  /\ call["receiver"] = "body" =>
       kFrameHeaderBytes + count <= kFrameOverheadBytes + MaxPayload /\ offset < count

(***************************************************************************)
(* recv_frame returns the frames that were sent, unchanged, each once and  *)
(* in order, however the stream cuts and joins them, whatever byte is      *)
(* damaged and wherever either end stops: after a bad frame it returns     *)
(* nothing more.                                                           *)
(***************************************************************************)
DeliveredInOrder ==
  Len(delivered) <= Len(sent) /\ delivered = SubSeq(sent, 1, Len(delivered))

\* The frames that were written to the end, and how much of the next was.
Whole == Len(sent) - (IF rest = <<>> THEN 0 ELSE 1)
Torn == IF rest = <<>> THEN 0 ELSE Len(encode_frame(sent[Len(sent)])) - Len(rest)

(***************************************************************************)
(* When recv_frame reports a clean close it has returned every frame that  *)
(* was written whole, and the stream was not cut inside a header, a        *)
(* payload or a checksum: only at the start of a read_exact.               *)
(***************************************************************************)
CleanClose ==
  call["receiver"] = "closed" => Len(delivered) = Whole /\ Torn \in {0, kFrameHeaderBytes}

(***************************************************************************)
(* A set stop flag ends the server's call, whatever the client does: one   *)
(* that neither reads, nor writes, nor closes included.                    *)
(***************************************************************************)
StopEndsCall == stopping ~> \A e \in Ends : server = e => call[e] \notin InCall

(***************************************************************************)
(* A client's send ends although it is given no stop flag: the server      *)
(* takes what is written, or closes.                                       *)
(***************************************************************************)
ClientSendEnds == (server = "receiver" /\ call["sender"] = "write") ~> call["sender"] # "write"

(***************************************************************************)
(* Anything but a whole valid frame closes the connection with a named     *)
(* refusal (wire.hpp:14).  A stream that ends right after a header is      *)
(* reported as closed and Ok: the second read_exact starts its own offset. *)
(***************************************************************************)
TornIsRefused == call["receiver"] = "closed" => Torn = 0
=============================================================================
