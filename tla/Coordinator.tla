---------------------------- MODULE Coordinator ----------------------------
(***************************************************************************)
(* CoordinatorServer: the accept thread, one thread per connection and the *)
(* thread that calls start and stop, over sockets whose peers may be slow, *)
(* silent or gone.  The engine is behind its own mutex and is only counted *)
(* here; what a request does is CreditEngine.                              *)
(*                                                                         *)
(*   running, stopping   the server's atomic flags                         *)
(*   listener            open: its socket is bound; stopping: its flag     *)
(*   acceptor            where the accept thread is; "none": not joinable  *)
(*   current             the connection the accept thread is admitting     *)
(*   control             where the thread that calls stop is               *)
(*   workers, draining   workers_, and what stop has swapped out of it     *)
(*   worker              where the thread of a connection is               *)
(*   peer                the connection as its peer sees it                *)
(*   inbox               the frames a peer has sent and nobody has read    *)
(*   applied, answered   requests of a connection that the engine has been *)
(*                       given, and responses that were sent in full       *)
(*   sent, starts        frames sent and starts, for the bounds            *)
(*                                                                         *)
(* The registry mutex is held for one access to workers_ at a time, so     *)
(* these are atomic.  A frame is read to its end or not at all: recv_frame *)
(* consults the stop flag before each of its reads.                        *)
(***************************************************************************)
EXTENDS Naturals, Sequences, FiniteSets

CONSTANTS
  Peers,           \* the connections that are made to the server
  MaxConnections,  \* CoordinatorOptions::max_connections
  MaxServed,       \* CoordinatorOptions::max_requests_per_connection, 0 for no limit
  Frames,          \* the kinds of frame that peers send
  AcceptErrors,    \* whether accept may fail
  MaxFrames,       \* bound on the frames that peers send
  MaxStarts        \* bound on the calls of start

ASSUME CoordinatorAssumption ==
  /\ IsFiniteSet(Peers)
  /\ MaxConnections \in Nat \ {0} /\ MaxServed \in Nat
  /\ Frames \subseteq {"Hello", "Request", "Invalid", "Odd", "Damaged", "Bye"}
  /\ AcceptErrors \in BOOLEAN /\ MaxFrames \in Nat /\ MaxStarts \in Nat

VARIABLES running, stopping, listener, acceptor, current, control,
          workers, draining, worker, peer, inbox, applied, answered, sent, starts

server == <<running, stopping, listener, acceptor, current, control, workers, draining>>

connections == <<worker, peer, inbox, applied, answered, sent>>

vars == <<server, connections, starts>>

Init ==
  /\ running = FALSE /\ stopping = FALSE
  /\ listener = [open |-> FALSE, stopping |-> FALSE]
  /\ acceptor = "none" /\ current = {} /\ control = "idle"
  /\ workers = {} /\ draining = {}
  /\ worker = [c \in Peers |-> "none"] /\ peer = [c \in Peers |-> "away"]
  /\ inbox = [c \in Peers |-> <<>>]
  /\ applied = [c \in Peers |-> 0] /\ answered = [c \in Peers |-> 0]
  /\ sent = 0 /\ starts = 0

-----------------------------------------------------------------------------
(* The peers.                                                              *)

Connect(c) ==
  /\ peer[c] = "away" /\ listener.open
  /\ peer' = [peer EXCEPT ![c] = "backlog"]
  /\ UNCHANGED <<server, worker, inbox, applied, answered, sent, starts>>

SendFrame(c, frame) ==
  /\ peer[c] \in {"backlog", "open"} /\ sent < MaxFrames
  /\ inbox' = [inbox EXCEPT ![c] = Append(@, frame)]
  /\ sent' = sent + 1
  /\ UNCHANGED <<server, worker, peer, applied, answered, starts>>

HangUp(c) ==
  /\ peer[c] = "open"
  /\ peer' = [peer EXCEPT ![c] = "gone"]
  /\ UNCHANGED <<server, worker, inbox, applied, answered, sent, starts>>

-----------------------------------------------------------------------------
(* start, and the accept thread: accept_loop with Listener::accept.        *)

Start ==
  /\ control = "idle" /\ ~running /\ starts < MaxStarts
  /\ listener' = [listener EXCEPT !.open = TRUE]
  /\ stopping' = FALSE /\ running' = TRUE
  /\ acceptor' = "check"
  /\ starts' = starts + 1
  /\ UNCHANGED <<current, control, workers, draining, connections>>

AcceptLoop ==
  /\ acceptor = "check"
  /\ acceptor' = IF stopping THEN "ended" ELSE "accept"
  /\ UNCHANGED <<running, stopping, listener, current, control, workers, draining, connections, starts>>

\* The listener's own flag, or a socket error, ends the loop.
AcceptEnds ==
  /\ acceptor = "accept" /\ (listener.stopping \/ AcceptErrors)
  /\ acceptor' = "ended"
  /\ UNCHANGED <<running, stopping, listener, current, control, workers, draining, connections, starts>>

Accept(c) ==
  /\ acceptor = "accept" /\ ~listener.stopping /\ peer[c] = "backlog"
  /\ acceptor' = "admit" /\ current' = {c}
  /\ peer' = [peer EXCEPT ![c] = "open"]
  /\ UNCHANGED <<running, stopping, listener, control, workers, draining,
                 worker, inbox, applied, answered, sent, starts>>

\* Mutant: the limit is compared one connection too late.
full_late == Cardinality(workers) > MaxConnections

\* active_connections() >= options_.max_connections
full == Cardinality(workers) >= MaxConnections

TurnAway(c) ==
  /\ acceptor = "admit" /\ c \in current /\ full
  /\ acceptor' = "check" /\ current' = {}
  /\ peer' = [peer EXCEPT ![c] = "turned_away"]
  /\ UNCHANGED <<running, stopping, listener, control, workers, draining,
                 worker, inbox, applied, answered, sent, starts>>

\* The thread runs before it is registered.
Admit(c) ==
  /\ acceptor = "admit" /\ c \in current /\ ~full
  /\ acceptor' = "register"
  /\ worker' = [worker EXCEPT ![c] = "hello"]
  /\ UNCHANGED <<running, stopping, listener, current, control, workers, draining,
                 peer, inbox, applied, answered, sent, starts>>

register_connection ==
  /\ acceptor = "register"
  /\ workers' = workers \cup current
  /\ acceptor' = "check" /\ current' = {}
  /\ UNCHANGED <<running, stopping, listener, control, draining, connections, starts>>

-----------------------------------------------------------------------------
(* A connection's thread: serve_connection.                                *)

Move(c, place) ==
  /\ worker' = [worker EXCEPT ![c] = place]
  /\ UNCHANGED <<server, starts>>

\* Where a frame takes the thread: the handshake first, then the loop.
After(place, frame) ==
  CASE place = "hello"   -> IF frame = "Hello" THEN "ack" ELSE "close"
    [] frame = "Request" -> "apply"
    [] frame \in {"Invalid", "Odd", "Hello"} -> "reject"
    [] OTHER             -> "close"

recv_frame(c) ==
  /\ worker[c] \in {"hello", "loop"} /\ ~stopping /\ inbox[c] # <<>>
  /\ Move(c, After(worker[c], Head(inbox[c])))
  /\ inbox' = [inbox EXCEPT ![c] = Tail(@)]
  /\ UNCHANGED <<peer, applied, answered, sent>>

\* Mutant: a quiet peer is waited for, whatever the stop flag says.
recv_blocks(c) == peer[c] = "gone" /\ inbox[c] = <<>>

\* The peer has closed, or the wait was interrupted by the stop flag.
recv_ends(c) == stopping \/ (peer[c] = "gone" /\ inbox[c] = <<>>)

RecvEnds(c) ==
  /\ worker[c] \in {"hello", "loop"} /\ recv_ends(c)
  /\ Move(c, "close")
  /\ UNCHANGED <<peer, inbox, applied, answered, sent>>

Apply(c) ==
  /\ worker[c] = "apply"
  /\ applied' = [applied EXCEPT ![c] = @ + 1]
  /\ Move(c, "answer")
  /\ UNCHANGED <<peer, inbox, answered, sent>>

\* The acknowledgement of the handshake, a response, or the last refusal.
Send(c) ==
  /\ worker[c] \in {"ack", "answer", "reject"} /\ ~stopping /\ peer[c] = "open"
  /\ answered' = IF worker[c] = "answer" THEN [answered EXCEPT ![c] = @ + 1] ELSE answered
  /\ Move(c, IF worker[c] = "reject" THEN "close"
             ELSE IF MaxServed # 0 /\ answered'[c] >= MaxServed THEN "close" ELSE "loop")
  /\ UNCHANGED <<peer, inbox, applied, sent>>

\* Mutant: the result of send_frame is not looked at.
unsent_goes_on(c) == "loop"

\* Where a thread goes when it could not send.
unsent(c) == "close"

\* send_frame returns an error: the stop flag, or a peer that has closed.  This
\* is a process that ignores SIGPIPE: transport.cpp sends without MSG_NOSIGNAL
\* and nothing sets the signal's disposition, so on POSIX the second send to a
\* closed peer ends a process that does not.  The other way to the same close,
\* a response that cannot be encoded, is not taken: encode_response_message
\* returns no error.
SendFails(c) ==
  /\ worker[c] \in {"ack", "answer", "reject"} /\ (stopping \/ peer[c] = "gone")
  /\ Move(c, unsent(c))
  /\ UNCHANGED <<peer, inbox, applied, answered, sent>>

Close(c) ==
  /\ worker[c] = "close"
  /\ Move(c, "ended")
  /\ peer' = [peer EXCEPT ![c] = "gone"]
  /\ UNCHANGED <<inbox, applied, answered, sent>>

-----------------------------------------------------------------------------
(* stop, by the thread that owns the server.                               *)

\* Nothing runs: there is nothing to stop.
stop ==
  /\ control = "idle" /\ (running \/ acceptor # "none")
  /\ stopping' = TRUE
  /\ control' = "signal"
  /\ UNCHANGED <<running, listener, acceptor, current, workers, draining, connections, starts>>

stop_accepting ==
  /\ control = "signal"
  /\ listener' = [listener EXCEPT !.stopping = TRUE]
  /\ control' = "join"
  /\ UNCHANGED <<running, stopping, acceptor, current, workers, draining, connections, starts>>

\* Mutant: the accept thread is not waited for.
acceptor_joined_early == TRUE

\* accept_thread_.join() returns.
acceptor_joined == acceptor = "ended"

\* Mutant: the listener's socket is not closed.
backlog_kept == peer

\* listener_.close(): the connections in the backlog are reset.
backlog_closed == [c \in Peers |-> IF peer[c] = "backlog" THEN "gone" ELSE peer[c]]

\* The join, then the listener's socket goes and with it the backlog.
JoinAcceptor ==
  /\ control = "join" /\ acceptor_joined
  /\ acceptor' = "none"
  /\ listener' = [listener EXCEPT !.open = FALSE]
  /\ peer' = backlog_closed
  /\ control' = "drain"
  /\ UNCHANGED <<running, stopping, current, workers, draining,
                 worker, inbox, applied, answered, sent, starts>>

Drain ==
  /\ control = "drain"
  /\ draining' = workers /\ workers' = {}
  /\ control' = "workers"
  /\ UNCHANGED <<running, stopping, listener, acceptor, current, connections, starts>>

JoinWorkers ==
  /\ control = "workers" /\ \A c \in draining : worker[c] = "ended"
  /\ draining' = {}
  /\ running' = FALSE
  /\ control' = "idle"
  /\ UNCHANGED <<stopping, listener, acceptor, current, workers, connections, starts>>

-----------------------------------------------------------------------------
\* The steps that a thread of the server takes by itself.
AcceptorStep ==
  AcceptLoop \/ AcceptEnds \/ register_connection
    \/ \E c \in Peers : Accept(c) \/ TurnAway(c) \/ Admit(c)

StopStep == stop_accepting \/ JoinAcceptor \/ Drain \/ JoinWorkers

WorkerStep(c) == recv_frame(c) \/ RecvEnds(c) \/ Apply(c) \/ SendFails(c) \/ Close(c)

\* A peer that does not read lets nothing be sent: Send is not the server's alone.
Next ==
  \/ Start \/ stop \/ StopStep \/ AcceptorStep
  \/ \E c \in Peers : \/ WorkerStep(c) \/ Send(c) \/ Connect(c) \/ HangUp(c)
                      \/ \E frame \in Frames : SendFrame(c, frame)

Fairness ==
  /\ WF_vars(AcceptorStep) /\ WF_vars(StopStep)
  /\ \A c \in Peers : WF_vars(WorkerStep(c))

Spec == Init /\ [][Next]_vars /\ Fairness

-----------------------------------------------------------------------------
(* Properties.                                                             *)

Alive == {c \in Peers : worker[c] \notin {"none", "ended"}}

\* The places of the threads, the connections and the flags of the server.
TypeOK ==
  /\ running \in BOOLEAN /\ stopping \in BOOLEAN
  /\ listener \in [open : BOOLEAN, stopping : BOOLEAN]
  /\ acceptor \in {"none", "check", "accept", "admit", "register", "ended"}
  /\ control \in {"idle", "signal", "join", "drain", "workers"}
  /\ current \subseteq Peers /\ workers \subseteq Peers /\ draining \subseteq Peers
  /\ worker \in [Peers -> {"none", "hello", "ack", "loop", "apply", "answer", "reject",
                           "close", "ended"}]
  /\ peer \in [Peers -> {"away", "backlog", "open", "gone", "turned_away"}]
  /\ inbox \in [Peers -> Seq(Frames)]
  /\ applied \in [Peers -> Nat] /\ answered \in [Peers -> Nat]

(***************************************************************************)
(* When stop has returned, every thread of the server has ended: no        *)
(* connection that was being admitted while stop ran is left out of the    *)
(* list that stop joins.                                                   *)
(***************************************************************************)
StopJoinsAll == control = "idle" /\ ~running => Alive = {} /\ acceptor = "none"

(***************************************************************************)
(* There are never more than max_connections connection threads, and each  *)
(* of them is one that stop will join or that is about to be registered.   *)
(***************************************************************************)
ConnectionBound ==
  /\ Cardinality(Alive) <= MaxConnections
  /\ Alive \subseteq workers \cup draining \cup current

(***************************************************************************)
(* At most one request of a connection is in doubt: a request is only read *)
(* after the response to the one before it has been sent.                  *)
(***************************************************************************)
OneInDoubt == \A c \in Peers : applied[c] \in {answered[c], answered[c] + 1}

(***************************************************************************)
(* stop returns, whatever the peers do: silent, slow and half-closed ones  *)
(* included, and connections accepted while it runs, in a process that     *)
(* ignores SIGPIPE.                                                        *)
(***************************************************************************)
StopReturns == control # "idle" ~> control = "idle"

(***************************************************************************)
(* A connection does not wait in the backlog for ever: it is accepted,     *)
(* turned away, or closed with the listener, unless the accept thread has  *)
(* ended although nobody called stop (an accept error; a second start).    *)
(***************************************************************************)
Attended ==
  \A c \in Peers :
    peer[c] = "backlog" ~> (peer[c] # "backlog" \/ (acceptor = "ended" /\ ~stopping))

-----------------------------------------------------------------------------
(* What the README says and the code does not do.                          *)

(***************************************************************************)
(* The limit is on concurrent connections (README 429).  workers_ keeps    *)
(* every thread until stop, so it counts the connections there ever were.  *)
(***************************************************************************)
LimitIsConcurrent ==
  [][\A c \in Peers : peer[c] # "turned_away" /\ peer'[c] = "turned_away"
                        => Cardinality(Alive) >= MaxConnections]_vars

(***************************************************************************)
(* An attempt that gets no answer at shutdown stays undecided (README      *)
(* 365).  A request that was read before the stop flag was set is applied, *)
(* and its response is not sent once the flag is set.                      *)
(***************************************************************************)
UnansweredIsUndecided == \A c \in Peers : worker[c] = "ended" => applied[c] = answered[c]
=============================================================================
