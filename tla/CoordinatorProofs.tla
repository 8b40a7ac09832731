------------------------- MODULE CoordinatorProofs -------------------------
(***************************************************************************)
(* Proofs about Coordinator, for any number of peers, any limits and any   *)
(* interleaving of the accept thread, the connection threads and stop.     *)
(***************************************************************************)
EXTENDS Coordinator, FiniteSetTheorems, TLAPS

(***************************************************************************)
(* The accept thread has a connection in hand exactly while it admits it;  *)
(* one that it is about to admit has no thread yet.                        *)
(***************************************************************************)
InHand ==
  /\ acceptor \in {"admit", "register"} => \E c \in Peers : current = {c}
  /\ acceptor \notin {"admit", "register"} => current = {}
  /\ acceptor = "admit" => \A c \in current : worker[c] = "none"
  /\ \A c \in current : peer[c] \notin {"away", "backlog"}
  /\ \A c \in Peers : peer[c] \in {"away", "backlog"} => worker[c] = "none"

(***************************************************************************)
(* What stop has done when it is at each of its steps: the accept thread   *)
(* is gone before workers_ is swapped out, and so is all that it admitted. *)
(***************************************************************************)
Phases ==
  /\ control = "idle" /\ ~running => acceptor = "none" /\ workers = {}
  /\ control \in {"drain", "workers"} => acceptor = "none"
  /\ control = "workers" => workers = {}
  /\ control # "workers" => draining = {}

\* A thread that has not ended is registered, or the one that is about to be.
Registered ==
  \A c \in Peers : worker[c] \notin {"none", "ended"} =>
    c \in workers \/ c \in draining \/ (acceptor = "register" /\ c \in current)

\* The registry is within the limit, and has room for a thread that was started.
Room ==
  /\ Cardinality(workers) <= MaxConnections
  /\ Cardinality(draining) <= MaxConnections
  /\ acceptor = "register" => Cardinality(workers) < MaxConnections

\* Where a connection may be with a request that is applied and not answered.
InDoubt ==
  \A c \in Peers :
    /\ worker[c] = "answer" => applied[c] = answered[c] + 1
    /\ worker[c] \notin {"answer", "close", "ended"} => applied[c] = answered[c]
    /\ applied[c] \in {answered[c], answered[c] + 1}

IInv == TypeOK /\ InHand /\ Phases /\ Registered /\ Room /\ InDoubt

-----------------------------------------------------------------------------
(* The registry.                                                           *)

\* Sets of peers are finite, and have a size.
LEMMA PeersCounted ==
  ASSUME NEW S, S \subseteq Peers
  PROVE  IsFiniteSet(S) /\ Cardinality(S) \in Nat
BY FS_Subset, FS_CardinalityType, CoordinatorAssumption

\* register_connection adds at most one to the count.
LEMMA OneMore ==
  ASSUME NEW S, S \subseteq Peers, NEW c \in Peers
  PROVE  Cardinality(S \cup {c}) <= Cardinality(S) + 1
BY PeersCounted, FS_AddElement

-----------------------------------------------------------------------------
(* One lemma per thread.                                                   *)

\* A peer connects, sends or hangs up.
LEMMA PeerOK ==
  ASSUME IInv, NEW c \in Peers,
         Connect(c) \/ HangUp(c) \/ \E frame \in Frames : SendFrame(c, frame)
  PROVE  IInv'
<1>1. CASE Connect(c)
  BY <1>1 DEF Connect, server, IInv, TypeOK, InHand, Phases, Registered, Room, InDoubt
<1>2. CASE HangUp(c)
  BY <1>2 DEF HangUp, server, IInv, TypeOK, InHand, Phases, Registered, Room, InDoubt
<1>3. ASSUME NEW frame \in Frames, SendFrame(c, frame) PROVE IInv'
  <2>1. Append(inbox[c], frame) \in Seq(Frames)
    BY DEF IInv, TypeOK
  <2>2. inbox' \in [Peers -> Seq(Frames)]
    BY <1>3, <2>1 DEF SendFrame, IInv, TypeOK
  <2> QED
    BY <1>3, <2>2 DEF SendFrame, server, IInv, TypeOK, InHand, Phases, Registered, Room, InDoubt
<1> QED BY <1>1, <1>2, <1>3

\* start, and the steps of the accept thread.
LEMMA AcceptorOK ==
  ASSUME IInv, Start \/ AcceptorStep
  PROVE  IInv'
<1> USE DEF IInv, TypeOK, InHand, Phases, Registered, Room, InDoubt
<1>1. CASE Start
  BY <1>1, PeersCounted DEF Start, connections
<1>2. CASE AcceptLoop
  BY <1>2 DEF AcceptLoop, connections
<1>3. CASE AcceptEnds
  BY <1>3 DEF AcceptEnds, connections
<1>4. ASSUME NEW c \in Peers, Accept(c) PROVE IInv'
  BY <1>4 DEF Accept
<1>5. ASSUME NEW c \in Peers, TurnAway(c) PROVE IInv'
  BY <1>5 DEF TurnAway
<1>6. ASSUME NEW c \in Peers, Admit(c) PROVE IInv'
  <2>1. Cardinality(workers) \in Nat
    BY PeersCounted
  <2>2. Cardinality(workers) < MaxConnections
    BY <1>6, <2>1, CoordinatorAssumption DEF Admit, full
  <2>3. /\ acceptor = "admit" /\ acceptor' = "register"
        /\ worker' = [worker EXCEPT ![c] = "hello"]
        /\ current = {c} /\ worker[c] = "none"
        /\ UNCHANGED <<running, stopping, listener, current, control, workers, draining,
                       peer, inbox, applied, answered, sent, starts>>
    BY <1>6 DEF Admit
  <2>4. control \notin {"drain", "workers"} /\ draining = {} /\ (control = "idle" => running)
    BY <2>3
  <2>5. peer[c] \notin {"away", "backlog"}
    BY <1>6 DEF Admit
  <2> QED BY <2>2, <2>3, <2>4, <2>5
<1>7. CASE register_connection
  <2>1. PICK c \in Peers : current = {c}
    BY <1>7 DEF register_connection
  <2>2. Cardinality(workers') <= MaxConnections
    <3>1. workers' = workers \cup {c} /\ Cardinality(workers) < MaxConnections
      BY <1>7, <2>1 DEF register_connection
    <3>2. Cardinality(workers) \in Nat /\ Cardinality(workers') \in Nat
      BY <3>1, PeersCounted
    <3>3. Cardinality(workers') <= Cardinality(workers) + 1
      BY <3>1, OneMore
    <3> QED BY <3>1, <3>2, <3>3, CoordinatorAssumption
  <2> QED BY <1>7, <2>1, <2>2 DEF register_connection, connections
<1> QED BY <1>1, <1>2, <1>3, <1>4, <1>5, <1>6, <1>7 DEF AcceptorStep

\* A frame leads to one of the places that serve_connection has.
LEMMA AfterPlaces ==
  ASSUME NEW place, NEW frame
  PROVE  After(place, frame) \in {"ack", "apply", "reject", "close"}
BY DEF After

\* The steps of a connection's thread.
LEMMA WorkerOK ==
  ASSUME IInv, NEW c \in Peers, WorkerStep(c) \/ Send(c)
  PROVE  IInv'
<1> USE DEF IInv, TypeOK, InHand, Phases, Registered, Room, InDoubt, Move, server
<1>1. CASE recv_frame(c)
  <2>1. Tail(inbox[c]) \in Seq(Frames)
    BY <1>1 DEF recv_frame
  <2>2. inbox' \in [Peers -> Seq(Frames)]
    BY <1>1, <2>1 DEF recv_frame
  <2> DEFINE place == After(worker[c], Head(inbox[c]))
  <2>3. place \in {"ack", "apply", "reject", "close"}
    BY AfterPlaces
  <2>4. worker' = [worker EXCEPT ![c] = place] /\ worker[c] \in {"hello", "loop"}
    BY <1>1 DEF recv_frame
  <2>5. UNCHANGED <<server, starts, peer, applied, answered, sent>>
    BY <1>1 DEF recv_frame
  <2> HIDE DEF place
  <2> QED BY <2>2, <2>3, <2>4, <2>5
<1>2. CASE RecvEnds(c)
  BY <1>2 DEF RecvEnds
<1>3. CASE Apply(c)
  <2>1. applied[c] = answered[c] /\ answered[c] \in Nat
    BY <1>3 DEF Apply
  <2>2. /\ applied' = [applied EXCEPT ![c] = answered[c] + 1]
        /\ applied' \in [Peers -> Nat]
    BY <1>3, <2>1 DEF Apply
  <2>3. /\ worker' = [worker EXCEPT ![c] = "answer"] /\ worker[c] = "apply"
        /\ UNCHANGED <<server, starts, peer, inbox, answered, sent>>
    BY <1>3 DEF Apply
  <2> QED BY <2>1, <2>2, <2>3
<1>4. CASE SendFails(c)
  BY <1>4 DEF SendFails, unsent
<1>5. CASE Close(c)
  BY <1>5 DEF Close
<1>6. CASE Send(c)
  <2> DEFINE place == worker'[c]
  <2>1. place \in {"loop", "close"} /\ worker' = [worker EXCEPT ![c] = place]
    BY <1>6 DEF Send
  <2>2. worker[c] = "reject" => place = "close"
    BY <1>6 DEF Send
  <2>3. /\ answered' = IF worker[c] = "answer" THEN [answered EXCEPT ![c] = @ + 1] ELSE answered
        /\ worker[c] \in {"ack", "answer", "reject"}
        /\ UNCHANGED <<server, starts, peer, inbox, applied, sent>>
    BY <1>6 DEF Send
  <2> HIDE DEF place
  <2> QED BY <2>1, <2>2, <2>3
<1> QED BY <1>1, <1>2, <1>3, <1>4, <1>5, <1>6 DEF WorkerStep

\* stop, and its steps.
LEMMA StopOK ==
  ASSUME IInv, stop \/ StopStep
  PROVE  IInv'
<1> USE DEF IInv, TypeOK, InHand, Phases, Registered, Room, InDoubt
<1>1. CASE stop
  BY <1>1 DEF stop, connections
<1>2. CASE stop_accepting
  BY <1>2 DEF stop_accepting, connections
<1>3. CASE JoinAcceptor
  BY <1>3 DEF JoinAcceptor, acceptor_joined, backlog_closed
<1>4. CASE Drain
  BY <1>4, FS_EmptySet, CoordinatorAssumption DEF Drain, connections
<1>5. CASE JoinWorkers
  BY <1>5, FS_EmptySet, CoordinatorAssumption DEF JoinWorkers, connections
<1> QED BY <1>1, <1>2, <1>3, <1>4, <1>5 DEF StopStep

-----------------------------------------------------------------------------
(* The theorems.                                                           *)

\* The server starts with no thread at all.
LEMMA InitOK == Init => IInv
<1> SUFFICES ASSUME Init PROVE IInv
  OBVIOUS
<1>1. <<>> \in Seq(Frames)
  OBVIOUS
<1>2. TypeOK
  BY <1>1 DEF Init, TypeOK
<1>3. Cardinality({}) = 0
  BY FS_EmptySet
<1>4. Room
  BY <1>3, CoordinatorAssumption DEF Init, Room
<1>5. InHand /\ Phases /\ Registered /\ InDoubt
  BY DEF Init, InHand, Phases, Registered, InDoubt
<1> QED BY <1>2, <1>4, <1>5 DEF IInv

(***************************************************************************)
(* Every step of every thread keeps the places of the threads, the order   *)
(* of stop's phases and the registry: start, accept_loop,                  *)
(* register_connection, serve_connection and stop.                         *)
(***************************************************************************)
THEOREM ServerInvariant == Spec => []IInv
<1>1. IInv /\ [Next]_vars => IInv'
  <2> SUFFICES ASSUME IInv, [Next]_vars PROVE IInv'
    OBVIOUS
  <2>1. CASE Next
    BY <2>1, PeerOK, AcceptorOK, WorkerOK, StopOK DEF Next
  <2>2. CASE UNCHANGED vars
    BY <2>2 DEF vars, server, connections, IInv, TypeOK, InHand, Phases, Registered, Room, InDoubt
  <2> QED BY <2>1, <2>2
<1> QED BY InitOK, <1>1, PTL DEF Spec

\* A set of peers within another one is not larger.
LEMMA NotLarger ==
  ASSUME NEW S, NEW T, S \subseteq T, T \subseteq Peers
  PROVE  Cardinality(S) <= Cardinality(T)
BY PeersCounted, FS_Subset

(***************************************************************************)
(* When stop has returned there is no thread left: the accept thread was   *)
(* joined before workers_ was swapped out, so no connection can be         *)
(* registered behind stop's back.                                          *)
(***************************************************************************)
THEOREM ServerStopJoinsAll == Spec => []StopJoinsAll
<1>1. IInv => StopJoinsAll
  BY DEF IInv, TypeOK, InHand, Phases, Registered, StopJoinsAll, Alive
<1> QED BY ServerInvariant, <1>1, PTL

(***************************************************************************)
(* max_connections bounds the threads, the one that accept_loop has        *)
(* started and not yet registered included, and every thread is one that   *)
(* stop joins or that is being registered.                                 *)
(***************************************************************************)
THEOREM ServerConnectionBound == Spec => []ConnectionBound
<1>1. IInv => ConnectionBound
  <2> SUFFICES ASSUME IInv PROVE ConnectionBound
    OBVIOUS
  <2>1. Alive \subseteq workers \cup draining \cup current
    BY DEF IInv, Registered, Alive
  <2>2. /\ Alive \subseteq Peers /\ workers \subseteq Peers /\ draining \subseteq Peers
        /\ Cardinality(workers) <= MaxConnections /\ Cardinality(draining) <= MaxConnections
    BY DEF IInv, TypeOK, Room, Alive
  <2>3. /\ Cardinality(Alive) \in Nat /\ Cardinality(workers) \in Nat
        /\ Cardinality(draining) \in Nat /\ MaxConnections \in Nat
    BY <2>2, PeersCounted, CoordinatorAssumption
  <2>4. CASE acceptor = "register"
    <3>1. PICK c \in Peers : current = {c}
      BY <2>4 DEF IInv, InHand
    <3>2. draining = {} /\ Cardinality(workers) < MaxConnections
      BY <2>4 DEF IInv, Phases, Room
    <3>3. Alive \subseteq workers \cup {c} /\ workers \cup {c} \subseteq Peers
      BY <2>1, <2>2, <3>1, <3>2
    <3>4. Cardinality(workers \cup {c}) \in Nat
      BY <3>3, PeersCounted
    <3>5. Cardinality(Alive) <= Cardinality(workers \cup {c})
      BY <3>3, NotLarger
    <3>6. Cardinality(workers \cup {c}) <= Cardinality(workers) + 1
      BY <2>2, OneMore
    <3> QED BY <2>1, <2>3, <3>2, <3>4, <3>5, <3>6 DEF ConnectionBound
  <2>5. CASE acceptor # "register" /\ control = "workers"
    <3>1. Alive \subseteq draining
      BY <2>5 DEF IInv, Registered, Phases, Alive
    <3>2. Cardinality(Alive) <= Cardinality(draining)
      BY <2>2, <3>1, NotLarger
    <3> QED BY <2>1, <2>2, <2>3, <3>2 DEF ConnectionBound
  <2>6. CASE acceptor # "register" /\ control # "workers"
    <3>1. Alive \subseteq workers
      BY <2>6 DEF IInv, Registered, Phases, Alive
    <3>2. Cardinality(Alive) <= Cardinality(workers)
      BY <2>2, <3>1, NotLarger
    <3> QED BY <2>1, <2>2, <2>3, <3>2 DEF ConnectionBound
  <2> QED BY <2>4, <2>5, <2>6
<1> QED BY ServerInvariant, <1>1, PTL

(***************************************************************************)
(* A connection never has two requests in doubt: serve_connection reads    *)
(* the next one only after send_frame has sent the response in full, and   *)
(* ends when it could not.                                                 *)
(***************************************************************************)
THEOREM ServerOneInDoubt == Spec => []OneInDoubt
<1>1. IInv => OneInDoubt
  BY DEF IInv, InDoubt, OneInDoubt
<1> QED BY ServerInvariant, <1>1, PTL
=============================================================================
