----------------------------- MODULE OfferServer -----------------------------
(***************************************************************************)
(* The threads of a SecureOfferServer (src/clipboard/secure_transfer.rs):  *)
(* the listener, which places each connection with a worker or refuses it, *)
(* the workers, and the thread that owns the server and stops it.  What a  *)
(* request does to the sessions is TransferServer; here the workers share  *)
(* the coverage of one transfer, which the reads they answer extend        *)
(* (RangeCoverage).                                                        *)
(***************************************************************************)
EXTENDS RangeCoverage

CONSTANTS
    Connection,  \* sockets the receivers connect, again and again
    MaxWorkers   \* DEFAULT_MAX_WORKERS

ASSUME ServerAssumption == MaxWorkers \in Nat \ {0}

VARIABLES
    owner,       \* "serving", "ending" and, in stop(), "joining", "waiting", "stopped"
    stop,        \* SecureOfferServer::stop
    listener,    \* secure_accept_loop: "check", "accept", "place", "over"
    workers,     \* SecureOfferServer::workers
    connection   \* where each connection is

coverageVars == <<ranges, uniqueBytes, saturated, served>>
serverVars   == <<owner, stop, listener, workers, connection, coverageVars>>

Placing == {"spawning", "refused"}               \* the listener has counted it
Working == {"handshake", "waiting", "serving"}   \* a worker has it

In(S) == {c \in Connection : connection[c] \in S}

Becomes(c, where) == connection' = [connection EXCEPT ![c] = where]

ServerInit ==
    /\ Init
    /\ owner = "serving" /\ stop = FALSE
    /\ listener = "check"
    /\ workers = 0
    /\ connection = [c \in Connection |-> "none"]

-----------------------------------------------------------------------------
(* The receivers and the listener. *)

\* The socket listens until the accept loop drops it.
Connect(c) ==
    /\ connection[c] = "none" /\ listener # "over"
    /\ Becomes(c, "backlog")
    /\ UNCHANGED <<owner, stop, listener, workers, coverageVars>>

\* The loop ends, and with the socket the connections nobody accepted.
EndListener ==
    /\ listener' = "over"
    /\ connection' = [c \in Connection |-> IF connection[c] = "backlog" THEN "none" ELSE connection[c]]

CheckStop ==
    /\ listener = "check"
    /\ IF stop THEN EndListener ELSE listener' = "accept" /\ UNCHANGED connection
    /\ UNCHANGED <<owner, stop, workers, coverageVars>>

\* fetch_add counts the connection, then looks whether there was a slot.
Accept(c) ==
    /\ listener = "accept" /\ connection[c] = "backlog"
    /\ listener' = "place"
    /\ workers' = workers + 1
    /\ Becomes(c, IF workers < MaxWorkers THEN "spawning" ELSE "refused")
    /\ UNCHANGED <<owner, stop, coverageVars>>

WouldBlock ==
    /\ listener = "accept" /\ In({"backlog"}) = {}
    /\ listener' = "check"
    /\ UNCHANGED <<owner, stop, workers, connection, coverageVars>>

AcceptFails ==
    /\ listener = "accept"
    /\ EndListener
    /\ UNCHANGED <<owner, stop, workers, coverageVars>>

Spawn(c) ==
    /\ connection[c] = "spawning"
    /\ listener' = "check"
    /\ Becomes(c, "handshake")
    /\ UNCHANGED <<owner, stop, workers, coverageVars>>

TurnAwayCounted(c) ==  \* mutant: a refused connection keeps its slot
    /\ connection[c] \in Placing
    /\ listener' = "check"
    /\ Becomes(c, "none")
    /\ UNCHANGED <<owner, stop, workers, coverageVars>>

\* No slot, or no thread: the connection is dropped without an answer.
TurnAway(c) ==
    /\ connection[c] \in Placing
    /\ listener' = "check"
    /\ workers' = workers - 1
    /\ Becomes(c, "none")
    /\ UNCHANGED <<owner, stop, coverageVars>>

Listener == CheckStop \/ WouldBlock \/ AcceptFails
            \/ \E c \in Connection : Accept(c) \/ Spawn(c) \/ TurnAway(c)

-----------------------------------------------------------------------------
(* A worker.  It does not look at stop. *)

\* The TLS handshake and the hello; the peer is allowed.
Handshake(c) ==
    /\ connection[c] = "handshake"
    /\ Becomes(c, "waiting")
    /\ UNCHANGED <<owner, stop, listener, workers, coverageVars>>

Request(c) ==
    /\ connection[c] = "waiting"
    /\ Becomes(c, "serving")
    /\ UNCHANGED <<owner, stop, listener, workers, coverageVars>>

\* The request is answered; a read that was delivered is noted before.
Answer(c) ==
    /\ connection[c] = "serving"
    /\ Becomes(c, "waiting")
    /\ Next \/ UNCHANGED coverageVars
    /\ UNCHANGED <<owner, stop, listener, workers>>

\* WorkerCountGuard::drop: a failed handshake, a timeout, the end of the
\* connection, a revocation, an answer that cannot be written.
EndWorker(c) ==
    /\ connection[c] \in Working
    /\ workers' = workers - 1
    /\ Becomes(c, "none")
    /\ UNCHANGED <<owner, stop, listener, coverageVars>>

-----------------------------------------------------------------------------
(* SecureOfferServer::stop, which Drop calls too. *)

\* The secure source is told to quit, its input ends or its lifetime is over.
EndServing ==
    /\ owner = "serving"
    /\ owner' = "ending"
    /\ UNCHANGED <<stop, listener, workers, connection, coverageVars>>

Stop ==
    /\ owner = "ending"
    /\ stop' = TRUE
    /\ owner' = "joining"
    /\ UNCHANGED <<listener, workers, connection, coverageVars>>

Join ==
    /\ owner = "joining" /\ listener = "over"
    /\ owner' = "waiting"
    /\ UNCHANGED <<stop, listener, workers, connection, coverageVars>>

DeadlineForgotten == owner = "waiting" /\ workers = 0  \* mutant: it waits for every worker

\* Five seconds, or the last worker, whichever is first.
MayLeave == owner = "waiting"

Leave ==
    /\ MayLeave
    /\ owner' = "stopped"
    /\ UNCHANGED <<stop, listener, workers, connection, coverageVars>>

ServerNext ==
    \/ Listener
    \/ \E c \in Connection : Connect(c) \/ Handshake(c) \/ Request(c) \/ Answer(c) \/ EndWorker(c)
    \/ EndServing \/ Stop \/ Join \/ Leave

\* The listener and the owner are scheduled; a worker may hang in the source.
ServerSpec ==
    /\ ServerInit /\ [][ServerNext]_serverVars
    /\ WF_serverVars(Listener)
    /\ WF_serverVars(Stop) /\ WF_serverVars(Join) /\ WF_serverVars(Leave)

-----------------------------------------------------------------------------
(* Properties. *)

\* The counter is the number of connections that hold a slot, never more than
\* MaxWorkers of them with a worker; and once stop() has joined the listener no
\* connection is on its way to a worker any more.
SlotsAreCounted ==
    /\ workers = Cardinality(In(Placing \cup Working))
    /\ Cardinality(In(Working \cup {"spawning"})) <= MaxWorkers
    /\ owner \in {"waiting", "stopped"} => In(Placing \cup {"backlog"}) = {}

\* stop() returns, whatever the receivers send and although a worker may be
\* stuck in a read of the source for ever.
StopReturns == owner = "ending" ~> owner = "stopped"
=============================================================================
