---------------------------- MODULE TransferServer ----------------------------
(***************************************************************************)
(* The session table of one secure offer server (ServerState in            *)
(* src/clipboard/secure_transfer.rs) and the worker threads that serve     *)
(* the authenticated connections.                                          *)
(*                                                                         *)
(* Each worker processes one request at a time.  A request is several      *)
(* steps, because the code releases the table lock, the session lock and   *)
(* the condition variable between them; what is done under one lock is one *)
(* action, except that a read which has its bytes looks at the store, at   *)
(* the clock and at the session one after the other: it keeps the lock of  *)
(* the session meanwhile (Locked), which holds up neither the store nor    *)
(* the clock.  The peer can be revoked (and paired again) in the device    *)
(* store between any two steps, time passes, a response can be lost (the   *)
(* client then sends the same request again), and the listener thread      *)
(* purges expired sessions.                                                *)
(*                                                                         *)
(* Abstractions.  A file is a set of chunks and a coverage is the set of   *)
(* the chunks noted (the range arithmetic is abstracted).  Credentials are *)
(* the transfer id they unlock: a request whose credentials do not match a *)
(* live session is answered without a change of state and is no step here, *)
(* and so are Status and GetOffer.  Several trust checks of one request    *)
(* with no change of state between them are one check.                     *)
(***************************************************************************)
EXTENDS Integers, Sequences, FiniteSets, SessionState

CONSTANTS
    Worker,              \* connection worker threads
    Peer,                \* authenticated peers that may connect
    AuthorizedPeer,      \* the one peer this offer is granted to
    TransferId,          \* transfer ids the server can draw (bounds the begins)
    Nonce,               \* begin nonces drawn by the client
    Chunk,               \* ranges of the offered file
    NoTransfer,          \* "no record": not a transfer id
    MaxActiveTransfers,  \* MAX_ACTIVE_TRANSFERS
    MaxBeginNonces,      \* MAX_BEGIN_NONCES
    OfferExpiry,         \* SecureOfferedFile::expires_at
    TransferTtl,         \* ServerState::transfer_ttl
    MaxClock,            \* bound on time
    MaxCommands          \* bound on the control sequence numbers of a session

ASSUME ServerAssumption ==
    /\ AuthorizedPeer \in Peer
    /\ NoTransfer \notin TransferId
    /\ IsFiniteSet(TransferId)
    /\ MaxActiveTransfers \in Nat
    /\ MaxBeginNonces \in Nat
    /\ OfferExpiry \in Nat
    /\ TransferTtl \in Nat \ {0}
    /\ MaxClock \in Nat
    /\ MaxCommands \in Nat

VARIABLES
    clock,        \* Instant::now()
    trusted,      \* the device store holds a record of the authorized peer
    state,        \* TransferInner::state; "none" before the session exists
    owner,        \* TransferSession::authorized_peer
    expires,      \* TransferSession::expires_at
    lastSeq,      \* TransferInner::last_control_sequence
    lastOp,       \* TransferInner::last_control_opcode
    coverage,     \* TransferInner::coverage
    transfers,    \* ServerInner::transfers: the ids in the table
    beginNonces,  \* ServerInner::begin_nonces: nonce -> transfer id
    cancelled,    \* SecureMetrics::cancelled_transfers
    pc,           \* where each worker is in its request
    job,          \* the request each worker processes
    \* The client's side of the protocol and history variables.
    issued,       \* the commands the client numbered, per session
    nonceOf,      \* history: the nonce a session was begun with
    accepted,     \* history: the sequence numbers the server consumed
    everRevoked,  \* history: the peer was revoked at some time
    witnessed     \* history: what held at some moment since a read has its bytes

tableVars   == <<state, owner, expires, transfers, beginNonces, nonceOf>>
controlVars == <<lastSeq, lastOp, accepted>>
vars == <<clock, trusted, tableVars, controlVars, coverage, cancelled, pc, job,
          issued, everRevoked, witnessed>>

Time   == 0 .. (MaxClock + TransferTtl)

BeginJob   == [nonce : Nonce, since : 0 .. MaxClock]
ControlJob == [id : TransferId, seq : 1 .. MaxCommands]
ReadJob    == [id : TransferId, chunk : Chunk]
RefusedJob == [peer : Peer]
NoJob      == [none : {TRUE}]

\* The steps of a read that has its bytes; at the last two it has the lock.
Checks    == {"filled", "allowed", "alive"}
ReadSteps == {"enter", "waiting", "reading"} \cup Checks
Steps     == ReadSteps \cup {"idle", "refused", "begin", "control"}

\* What a worker holds at each step of its request.
JobOf(step) ==
    CASE step = "idle"    -> NoJob
      [] step = "refused" -> RefusedJob
      [] step = "begin"   -> BeginJob
      [] step = "control" -> ControlJob
      [] OTHER            -> ReadJob

Job == NoJob \cup BeginJob \cup ControlJob \cup ReadJob \cup RefusedJob

EnvironmentTypeOK ==
    /\ clock \in 0 .. MaxClock
    /\ trusted \in BOOLEAN
    /\ everRevoked \in BOOLEAN

TableTypeOK ==
    /\ state \in [TransferId -> States]
    /\ owner \in [TransferId -> Peer]
    /\ expires \in [TransferId -> Time]
    /\ nonceOf \in [TransferId -> Nonce \cup {NoTransfer}]
    /\ transfers \in SUBSET TransferId
    /\ beginNonces \in [Nonce -> TransferId \cup {NoTransfer}]
    /\ cancelled \in Nat

ControlTypeOK ==
    /\ lastSeq \in [TransferId -> 0 .. MaxCommands]
    /\ lastOp \in [TransferId -> Opcode \cup {"none"}]
    /\ accepted \in [TransferId -> Seq(1 .. MaxCommands)]
    /\ issued \in [TransferId -> Seq(Opcode)]
    /\ coverage \in [TransferId -> SUBSET Chunk]

\* Besides the types: every worker holds the job its step works on, for a
\* command that was issued.
WorkerTypeOK ==
    /\ pc \in [Worker -> Steps]
    /\ job \in [Worker -> Job]
    /\ \A w \in Worker : job[w] \in JobOf(pc[w])
    /\ \A w \in Worker : pc[w] = "control" => job[w].seq <= Len(issued[job[w].id])

TypeOK == EnvironmentTypeOK /\ TableTypeOK /\ ControlTypeOK /\ WorkerTypeOK

HistoryTypeOK == witnessed \in [Worker -> SUBSET {"trusted", "alive"}]

\* Nothing is served yet: start_trusted has just loaded the peer's record.
Init ==
    /\ clock = 0
    /\ trusted = TRUE
    /\ state = [t \in TransferId |-> "none"]
    /\ owner = [t \in TransferId |-> AuthorizedPeer]
    /\ expires = [t \in TransferId |-> 0]
    /\ lastSeq = [t \in TransferId |-> 0]
    /\ lastOp = [t \in TransferId |-> "none"]
    /\ coverage = [t \in TransferId |-> {}]
    /\ transfers = {}
    /\ beginNonces = [n \in Nonce |-> NoTransfer]
    /\ cancelled = 0
    /\ pc = [w \in Worker |-> "idle"]
    /\ job = [w \in Worker |-> [none |-> TRUE]]
    /\ issued = [t \in TransferId |-> <<>>]
    /\ nonceOf = [t \in TransferId |-> NoTransfer]
    /\ accepted = [t \in TransferId |-> <<>>]
    /\ everRevoked = FALSE
    /\ witnessed = [w \in Worker |-> {}]

-----------------------------------------------------------------------------
(* The environment: time and the device store. *)

Tick ==
    /\ clock < MaxClock
    /\ clock' = clock + 1
    /\ UNCHANGED <<trusted, tableVars, controlVars, coverage, cancelled, pc, job,
                   issued, everRevoked>>

\* revoke_peer removes the record; a new pairing writes it again.
Revoke ==
    /\ trusted
    /\ trusted' = FALSE
    /\ everRevoked' = TRUE
    /\ UNCHANGED <<clock, tableVars, controlVars, coverage, cancelled, pc, job, issued>>

PairAgain ==
    /\ ~trusted
    /\ trusted' = TRUE
    /\ UNCHANGED <<clock, tableVars, controlVars, coverage, cancelled, pc, job,
                   issued, everRevoked>>

-----------------------------------------------------------------------------
(* Helpers. *)

PeerIsAllowed(p) == p = AuthorizedPeer /\ trusted

Expired(t, now) == expires[t] <= now

\* A read holds the session while it checks it again.
Locked(t) == \E w \in Worker : pc[w] \in {"allowed", "alive"} /\ job[w].id = t

\* The request is over: the worker writes the response (or loses the
\* connection while doing so) and reads the next frame.
Answer(w) ==
    /\ pc' = [pc EXCEPT ![w] = "idle"]
    /\ job' = [job EXCEPT ![w] = [none |-> TRUE]]

GoTo(w, step) ==
    /\ pc' = [pc EXCEPT ![w] = step]
    /\ UNCHANGED job

\* session.changed.notify_all() for the sessions in ts, and the answer of w.
AnswerAndNotify(w, ts) ==
    /\ pc' = [v \in Worker |->
                IF v = w THEN "idle"
                ELSE IF pc[v] = "waiting" /\ job[v].id \in ts THEN "enter"
                ELSE pc[v]]
    /\ job' = [job EXCEPT ![w] = [none |-> TRUE]]

\* The table after the retain calls of cleanup and begin_transfer at time now.
LiveTransfers(now) == {t \in transfers : ~Expired(t, now)}

LiveNoncesEarly(now) ==  \* mutant: records are forgotten one tick early
    [n \in Nonce |->
        IF beginNonces[n] # NoTransfer /\ Expired(beginNonces[n], now + 1)
        THEN NoTransfer ELSE beginNonces[n]]

LiveNonces(now) ==
    [n \in Nonce |->
        IF beginNonces[n] # NoTransfer /\ Expired(beginNonces[n], now)
        THEN NoTransfer ELSE beginNonces[n]]

-----------------------------------------------------------------------------
(* Admission of a request: the trust check, and for a request that carries *)
(* credentials the lookup of the live session they unlock.                 *)

\* The peer is not allowed; ensure_peer_allowed goes on to cancel its transfers.
RefuseRequest(w, p) ==
    /\ pc[w] = "idle"
    /\ ~PeerIsAllowed(p)
    /\ pc' = [pc EXCEPT ![w] = "refused"]
    /\ job' = [job EXCEPT ![w] = [peer |-> p]]
    /\ UNCHANGED <<clock, trusted, tableVars, controlVars, coverage, cancelled,
                   issued, everRevoked>>

\* Bound: there is a fresh transfer id for every begin under way.
AdmitBegin(w, n) ==
    /\ pc[w] = "idle"
    /\ PeerIsAllowed(AuthorizedPeer)
    /\ Cardinality({v \in Worker : pc[v] = "begin"})
         < Cardinality({t \in TransferId : state[t] = "none"})
    /\ pc' = [pc EXCEPT ![w] = "begin"]
    /\ job' = [job EXCEPT ![w] = [nonce |-> n, since |-> clock]]
    /\ UNCHANGED <<clock, trusted, tableVars, controlVars, coverage, cancelled,
                   issued, everRevoked>>

Authenticated(t) == PeerIsAllowed(owner[t]) /\ t \in transfers /\ ~Expired(t, clock)

\* Command number q of session t arrives: a new one, which the client numbers
\* here, or an earlier one that was delayed or is retried after a lost response.
AdmitControl(w, t, q, op) ==
    /\ pc[w] = "idle"
    /\ Authenticated(t)
    /\ q <= MaxCommands
    /\ \/ /\ q = Len(issued[t]) + 1
          /\ issued' = [issued EXCEPT ![t] = Append(@, op)]
       \/ /\ q \in 1 .. Len(issued[t])
          /\ op = issued[t][q]
          /\ UNCHANGED issued
    /\ pc' = [pc EXCEPT ![w] = "control"]
    /\ job' = [job EXCEPT ![w] = [id |-> t, seq |-> q]]
    /\ UNCHANGED <<clock, trusted, tableVars, controlVars, coverage, cancelled, everRevoked>>

AdmitRead(w, t, c) ==
    /\ pc[w] = "idle"
    /\ Authenticated(t)
    /\ pc' = [pc EXCEPT ![w] = "enter"]
    /\ job' = [job EXCEPT ![w] = [id |-> t, chunk |-> c]]
    /\ UNCHANGED <<clock, trusted, tableVars, controlVars, coverage, cancelled,
                   issued, everRevoked>>

-----------------------------------------------------------------------------
(* Revocation and expiry. *)

DoomedAgain(p) ==   \* mutant: sessions cancelled before are cancelled again
    {t \in transfers : owner[t] = p /\ state[t] # "Completed"}
DoomedOfAnyPeer(p) ==  \* mutant: the filter on the peer is missing
    {t \in transfers : state[t] \in Active}

DoomedNotCancelled(p) ==  \* mutant: completed sessions are cancelled too
    {t \in transfers : owner[t] = p /\ state[t] # "Cancelled"}

DoomedBy(p) == {t \in transfers : owner[t] = p /\ state[t] \in Active}

\* cancel_peer_transfers: every active session of the refused peer is cancelled.
CancelPeerTransfers(w) ==
    LET doomed == DoomedBy(job[w].peer)
    IN  /\ pc[w] = "refused"
        /\ \A t \in transfers : owner[t] = job[w].peer => ~Locked(t)
        /\ state' = [t \in TransferId |-> IF t \in doomed THEN "Cancelled" ELSE state[t]]
        /\ cancelled' = cancelled + Cardinality(doomed)
        /\ AnswerAndNotify(w, doomed)
        /\ UNCHANGED <<clock, trusted, owner, expires, transfers, beginNonces, nonceOf,
                       controlVars, coverage, issued, everRevoked>>

\* cleanup_expired_sessions, called by the listener thread.
CleanupOnlyTransfers ==  \* mutant: the nonce records are kept
    /\ transfers' = LiveTransfers(clock)
    /\ UNCHANGED <<clock, trusted, state, owner, expires, beginNonces, nonceOf, controlVars,
                   coverage, cancelled, pc, job, issued, everRevoked>>

CleanupExpiredSessions ==
    /\ transfers' = LiveTransfers(clock)
    /\ beginNonces' = LiveNonces(clock)
    /\ UNCHANGED <<clock, trusted, state, owner, expires, nonceOf, controlVars, coverage,
                   cancelled, pc, job, issued, everRevoked>>

-----------------------------------------------------------------------------
(* begin_transfer.  `now` was read between the trust check and the time    *)
(* the worker got hold of the table.                                       *)

BeginExpired(w) ==
    /\ pc[w] = "begin"
    /\ \E now \in job[w].since .. clock : now >= OfferExpiry
    /\ Answer(w)
    /\ UNCHANGED <<clock, trusted, tableVars, controlVars, coverage, cancelled,
                   issued, everRevoked>>

\* The nonce is on record: the same session again (or Replay, for another file).
BeginKnown(w, now) ==
    /\ LiveNonces(now)[job[w].nonce] # NoTransfer
    /\ UNCHANGED <<state, owner, expires, lastSeq, lastOp, accepted, coverage, nonceOf>>
    /\ transfers' = LiveTransfers(now)
    /\ beginNonces' = LiveNonces(now)

AtCapacityOffByOne(now) ==  \* mutant: > for >=
    \/ Cardinality({t \in LiveTransfers(now) : state[t] \in Active}) > MaxActiveTransfers
    \/ Cardinality(LiveTransfers(now)) > MaxBeginNonces
    \/ Cardinality({n \in Nonce : LiveNonces(now)[n] # NoTransfer}) > MaxBeginNonces

AtCapacity(now) ==
    \/ Cardinality({t \in LiveTransfers(now) : state[t] \in Active}) >= MaxActiveTransfers
    \/ Cardinality(LiveTransfers(now)) >= MaxBeginNonces
    \/ Cardinality({n \in Nonce : LiveNonces(now)[n] # NoTransfer}) >= MaxBeginNonces

BeginBusy(w, now) ==
    /\ LiveNonces(now)[job[w].nonce] = NoTransfer
    /\ \A t \in LiveTransfers(now) : ~Locked(t)
    /\ AtCapacity(now)
    /\ UNCHANGED <<state, owner, expires, lastSeq, lastOp, accepted, coverage, nonceOf>>
    /\ transfers' = LiveTransfers(now)
    /\ beginNonces' = LiveNonces(now)

BeginNew(w, now) ==
    /\ LiveNonces(now)[job[w].nonce] = NoTransfer
    /\ \A t \in LiveTransfers(now) : ~Locked(t)
    /\ ~AtCapacity(now)
    /\ \E t \in TransferId :
          /\ state[t] = "none"
          /\ state' = [state EXCEPT ![t] = "Running"]
          /\ owner' = [owner EXCEPT ![t] = AuthorizedPeer]
          /\ expires' = [expires EXCEPT ![t] = now + TransferTtl]
          /\ nonceOf' = [nonceOf EXCEPT ![t] = job[w].nonce]
          /\ transfers' = LiveTransfers(now) \cup {t}
          /\ beginNonces' = [LiveNonces(now) EXCEPT ![job[w].nonce] = t]
    /\ UNCHANGED <<lastSeq, lastOp, accepted, coverage>>

BeginTransfer(w) ==
    /\ pc[w] = "begin"
    /\ \E now \in job[w].since .. clock :
          /\ now < OfferExpiry
          /\ BeginKnown(w, now) \/ BeginBusy(w, now) \/ BeginNew(w, now)
    /\ Answer(w)
    /\ UNCHANGED <<clock, trusted, cancelled, issued, everRevoked>>

-----------------------------------------------------------------------------
(* control: under the session lock. *)

IsFreshIfNotTheLast(t, q) == q # lastSeq[t]  \* mutant: only the last command is a duplicate

IsFresh(t, q) == q > lastSeq[t]

\* The command was consumed before (the same answer again) or a later one was
\* (Replay).
ControlStale(w) ==
    /\ pc[w] = "control"
    /\ ~Locked(job[w].id)
    /\ ~IsFresh(job[w].id, job[w].seq)
    /\ Answer(w)
    /\ UNCHANGED <<clock, trusted, tableVars, controlVars, coverage, cancelled,
                   issued, everRevoked>>

ControlFresh(w) ==
    LET t  == job[w].id
        op == issued[t][job[w].seq]
        s  == Obey(op, state[t])
    IN  /\ pc[w] = "control"
        /\ ~Locked(t)
        /\ IsFresh(t, job[w].seq)
        /\ lastSeq' = [lastSeq EXCEPT ![t] = job[w].seq]
        /\ lastOp' = [lastOp EXCEPT ![t] = op]
        /\ accepted' = [accepted EXCEPT ![t] = Append(@, job[w].seq)]
        /\ state' = [state EXCEPT ![t] = s]
        /\ cancelled' = IF s = "Cancelled" /\ state[t] # s THEN cancelled + 1 ELSE cancelled
        \* Pause has nobody to notify: a waiting reader sees the session paused.
        /\ IF s # state[t] /\ op # "Pause" THEN AnswerAndNotify(w, {t}) ELSE Answer(w)
        /\ UNCHANGED <<clock, trusted, owner, expires, transfers, beginNonces, nonceOf,
                       coverage, issued, everRevoked>>

-----------------------------------------------------------------------------
(* read_range. *)

\* Under the session lock while the session is paused: give up or wait.
ReadPaused(w) ==
    LET t == job[w].id
    IN  /\ pc[w] = "enter"
        /\ ~Locked(t)
        /\ state[t] = "Paused"
        /\ IF ~PeerIsAllowed(owner[t])
           THEN /\ state' = [state EXCEPT ![t] = "Cancelled"]
                /\ cancelled' = cancelled + 1
                /\ AnswerAndNotify(w, {t})
           ELSE /\ IF Expired(t, clock) THEN Answer(w) ELSE GoTo(w, "waiting")
                /\ UNCHANGED <<state, cancelled>>
        /\ UNCHANGED <<clock, trusted, owner, expires, transfers, beginNonces, nonceOf,
                       controlVars, coverage, issued, everRevoked>>

ReadPollAgain(w) ==  \* mutant: the poll goes on instead of answering
    /\ pc[w] = "waiting"
    /\ ~Locked(job[w].id)
    /\ GoTo(w, "enter")
    /\ UNCHANGED <<clock, trusted, tableVars, controlVars, coverage, cancelled,
                   issued, everRevoked>>

\* wait_timeout ran out and the session is still paused: an empty answer.
ReadPollTimeout(w) ==
    /\ pc[w] = "waiting"
    /\ ~Locked(job[w].id)
    /\ IF state[job[w].id] = "Paused" THEN Answer(w) ELSE GoTo(w, "enter")
    /\ UNCHANGED <<clock, trusted, tableVars, controlVars, coverage, cancelled,
                   issued, everRevoked>>

\* Not paused: release the lock, unless the session expired or was cancelled,
\* and see whether the peer is allowed.
ReadUnlock(w) ==
    LET t == job[w].id
    IN  /\ pc[w] = "enter"
        /\ ~Locked(t)
        /\ state[t] # "Paused"
        /\ IF Expired(t, clock) \/ state[t] = "Cancelled" THEN Answer(w)
           ELSE IF PeerIsAllowed(owner[t]) THEN GoTo(w, "reading")
           ELSE /\ pc' = [pc EXCEPT ![w] = "refused"]
                /\ job' = [job EXCEPT ![w] = [peer |-> owner[t]]]
        /\ UNCHANGED <<clock, trusted, tableVars, controlVars, coverage, cancelled,
                       issued, everRevoked>>

\* Without the lock: source.read_at, which fails when the source changed.
ReadSource(w) ==
    /\ pc[w] = "reading"
    /\ GoTo(w, "filled") \/ Answer(w)
    /\ UNCHANGED <<clock, trusted, tableVars, controlVars, coverage, cancelled,
                   issued, everRevoked>>

StillAllowedUnchecked(t) == TRUE  \* mutant: the store is not asked again

\* The session is locked again, and the store is asked again.
StillAllowed(t) == PeerIsAllowed(owner[t])

ReadAllowed(w) ==
    LET t == job[w].id
    IN  /\ pc[w] = "filled"
        /\ ~Locked(t)
        /\ StillAllowed(t)
        /\ GoTo(w, "allowed")
        /\ UNCHANGED <<clock, trusted, tableVars, controlVars, coverage, cancelled,
                       issued, everRevoked>>

ReadDenied(w) ==
    LET t    == job[w].id
        kill == state[t] \in Active
    IN  /\ pc[w] = "filled"
        /\ ~Locked(t)
        /\ ~StillAllowed(t)
        /\ state' = [state EXCEPT ![t] = IF kill THEN "Cancelled" ELSE @]
        /\ cancelled' = IF kill THEN cancelled + 1 ELSE cancelled
        /\ AnswerAndNotify(w, {t})
        /\ UNCHANGED <<clock, trusted, owner, expires, transfers, beginNonces, nonceOf,
                       controlVars, coverage, issued, everRevoked>>

SurvivesCancelled(t) == ~Expired(t, clock)  \* mutant: the state is not looked at again

Survives(t) == ~Expired(t, clock) /\ state[t] # "Cancelled"

\* Then the clock and the state are looked at again.
ReadAlive(w) ==
    /\ pc[w] = "allowed"
    /\ IF Survives(job[w].id) THEN GoTo(w, "alive") ELSE Answer(w)
    /\ UNCHANGED <<clock, trusted, tableVars, controlVars, coverage, cancelled,
                   issued, everRevoked>>

\* The range is noted and the lock released with the answer.
ReadDeliver(w) ==
    LET t == job[w].id
    IN  /\ pc[w] = "alive"
        /\ coverage' = [coverage EXCEPT ![t] = @ \cup {job[w].chunk}]
        /\ Answer(w)
        /\ UNCHANGED <<clock, trusted, tableVars, controlVars, cancelled, issued, everRevoked>>

-----------------------------------------------------------------------------
\* A step of the request worker w is in.
Serve(w) ==
    \/ CancelPeerTransfers(w)
    \/ BeginExpired(w)
    \/ BeginTransfer(w)
    \/ ControlStale(w)
    \/ ControlFresh(w)
    \/ ReadPaused(w)
    \/ ReadPollTimeout(w)
    \/ ReadUnlock(w)
    \/ ReadSource(w)
    \/ ReadAllowed(w)
    \/ ReadDenied(w)
    \/ ReadAlive(w)
    \/ ReadDeliver(w)

\* A request arrives on the connection of worker w.
Receive(w) ==
    \/ \E p \in Peer : RefuseRequest(w, p)
    \/ \E n \in Nonce : AdmitBegin(w, n)
    \/ \E t \in TransferId, q \in 1 .. MaxCommands, op \in Opcode : AdmitControl(w, t, q, op)
    \/ \E t \in TransferId, c \in Chunk : AdmitRead(w, t, c)

\* What holds now of the peer and of the session that a read is about.
Holding(w) ==
    (IF PeerIsAllowed(owner[job[w].id]) THEN {"trusted"} ELSE {})
        \cup (IF Expired(job[w].id, clock) THEN {} ELSE {"alive"})

\* The history of a read starts when it has its bytes.
Witness ==
    witnessed' = [w \in Worker |->
        IF pc'[w] \notin Checks THEN {}
        ELSE Holding(w)' \cup (IF pc[w] \in Checks THEN witnessed[w] ELSE {})]

Step ==
    \/ Tick
    \/ Revoke
    \/ PairAgain
    \/ CleanupExpiredSessions
    \/ \E w \in Worker : Serve(w) \/ Receive(w)

Next == Step /\ Witness

Spec == Init /\ [][Next]_vars

\* Worker threads and the listener thread run; the condition variable wait of a
\* paused read ends by its timeout; a session lock that is released again and
\* again is given to each thread that waits for it.  Nothing makes clients send
\* requests, time pass, or the peer be revoked.
Fairness ==
    /\ WF_vars(CleanupExpiredSessions /\ Witness)
    /\ \A w \in Worker : SF_vars(Serve(w) /\ Witness)

FairSpec == Spec /\ Fairness

-----------------------------------------------------------------------------
(* Properties. *)

\* A begin that is retried (lost response, any interleaving with cleanup and
\* with other begins) never makes a second live session of the same nonce.
OneLiveSessionPerNonce ==
    \A t, u \in TransferId :
        /\ state[t] # "none" /\ state[u] # "none"
        /\ nonceOf[t] = nonceOf[u]
        /\ ~Expired(t, clock) /\ ~Expired(u, clock)
        => t = u

\* The table never holds more running or paused sessions than
\* MAX_ACTIVE_TRANSFERS, nor more sessions than MAX_BEGIN_NONCES, whatever
\* begins race with controls, revocations and the purge.
CapacityRespected ==
    /\ Cardinality({t \in transfers : state[t] \in Active}) <= MaxActiveTransfers
    /\ Cardinality(transfers) <= MaxBeginNonces

\* The four places that cancel a session (control, cancel_peer_transfers, the
\* paused read, the denied read) count each cancelled session once.
CancelledCountedOnce == cancelled = Cardinality({t \in TransferId : state[t] = "Cancelled"})

\* The session lifecycle ends in Cancelled or Completed, and a cancelled
\* session delivers nothing more: the read under way when it was cancelled
\* (with the lock released) is discarded.
TerminalIsFinal ==
    [][\A t \in TransferId :
          /\ state[t] \in {"Cancelled", "Completed"} => state'[t] = state[t]
          /\ state[t] = "Cancelled" => coverage'[t] = coverage[t]]_vars

\* A revocation or an expiry stops the data of the reads under way: what is
\* handed out was taken from the source before the session expired, and the
\* peer was trusted at some moment after that.  (That it still is when the
\* answer is written is not promised: no lock holds up a revocation.)
DeliveryIsAuthorised ==
    [][\A t \in TransferId : coverage'[t] # coverage[t] =>
          \E w \in Worker :
             /\ pc[w] # "idle" /\ pc'[w] = "idle" /\ job[w].id = t
             /\ witnessed[w] = {"trusted", "alive"}]_vars

\* The server consumes commands in the order the client numbered them, each
\* one once: a delayed or repeated command never acts after a later one.
AcceptedInIssueOrder ==
    \A t \in TransferId : \A i, j \in 1 .. Len(accepted[t]) :
        i < j => accepted[t][i] < accepted[t][j]

\* Without a revocation a session ends as cancelled only because a Cancel of
\* its own client was consumed: refusing another peer touches no session.
CancelHasACause ==
    \A t \in TransferId : state[t] = "Cancelled" =>
        \/ everRevoked
        \/ \E i \in 1 .. Len(accepted[t]) : issued[t][accepted[t][i]] = "Cancel"

\* Seen from its sessions the server is the atomic machine of TransferLifecycle:
\* whatever workers, purge and revocation interleave, each step is one opening,
\* command, delivery or withdrawal, or none.
Lifecycle == INSTANCE TransferLifecycle WITH
    Session <- TransferId, Datum <- Chunk, phase <- state, last <- lastSeq,
    delivered <- coverage, cancellations <- cancelled

ImplementsLifecycle == Lifecycle!Spec

\* Every request that is taken up is answered, a read of a paused session that
\* nobody resumes included.
EveryRequestIsAnswered == \A w \in Worker : pc[w] # "idle" ~> pc[w] = "idle"

\* An expired session is dropped from the table and its nonce forgotten.
ExpiredIsForgotten ==
    \A t \in TransferId : (t \in transfers /\ Expired(t, clock)) ~>
        (t \notin transfers /\ \A n \in Nonce : beginNonces[n] # t)
=============================================================================
