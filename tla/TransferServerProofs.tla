------------------------ MODULE TransferServerProofs ------------------------
(***************************************************************************)
(* Theorems about TransferServer, for every value of its constants: its    *)
(* invariants, and that it implements TransferLifecycle.                   *)
(***************************************************************************)
EXTENDS TransferServer, FiniteSetTheorems, SequenceTheorems, TLAPS

-----------------------------------------------------------------------------
(* Type correctness. *)

LEMMA InitTypeOK == Init => TypeOK
<1> SUFFICES ASSUME Init PROVE TypeOK
    OBVIOUS
<1> USE DEF Init
<1>1. EnvironmentTypeOK
  <2>1. clock \in 0 .. MaxClock
        BY ServerAssumption, SMT DEF ServerAssumption
  <2>2. trusted \in BOOLEAN /\ everRevoked \in BOOLEAN
        BY Zenon
  <2>3. QED
        BY <2>1, <2>2, Zenon DEF EnvironmentTypeOK
<1>2. TableTypeOK
    BY ServerAssumption DEF ServerAssumption, TableTypeOK, States, Active, Time
<1>3. ControlTypeOK
    BY ServerAssumption DEF ServerAssumption, ControlTypeOK
<1>4. WorkerTypeOK
    BY DEF WorkerTypeOK, Steps, Job, NoJob, JobOf
<1>5. QED
    BY <1>1, <1>2, <1>3, <1>4 DEF TypeOK

\* The answer to a request leaves the worker idle.
LEMMA AnswerType ==
    ASSUME WorkerTypeOK, NEW w \in Worker, Answer(w), UNCHANGED issued
    PROVE  WorkerTypeOK'
  BY DEF WorkerTypeOK, Answer, Steps, Job, NoJob, JobOf

\* A read that moves on keeps its job.
LEMMA GoToType ==
    ASSUME WorkerTypeOK, NEW w \in Worker, NEW step \in ReadSteps, pc[w] \in ReadSteps,
           GoTo(w, step), UNCHANGED issued
    PROVE  WorkerTypeOK'
  BY DEF WorkerTypeOK, GoTo, Steps, ReadSteps, Checks, JobOf

\* So does a read that is woken.
LEMMA NotifyType ==
    ASSUME WorkerTypeOK, NEW w \in Worker, NEW ts, AnswerAndNotify(w, ts), UNCHANGED issued
    PROVE  WorkerTypeOK'
  BY DEF WorkerTypeOK, AnswerAndNotify, Steps, ReadSteps, Checks, Job, NoJob, JobOf

\* What an action leaves alone keeps its type.
LEMMA EnvironmentFrame ==
    ASSUME EnvironmentTypeOK, UNCHANGED <<clock, trusted, everRevoked>>
    PROVE  EnvironmentTypeOK'
  BY Zenon DEF EnvironmentTypeOK

LEMMA TableFrame ==
    ASSUME TableTypeOK, UNCHANGED <<tableVars, cancelled>>
    PROVE  TableTypeOK'
  BY DEF TableTypeOK, tableVars

LEMMA ControlFrame ==
    ASSUME ControlTypeOK, UNCHANGED <<controlVars, issued, coverage>>
    PROVE  ControlTypeOK'
  BY DEF ControlTypeOK, controlVars

LEMMA WorkerFrame ==
    ASSUME WorkerTypeOK, UNCHANGED <<pc, job, issued>>
    PROVE  WorkerTypeOK'
  BY DEF WorkerTypeOK

\* The steps of the environment and of the listener thread.
LEMMA EnvironmentStepType ==
    ASSUME TypeOK, Tick \/ Revoke \/ PairAgain \/ CleanupExpiredSessions
    PROVE  TypeOK'
<1> USE DEF TypeOK
<1>1. CASE Tick
  <2>1. clock' \in 0 .. MaxClock
        BY <1>1, ServerAssumption DEF Tick, ServerAssumption, EnvironmentTypeOK
  <2>2. EnvironmentTypeOK'
        BY <1>1, <2>1, Zenon DEF Tick, EnvironmentTypeOK
  <2>3. QED
        BY <1>1, <2>2, TableFrame, ControlFrame, WorkerFrame DEF Tick
<1>2. CASE Revoke
  <2>1. EnvironmentTypeOK'
        BY <1>2, Zenon DEF Revoke, EnvironmentTypeOK
  <2>2. QED
        BY <1>2, <2>1, TableFrame, ControlFrame, WorkerFrame DEF Revoke
<1>3. CASE PairAgain
  <2>1. EnvironmentTypeOK'
        BY <1>3, Zenon DEF PairAgain, EnvironmentTypeOK
  <2>2. QED
        BY <1>3, <2>1, TableFrame, ControlFrame, WorkerFrame DEF PairAgain
<1>4. CASE CleanupExpiredSessions
  <2>1. TableTypeOK'
        BY <1>4 DEF CleanupExpiredSessions, TableTypeOK, LiveTransfers, LiveNonces
  <2>2. QED
        BY <1>4, <2>1, EnvironmentFrame, ControlFrame, WorkerFrame DEF CleanupExpiredSessions
<1>5. QED
    BY <1>1, <1>2, <1>3, <1>4

\* A request arrives.
LEMMA ReceiveType ==
    ASSUME TypeOK, NEW w \in Worker, Receive(w)
    PROVE  TypeOK'
<1> USE DEF TypeOK
<1>1. ASSUME NEW p \in Peer, RefuseRequest(w, p)
      PROVE  TypeOK'
  <2>1. WorkerTypeOK'
        BY <1>1 DEF RefuseRequest, WorkerTypeOK, Steps, JobOf, Job, RefusedJob
  <2>2. QED
        BY <1>1, <2>1, EnvironmentFrame, TableFrame, ControlFrame DEF RefuseRequest
<1>2. ASSUME NEW n \in Nonce, AdmitBegin(w, n)
      PROVE  TypeOK'
  <2>1. WorkerTypeOK'
        BY <1>2 DEF AdmitBegin, WorkerTypeOK, EnvironmentTypeOK, Steps, JobOf, Job, BeginJob
  <2>2. QED
        BY <1>2, <2>1, EnvironmentFrame, TableFrame, ControlFrame DEF AdmitBegin
<1>3. ASSUME NEW t \in TransferId, NEW q \in 1 .. MaxCommands, NEW op \in Opcode,
             AdmitControl(w, t, q, op)
      PROVE  TypeOK'
  <2> USE <1>3 DEF AdmitControl
  <2>a. /\ issued' \in [TransferId -> Seq(Opcode)]
        /\ \A u \in TransferId : Len(issued'[u]) >= Len(issued[u])
    <3>1. CASE issued' = [issued EXCEPT ![t] = Append(@, op)]
      <4>1. issued[t] \in Seq(Opcode)
            BY DEF ControlTypeOK
      <4>2. Append(issued[t], op) \in Seq(Opcode) /\ Len(Append(issued[t], op)) = Len(issued[t]) + 1
            BY <4>1
      <4>3. \A u \in TransferId : Len(issued[u]) \in Nat
            BY DEF ControlTypeOK
      <4>4. QED
            BY <3>1, <4>2, <4>3 DEF ControlTypeOK
    <3>2. CASE UNCHANGED issued
      <4>1. \A u \in TransferId : Len(issued[u]) \in Nat
            BY DEF ControlTypeOK
      <4>2. QED
            BY <3>2, <4>1 DEF ControlTypeOK
    <3>3. QED
          BY <3>1, <3>2
  <2>1. ControlTypeOK'
        BY <2>a DEF ControlTypeOK, controlVars
  <2>2. \A u \in TransferId : Len(issued'[u]) >= Len(issued[u])
        BY <2>a
  <2>3. q <= Len(issued'[t])
        BY DEF ControlTypeOK
  <2>4. pc' \in [Worker -> Steps] /\ job' \in [Worker -> Job]
        BY DEF WorkerTypeOK, Steps, Job, ControlJob
  <2>5. ASSUME NEW v \in Worker PROVE job'[v] \in JobOf(pc'[v])
        BY <2>5 DEF WorkerTypeOK, JobOf, ControlJob
  <2>6. ASSUME NEW v \in Worker, pc'[v] = "control"
        PROVE  job'[v].seq <= Len(issued'[job'[v].id])
    <3>1. CASE v = w
          BY <2>3, <3>1 DEF WorkerTypeOK
    <3>2. CASE v # w
      <4>1. pc[v] = "control" /\ job'[v] = job[v]
            BY <2>6, <3>2 DEF WorkerTypeOK
      <4>2. job[v] \in ControlJob /\ job[v].seq <= Len(issued[job[v].id])
            BY <4>1 DEF WorkerTypeOK, JobOf
      <4>3. QED
            BY <4>1, <4>2, <2>2 DEF ControlJob, ControlTypeOK
    <3>3. QED
          BY <3>1, <3>2
  <2>7. WorkerTypeOK'
        BY <2>4, <2>5, <2>6 DEF WorkerTypeOK
  <2>8. QED
        BY <2>1, <2>7, EnvironmentFrame, TableFrame
<1>4. ASSUME NEW t \in TransferId, NEW c \in Chunk, AdmitRead(w, t, c)
      PROVE  TypeOK'
  <2>1. WorkerTypeOK'
        BY <1>4 DEF AdmitRead, WorkerTypeOK, Steps, ReadSteps, Checks, JobOf, Job, ReadJob
  <2>2. QED
        BY <1>4, <2>1, EnvironmentFrame, TableFrame, ControlFrame DEF AdmitRead
<1>5. QED
    BY <1>1, <1>2, <1>3, <1>4 DEF Receive

\* The begin_transfer step.
LEMMA BeginType ==
    ASSUME TypeOK, NEW w \in Worker, BeginTransfer(w)
    PROVE  TypeOK'
<1> USE DEF TypeOK
<1>1. job[w] \in BeginJob
      BY DEF BeginTransfer, WorkerTypeOK, JobOf
<1>2. PICK now \in job[w].since .. clock :
          now < OfferExpiry /\ (BeginKnown(w, now) \/ BeginBusy(w, now) \/ BeginNew(w, now))
      BY DEF BeginTransfer
<1>3. now \in 0 .. MaxClock
      BY <1>1, ServerAssumption DEF EnvironmentTypeOK, BeginJob, ServerAssumption
<1>4. UNCHANGED <<clock, trusted, everRevoked, cancelled, issued>> /\ Answer(w)
      BY DEF BeginTransfer
<1>5. /\ LiveTransfers(now) \in SUBSET TransferId
      /\ LiveNonces(now) \in [Nonce -> TransferId \cup {NoTransfer}]
      BY DEF TableTypeOK, LiveTransfers, LiveNonces
<1>6. TableTypeOK' /\ ControlTypeOK'
  <2>1. CASE BeginKnown(w, now) \/ BeginBusy(w, now)
        BY <2>1, <1>4, <1>5 DEF BeginKnown, BeginBusy, TableTypeOK, ControlTypeOK
  <2>2. CASE BeginNew(w, now)
    <3>1. PICK t \in TransferId :
            /\ state' = [state EXCEPT ![t] = "Running"]
            /\ owner' = [owner EXCEPT ![t] = AuthorizedPeer]
            /\ expires' = [expires EXCEPT ![t] = now + TransferTtl]
            /\ nonceOf' = [nonceOf EXCEPT ![t] = job[w].nonce]
            /\ transfers' = LiveTransfers(now) \cup {t}
            /\ beginNonces' = [LiveNonces(now) EXCEPT ![job[w].nonce] = t]
          BY <2>2 DEF BeginNew
    <3>2. now + TransferTtl \in Time
          BY <1>3, ServerAssumption DEF ServerAssumption, Time
    <3>3. job[w].nonce \in Nonce
          BY <1>1 DEF BeginJob
    <3>4. TableTypeOK'
          BY <3>1, <3>2, <3>3, <1>4, <1>5, ServerAssumption
             DEF TableTypeOK, States, Active, ServerAssumption
    <3>5. ControlTypeOK'
          BY <2>2, <1>4 DEF BeginNew, ControlTypeOK
    <3>6. QED
          BY <3>4, <3>5
  <2>3. QED
        BY <2>1, <2>2, <1>2
<1>7. QED
    BY <1>4, <1>6, EnvironmentFrame, AnswerType

\* What a command makes of the state is a state.
LEMMA ObeyType ==
    ASSUME NEW op, NEW s \in States
    PROVE  /\ Obey(op, s) \in States
           /\ s \in {"Cancelled", "Completed"} => Obey(op, s) = s
  BY DEF Obey, States, Active

\* The steps of a control request.
LEMMA ControlStepType ==
    ASSUME TypeOK, NEW w \in Worker, ControlFresh(w)
    PROVE  TypeOK'
<1> USE DEF TypeOK
<1> DEFINE t  == job[w].id
           q  == job[w].seq
           op == issued[t][q]
           s  == Obey(op, state[t])
<1>1. job[w] \in ControlJob /\ q <= Len(issued[t])
      BY DEF ControlFresh, WorkerTypeOK, JobOf
<1>2. t \in TransferId /\ q \in 1 .. MaxCommands
      BY <1>1 DEF ControlJob
<1>3. op \in Opcode
  <2>1. issued[t] \in Seq(Opcode)
        BY <1>2 DEF ControlTypeOK
  <2>2. QED
        BY <1>1, <1>2, <2>1, ServerAssumption DEF ServerAssumption
<1>4. s \in States
      BY <1>2, ObeyType DEF TableTypeOK
<1>5. TableTypeOK'
      BY <1>2, <1>4 DEF ControlFresh, TableTypeOK
<1>6. ControlTypeOK'
  <2>1. accepted[t] \in Seq(1 .. MaxCommands)
        BY <1>2 DEF ControlTypeOK
  <2>2. Append(accepted[t], q) \in Seq(1 .. MaxCommands)
        BY <1>2, <2>1
  <2>3. q \in 0 .. MaxCommands
        BY <1>2, ServerAssumption DEF ServerAssumption
  <2>4. QED
        BY <1>2, <1>3, <2>2, <2>3 DEF ControlFresh, ControlTypeOK
<1>7. WorkerTypeOK'
  <2>1. AnswerAndNotify(w, {t}) \/ Answer(w)
        BY DEF ControlFresh
  <2>2. QED
        BY <2>1, AnswerType, NotifyType DEF ControlFresh
<1>8. QED
    BY <1>5, <1>6, <1>7, EnvironmentFrame DEF ControlFresh

\* The sessions a refusal cancels are finitely many.
LEMMA DoomedFinite ==
    ASSUME TypeOK, NEW p
    PROVE  /\ IsFiniteSet(DoomedBy(p))
           /\ Cardinality(DoomedBy(p)) \in Nat
<1>1. DoomedBy(p) \subseteq TransferId
      BY DEF DoomedBy, TypeOK, TableTypeOK
<1>2. QED
      BY <1>1, FS_Subset, FS_CardinalityType, ServerAssumption DEF ServerAssumption

\* The step that cancels the transfers of a refused peer.
LEMMA CancelPeerType ==
    ASSUME TypeOK, NEW w \in Worker, CancelPeerTransfers(w)
    PROVE  TypeOK'
<1> USE DEF TypeOK
<1>1. TableTypeOK'
      BY DoomedFinite DEF CancelPeerTransfers, TableTypeOK, States
<1>2. ControlTypeOK'
      BY ControlFrame DEF CancelPeerTransfers
<1>3. WorkerTypeOK'
      BY NotifyType DEF CancelPeerTransfers
<1>4. QED
      BY <1>1, <1>2, <1>3, EnvironmentFrame DEF CancelPeerTransfers

\* The steps of a read.
LEMMA ReadStepType ==
    ASSUME TypeOK, NEW w \in Worker,
           ReadPaused(w) \/ ReadPollTimeout(w) \/ ReadUnlock(w) \/ ReadSource(w)
             \/ ReadAllowed(w) \/ ReadDenied(w) \/ ReadAlive(w) \/ ReadDeliver(w)
    PROVE  TypeOK'
<1> USE DEF TypeOK
<1>1. pc[w] \in ReadSteps
      BY DEF ReadPaused, ReadPollTimeout, ReadUnlock, ReadSource, ReadAllowed, ReadDenied, ReadAlive,
             ReadDeliver, ReadSteps, Checks
<1>2. job[w] \in ReadJob /\ job[w].id \in TransferId
      BY <1>1 DEF WorkerTypeOK, JobOf, ReadSteps, Checks, ReadJob
<1>3. CASE ReadPaused(w)
  <2>1. TableTypeOK'
        BY <1>2, <1>3 DEF ReadPaused, TableTypeOK, States
  <2>2. AnswerAndNotify(w, {job[w].id}) \/ Answer(w) \/ GoTo(w, "waiting")
        BY <1>3 DEF ReadPaused
  <2>3. WorkerTypeOK'
        BY <1>1, <1>3, <2>2, AnswerType, NotifyType, GoToType DEF ReadPaused, ReadSteps
  <2>4. QED
        BY <1>3, <2>1, <2>3, EnvironmentFrame, ControlFrame DEF ReadPaused
<1>4. CASE ReadPollTimeout(w)
  <2>1. WorkerTypeOK'
        BY <1>1, <1>4, AnswerType, GoToType DEF ReadPollTimeout, ReadSteps
  <2>2. QED
        BY <1>4, <2>1, EnvironmentFrame, TableFrame, ControlFrame DEF ReadPollTimeout
<1>5. CASE ReadUnlock(w)
  <2>1. ASSUME Answer(w) \/ GoTo(w, "reading")
        PROVE  WorkerTypeOK'
        BY <1>1, <1>5, <2>1, AnswerType, GoToType DEF ReadUnlock, ReadSteps
  <2>2. ASSUME ~(Answer(w) \/ GoTo(w, "reading"))
        PROVE  WorkerTypeOK'
    <3>1. [peer |-> owner[job[w].id]] \in RefusedJob
          BY <1>2 DEF RefusedJob, TableTypeOK
    <3>2. pc' = [pc EXCEPT ![w] = "refused"] /\ job' = [job EXCEPT ![w] = [peer |-> owner[job[w].id]]]
          BY <1>5, <2>2 DEF ReadUnlock
    <3>3. UNCHANGED issued
          BY <1>5 DEF ReadUnlock
    <3>4. QED
          BY <3>1, <3>2, <3>3 DEF WorkerTypeOK, Steps, JobOf, Job
  <2>3. WorkerTypeOK'
        BY <2>1, <2>2
  <2>4. QED
        BY <1>5, <2>3, EnvironmentFrame, TableFrame, ControlFrame DEF ReadUnlock
<1>6. CASE ReadSource(w) \/ ReadAllowed(w) \/ ReadAlive(w)
  <2>1. /\ Answer(w) \/ \E step \in ReadSteps : GoTo(w, step)
        /\ UNCHANGED issued
        BY <1>6 DEF ReadSource, ReadAllowed, ReadAlive, ReadSteps, Checks
  <2>2. WorkerTypeOK'
        BY <1>1, <2>1, AnswerType, GoToType
  <2>3. QED
        BY <1>6, <2>2, EnvironmentFrame, TableFrame, ControlFrame DEF ReadSource, ReadAllowed, ReadAlive
<1>7. CASE ReadDeliver(w)
  <2>1. ControlTypeOK'
        BY <1>2, <1>7 DEF ReadDeliver, ControlTypeOK, controlVars, ReadJob
  <2>2. QED
        BY <1>7, <2>1, EnvironmentFrame, TableFrame, AnswerType DEF ReadDeliver
<1>8. CASE ReadDenied(w)
  <2>1. TableTypeOK'
        BY <1>2, <1>8 DEF ReadDenied, TableTypeOK, States
  <2>2. WorkerTypeOK'
        BY <1>8, NotifyType DEF ReadDenied
  <2>3. QED
        BY <1>8, <2>1, <2>2, EnvironmentFrame, ControlFrame DEF ReadDenied
<1>9. QED
      BY <1>3, <1>4, <1>5, <1>6, <1>7, <1>8

\* The requests that end without a change of state.
LEMMA PlainAnswerType ==
    ASSUME TypeOK, NEW w \in Worker, BeginExpired(w) \/ ControlStale(w)
    PROVE  TypeOK'
  BY EnvironmentFrame, TableFrame, ControlFrame, AnswerType DEF TypeOK, BeginExpired, ControlStale

\* A step keeps the types.
LEMMA NextTypeOK == TypeOK /\ [Next]_vars => TypeOK'
<1> SUFFICES ASSUME TypeOK, [Next]_vars PROVE TypeOK'
    OBVIOUS
<1>1. CASE UNCHANGED vars
      BY <1>1, EnvironmentFrame, TableFrame, ControlFrame, WorkerFrame DEF vars, TypeOK
<1>2. ASSUME NEW w \in Worker, Serve(w) PROVE TypeOK'
      BY <1>2, CancelPeerType, PlainAnswerType, BeginType, ControlStepType, ReadStepType DEF Serve
<1>3. ASSUME NEW w \in Worker, Receive(w) PROVE TypeOK'
      BY <1>3, ReceiveType
<1>4. QED
      BY <1>1, <1>2, <1>3, EnvironmentStepType DEF Next, Step

\* Every variable of the server keeps its type, and every worker holds the
\* job that its step works on.
THEOREM TypeCorrect == Spec => []TypeOK
  BY InitTypeOK, NextTypeOK, PTL DEF Spec

-----------------------------------------------------------------------------
(* A retried begin finds its session. *)

\* As long as a session is alive, the table and the nonce records hold it: the
\* purges use a time that is not later than now.  This is what makes "one live
\* session per nonce" inductive.
LiveIsOnRecord ==
    \A t \in TransferId : state[t] # "none" /\ ~Expired(t, clock) =>
        /\ t \in transfers
        /\ nonceOf[t] \in Nonce
        /\ beginNonces[nonceOf[t]] = t

BeginTimeIsPast == \A w \in Worker : pc[w] = "begin" => job[w].since <= clock

NonceInv == LiveIsOnRecord /\ BeginTimeIsPast

LEMMA NonceInvImplies == TypeOK /\ NonceInv => OneLiveSessionPerNonce
  BY DEF NonceInv, LiveIsOnRecord, OneLiveSessionPerNonce

\* A step that leaves the table alone, and lets no session appear and no time
\* pass, keeps the records.
LEMMA RecordFrame ==
    ASSUME LiveIsOnRecord, UNCHANGED <<clock, expires, transfers, beginNonces, nonceOf>>,
           \A t \in TransferId : state'[t] # "none" => state[t] # "none"
    PROVE  LiveIsOnRecord'
  BY DEF LiveIsOnRecord, Expired

\* A worker that starts no begin keeps the times of the begins under way.
LEMMA BeginTimeFrame ==
    ASSUME BeginTimeIsPast, UNCHANGED clock,
           \A v \in Worker : pc'[v] = "begin" => pc[v] = "begin" /\ job'[v] = job[v]
    PROVE  BeginTimeIsPast'
  BY DEF BeginTimeIsPast

\* No step of a request turns into a begin.
LEMMA ServeStartsNoBegin ==
    ASSUME TypeOK, NEW w \in Worker, Serve(w), NEW v \in Worker, pc'[v] = "begin"
    PROVE  pc[v] = "begin" /\ job'[v] = job[v]
  BY DEF Serve, CancelPeerTransfers, BeginExpired, BeginTransfer, ControlStale, ControlFresh,
         ReadPaused, ReadPollTimeout, ReadUnlock, ReadSource, ReadAllowed, ReadDenied, ReadAlive, ReadDeliver,
         Answer, AnswerAndNotify, GoTo, TypeOK, WorkerTypeOK

\* Only a begin makes a session.
LEMMA ServeMakesNoSession ==
    ASSUME TypeOK, NEW w \in Worker, Serve(w), ~BeginTransfer(w), NEW t \in TransferId
    PROVE  /\ state'[t] # "none" => state[t] # "none"
           /\ UNCHANGED <<clock, expires, transfers, beginNonces, nonceOf>>
<1>1. state[t] \in States /\ state \in [TransferId -> States]
      BY DEF TypeOK, TableTypeOK
<1>2. CASE CancelPeerTransfers(w)
  <2> DEFINE doomed == DoomedBy(job[w].peer)
  <2>1. t \in doomed => state[t] \in Active
        BY DEF DoomedBy
  <2>2. state' = [u \in TransferId |-> IF u \in doomed THEN "Cancelled" ELSE state[u]]
        BY <1>2 DEF CancelPeerTransfers
  <2> HIDE DEF doomed
  <2>3. state'[t] # "none" => state[t] # "none"
        BY ONLY <2>1, <2>2, t \in TransferId DEF Active
  <2>4. UNCHANGED <<clock, expires, transfers, beginNonces, nonceOf>>
        BY ONLY <1>2 DEF CancelPeerTransfers
  <2>5. QED
        BY ONLY <2>3, <2>4
<1>3. CASE ControlFresh(w)
  <2>1. ASSUME NEW op, Obey(op, state[t]) # "none" PROVE state[t] # "none"
        BY <2>1 DEF Obey, Active
  <2>2. QED
        BY <1>1, <1>3, <2>1 DEF ControlFresh
<1>4. CASE ReadPaused(w)
      BY <1>1, <1>4 DEF ReadPaused, tableVars
<1>5. CASE ReadDenied(w)
      BY <1>1, <1>5 DEF ReadDenied, Active
<1>6. QED
      BY <1>2, <1>3, <1>4, <1>5
         DEF Serve, BeginExpired, ControlStale, ReadPollTimeout, ReadUnlock, ReadSource,
             ReadAllowed, ReadAlive,
             ReadDeliver, tableVars

\* A purge at a time that is not later than now keeps the live sessions.
LEMMA PurgeKeepsLive ==
    ASSUME TypeOK, LiveIsOnRecord, NEW now \in 0 .. MaxClock, now <= clock,
           NEW t \in TransferId, state[t] # "none", ~Expired(t, clock)
    PROVE  t \in LiveTransfers(now) /\ nonceOf[t] \in Nonce /\ LiveNonces(now)[nonceOf[t]] = t
<1>1. expires[t] \in Int /\ clock \in Int /\ now \in Int
      BY ServerAssumption DEF TypeOK, TableTypeOK, EnvironmentTypeOK, Time, ServerAssumption
<1>2. ~Expired(t, now)
      BY <1>1 DEF Expired
<1>3. t \in transfers /\ nonceOf[t] \in Nonce /\ beginNonces[nonceOf[t]] = t
      BY DEF LiveIsOnRecord
<1>4. QED
      BY <1>2, <1>3 DEF LiveTransfers, LiveNonces

\* The begin that creates a session does so only for a nonce without a live one.
LEMMA BeginKeepsRecords ==
    ASSUME TypeOK, NonceInv, NEW w \in Worker, BeginTransfer(w)
    PROVE  LiveIsOnRecord'
<1>1. job[w] \in BeginJob /\ job[w].since <= clock
      BY DEF BeginTransfer, TypeOK, WorkerTypeOK, JobOf, NonceInv, BeginTimeIsPast
<1>2. PICK now \in job[w].since .. clock :
          now < OfferExpiry /\ (BeginKnown(w, now) \/ BeginBusy(w, now) \/ BeginNew(w, now))
      BY DEF BeginTransfer
<1>3. now \in 0 .. MaxClock /\ now <= clock
      BY <1>1, <1>2, ServerAssumption DEF TypeOK, EnvironmentTypeOK, BeginJob, ServerAssumption
<1>4. UNCHANGED clock
      BY DEF BeginTransfer
<1>5. CASE BeginKnown(w, now) \/ BeginBusy(w, now)
  <2>1. /\ UNCHANGED <<state, expires, nonceOf>>
        /\ transfers' = LiveTransfers(now) /\ beginNonces' = LiveNonces(now)
        BY <1>5 DEF BeginKnown, BeginBusy
  <2>2. SUFFICES ASSUME NEW t \in TransferId, state'[t] # "none", ~Expired(t, clock)'
                 PROVE  t \in transfers' /\ nonceOf'[t] \in Nonce /\ beginNonces'[nonceOf'[t]] = t
        BY DEF LiveIsOnRecord
  <2>3. state[t] # "none" /\ ~Expired(t, clock)
        BY <2>1, <2>2, <1>4 DEF Expired
  <2>4. QED
        BY <2>1, <2>3, <1>3, PurgeKeepsLive DEF NonceInv
<1>6. CASE BeginNew(w, now)
  <2>1. PICK u \in TransferId :
            /\ state[u] = "none"
            /\ state' = [state EXCEPT ![u] = "Running"]
            /\ expires' = [expires EXCEPT ![u] = now + TransferTtl]
            /\ nonceOf' = [nonceOf EXCEPT ![u] = job[w].nonce]
            /\ transfers' = LiveTransfers(now) \cup {u}
            /\ beginNonces' = [LiveNonces(now) EXCEPT ![job[w].nonce] = u]
        BY <1>6 DEF BeginNew
  <2>2. job[w].nonce \in Nonce /\ LiveNonces(now)[job[w].nonce] = NoTransfer
        BY <1>1, <1>6 DEF BeginJob, BeginNew
  <2>3. SUFFICES ASSUME NEW t \in TransferId, state'[t] # "none", ~Expired(t, clock)'
                 PROVE  t \in transfers' /\ nonceOf'[t] \in Nonce /\ beginNonces'[nonceOf'[t]] = t
        BY DEF LiveIsOnRecord
  <2>4. LiveNonces(now) \in [Nonce -> TransferId \cup {NoTransfer}]
        BY DEF LiveNonces, TypeOK, TableTypeOK
  <2>5. CASE t = u
        BY <2>1, <2>2, <2>4, <2>5 DEF TypeOK, TableTypeOK
  <2>6. CASE t # u
    <3>1. state[t] # "none" /\ ~Expired(t, clock) /\ nonceOf'[t] = nonceOf[t]
          BY <2>1, <2>3, <2>6, <1>4 DEF Expired, TypeOK, TableTypeOK
    <3>2. t \in LiveTransfers(now) /\ nonceOf[t] \in Nonce /\ LiveNonces(now)[nonceOf[t]] = t
          BY <3>1, <1>3, PurgeKeepsLive DEF NonceInv
    <3>3. nonceOf[t] # job[w].nonce
          BY <3>2, <2>2, ServerAssumption DEF ServerAssumption
    <3>4. QED
          BY <3>1, <3>2, <3>3, <2>1, <2>4
  <2>7. QED
        BY <2>5, <2>6
<1>7. QED
      BY <1>2, <1>5, <1>6

LEMMA NonceInit == Init => NonceInv
  BY DEF Init, NonceInv, LiveIsOnRecord, BeginTimeIsPast

\* Time, the device store and the purge of the listener thread.
LEMMA EnvironmentKeepsNonce ==
    ASSUME TypeOK, NonceInv, Tick \/ Revoke \/ PairAgain \/ CleanupExpiredSessions
    PROVE  NonceInv'
<1> USE DEF NonceInv
<1>1. CASE Tick
  <2>1. clock \in Nat /\ clock' = clock + 1 /\ UNCHANGED <<state, tableVars, pc, job>>
        BY <1>1, ServerAssumption DEF Tick, TypeOK, EnvironmentTypeOK, ServerAssumption, tableVars
  <2>2. ASSUME NEW t \in TransferId, ~Expired(t, clock)' PROVE ~Expired(t, clock)
        BY <2>1, <2>2, ServerAssumption
           DEF Expired, TypeOK, TableTypeOK, Time, tableVars, ServerAssumption
  <2>3. LiveIsOnRecord'
        BY <2>1, <2>2 DEF LiveIsOnRecord, tableVars
  <2>4. ASSUME NEW w \in Worker, pc[w] = "begin" PROVE job[w].since \in Int
        BY <2>4, ServerAssumption DEF TypeOK, WorkerTypeOK, JobOf, BeginJob, ServerAssumption
  <2>5. BeginTimeIsPast'
        BY <2>1, <2>4 DEF BeginTimeIsPast
  <2>6. QED
        BY <2>3, <2>5
<1>2. CASE Revoke \/ PairAgain
  <2>1. UNCHANGED <<clock, tableVars, pc, job>>
        BY <1>2 DEF Revoke, PairAgain
  <2>2. QED
        BY <2>1 DEF LiveIsOnRecord, BeginTimeIsPast, Expired, tableVars
<1>3. CASE CleanupExpiredSessions
  <2>1. /\ UNCHANGED <<clock, state, expires, nonceOf, pc, job>>
        /\ transfers' = LiveTransfers(clock) /\ beginNonces' = LiveNonces(clock)
        BY <1>3 DEF CleanupExpiredSessions
  <2>2. clock \in 0 .. MaxClock /\ clock <= clock
        BY ServerAssumption DEF TypeOK, EnvironmentTypeOK, ServerAssumption
  <2>3. LiveIsOnRecord'
    <3>1. SUFFICES ASSUME NEW t \in TransferId, state[t] # "none", ~Expired(t, clock)
                   PROVE  /\ t \in LiveTransfers(clock) /\ nonceOf[t] \in Nonce
                          /\ LiveNonces(clock)[nonceOf[t]] = t
          BY <2>1 DEF LiveIsOnRecord, Expired
    <3>2. QED
          BY <2>2, <3>1, PurgeKeepsLive
  <2>4. QED
        BY <2>1, <2>3 DEF BeginTimeIsPast
<1>4. QED
      BY <1>1, <1>2, <1>3

\* A begin is admitted at the present time; the other admissions start none.
LEMMA ReceiveKeepsNonce ==
    ASSUME TypeOK, NonceInv, NEW w \in Worker, Receive(w)
    PROVE  NonceInv'
<1>1. UNCHANGED <<clock, state, expires, transfers, beginNonces, nonceOf>>
      BY DEF Receive, RefuseRequest, AdmitBegin, AdmitControl, AdmitRead, tableVars
<1>2. LiveIsOnRecord'
      BY <1>1, RecordFrame DEF NonceInv
<1>3. ASSUME NEW v \in Worker, pc'[v] = "begin" PROVE job'[v].since <= clock
  <2>1. clock <= clock
        BY ServerAssumption DEF TypeOK, EnvironmentTypeOK, ServerAssumption
  <2>2. (pc[v] = "begin" /\ job'[v] = job[v]) \/ job'[v].since = clock
    <3> USE <1>3 DEF TypeOK, WorkerTypeOK
    <3>1. ASSUME NEW n \in Nonce, AdmitBegin(w, n)
          PROVE  (pc[v] = "begin" /\ job'[v] = job[v]) \/ job'[v].since = clock
          BY <3>1 DEF AdmitBegin
    <3>2. ASSUME NEW p \in Peer, RefuseRequest(w, p)
          PROVE  pc[v] = "begin" /\ job'[v] = job[v]
          BY <3>2 DEF RefuseRequest
    <3>3. ASSUME NEW t \in TransferId, NEW q \in 1 .. MaxCommands, NEW op \in Opcode,
                 AdmitControl(w, t, q, op)
          PROVE  pc[v] = "begin" /\ job'[v] = job[v]
          BY <3>3 DEF AdmitControl
    <3>4. ASSUME NEW t \in TransferId, NEW c \in Chunk, AdmitRead(w, t, c)
          PROVE  pc[v] = "begin" /\ job'[v] = job[v]
          BY <3>4 DEF AdmitRead
    <3>5. QED
          BY <3>1, <3>2, <3>3, <3>4 DEF Receive
  <2>3. QED
        BY <2>1, <2>2 DEF NonceInv, BeginTimeIsPast
<1>4. QED
      BY <1>1, <1>2, <1>3 DEF NonceInv, BeginTimeIsPast

LEMMA ServeKeepsNonce ==
    ASSUME TypeOK, NonceInv, NEW w \in Worker, Serve(w)
    PROVE  NonceInv'
<1>1. LiveIsOnRecord'
  <2>1. CASE BeginTransfer(w)
        BY <2>1, BeginKeepsRecords
  <2>2. CASE ~BeginTransfer(w)
    <3>1. \A t \in TransferId :
            /\ state'[t] # "none" => state[t] # "none"
            /\ UNCHANGED <<clock, expires, transfers, beginNonces, nonceOf>>
          BY <2>2, ServeMakesNoSession
    <3>2. CASE TransferId = {}
          BY <3>2 DEF LiveIsOnRecord
    <3>3. CASE TransferId # {}
          BY <3>1, <3>3, RecordFrame DEF NonceInv
    <3>4. QED
          BY <3>2, <3>3
  <2>3. QED
        BY <2>1, <2>2
<1>2. UNCHANGED clock
      BY DEF Serve, CancelPeerTransfers, BeginExpired, BeginTransfer, ControlStale, ControlFresh,
             ReadPaused, ReadPollTimeout, ReadUnlock, ReadSource, ReadAllowed, ReadDenied, ReadAlive,
             ReadDeliver
<1>3. BeginTimeIsPast'
      BY <1>2, ServeStartsNoBegin, BeginTimeFrame DEF NonceInv
<1>4. QED
      BY <1>1, <1>3 DEF NonceInv

LEMMA NonceStep == TypeOK /\ NonceInv /\ [Next]_vars => NonceInv'
<1> SUFFICES ASSUME TypeOK, NonceInv, [Next]_vars PROVE NonceInv'
    OBVIOUS
<1>1. CASE UNCHANGED vars
      BY <1>1 DEF vars, tableVars, NonceInv, LiveIsOnRecord, BeginTimeIsPast, Expired
<1>2. CASE Next
      BY <1>2, EnvironmentKeepsNonce, ReceiveKeepsNonce, ServeKeepsNonce DEF Next, Step
<1>3. QED
      BY <1>1, <1>2

\* A begin that is retried never makes a second live session of its nonce, for
\* any number of workers, sessions and nonces: the purge of begin_transfer and
\* that of cleanup_expired_sessions drop a nonce only with its session.
THEOREM NonceIdempotent == Spec => []OneLiveSessionPerNonce
<1>1. Spec => []NonceInv
      BY NonceInit, NonceStep, TypeCorrect, PTL DEF Spec
<1>2. QED
      BY <1>1, NonceInvImplies, TypeCorrect, PTL

-----------------------------------------------------------------------------
(* The life of a session, one step at a time. *)

\* The steps that change a session's state, and how.
LifeStep(t) ==
    \/ state'[t] = state[t]
    \/ state[t] = "none" /\ state'[t] = "Running"
    \/ state[t] \in Active /\ state'[t] \in States \ {"none"}

\* The only step that notes data is a delivery.
DataStep(t) == coverage'[t] = coverage[t] \/ \E w \in Worker : ReadDeliver(w) /\ job[w].id = t

\* A command moves an active session or nothing.
LEMMA ObeyMovesActive ==
    ASSUME NEW op, NEW s \in States
    PROVE  Obey(op, s) = s \/ (s \in Active /\ Obey(op, s) \in States \ {"none"})
  BY DEF Obey, States, Active

LEMMA ServeLifeStep ==
    ASSUME TypeOK, NEW w \in Worker, Serve(w), NEW t \in TransferId
    PROVE  LifeStep(t) /\ DataStep(t)
<1>1. state \in [TransferId -> States] /\ coverage \in [TransferId -> SUBSET Chunk]
      BY DEF TypeOK, TableTypeOK, ControlTypeOK
<1>2. CASE CancelPeerTransfers(w)
      BY <1>1, <1>2 DEF CancelPeerTransfers, DoomedBy, LifeStep, DataStep, States
<1>3. CASE BeginTransfer(w)
  <2>1. UNCHANGED coverage
        BY <1>3 DEF BeginTransfer, BeginKnown, BeginBusy, BeginNew
  <2>2. UNCHANGED state \/ \E u \in TransferId :
            state[u] = "none" /\ state' = [state EXCEPT ![u] = "Running"]
        BY <1>3 DEF BeginTransfer, BeginKnown, BeginBusy, BeginNew
  <2>3. QED
        BY <1>1, <2>1, <2>2 DEF LifeStep, DataStep
<1>4. CASE ControlFresh(w)
  <2>1. job[w].id \in TransferId
        BY <1>4 DEF ControlFresh, TypeOK, WorkerTypeOK, JobOf, ControlJob
  <2>2. state' = [state EXCEPT ![job[w].id] =
                    Obey(issued[job[w].id][job[w].seq], state[job[w].id])]
        BY <1>4 DEF ControlFresh
  <2>3. state[job[w].id] \in States
        BY <1>1, <2>1
  <2>4. LifeStep(t)
        BY <1>1, <2>2, <2>3, ObeyMovesActive DEF LifeStep
  <2>5. QED
        BY <1>4, <2>4 DEF ControlFresh, DataStep
<1>5. CASE ReadPaused(w)
      BY <1>1, <1>5 DEF ReadPaused, LifeStep, DataStep, Active, States
<1>6. CASE ReadDenied(w)
      BY <1>1, <1>6 DEF ReadDenied, LifeStep, DataStep, Active, States
<1>7. CASE ReadDeliver(w)
  <2>1. UNCHANGED state /\ coverage' = [coverage EXCEPT ![job[w].id] = @ \cup {job[w].chunk}]
        BY <1>7 DEF ReadDeliver, tableVars
  <2>2. t # job[w].id => coverage'[t] = coverage[t]
        BY <1>1, <2>1
  <2>3. QED
        BY <1>7, <2>1, <2>2, Zenon DEF LifeStep, DataStep
<1>8. QED
      BY <1>2, <1>3, <1>4, <1>5, <1>6, <1>7
         DEF Serve, BeginExpired, ControlStale, ReadPollTimeout, ReadUnlock, ReadSource,
             ReadAllowed, ReadAlive, tableVars, LifeStep, DataStep

LEMMA NextLifeStep ==
    ASSUME TypeOK, [Next]_vars, NEW t \in TransferId
    PROVE  LifeStep(t) /\ DataStep(t)
<1>1. CASE UNCHANGED vars
      BY <1>1 DEF vars, tableVars, LifeStep, DataStep
<1>2. ASSUME NEW w \in Worker, Serve(w) PROVE LifeStep(t) /\ DataStep(t)
      BY <1>2, ServeLifeStep
<1>3. ASSUME NEW w \in Worker, Receive(w) PROVE UNCHANGED <<state, coverage>>
      BY <1>3 DEF Receive, RefuseRequest, AdmitBegin, AdmitControl, AdmitRead, tableVars
<1>4. CASE Tick \/ Revoke \/ PairAgain \/ CleanupExpiredSessions
      BY <1>4 DEF Tick, Revoke, PairAgain, CleanupExpiredSessions, tableVars, LifeStep, DataStep
<1>5. QED
      BY <1>1, <1>2, <1>3, <1>4 DEF Next, Step, LifeStep, DataStep

-----------------------------------------------------------------------------
(* The lock of a session, and what a read that has it knows. *)

\* A session that is locked stays as it is.
LEMMA LockedKeepsState ==
    ASSUME TypeOK, [Next]_vars, NEW t \in TransferId, Locked(t), state[t] # "Cancelled"
    PROVE  state'[t] # "Cancelled"
<1>1. state \in [TransferId -> States]
      BY DEF TypeOK, TableTypeOK
<1>2. ASSUME NEW w \in Worker, Serve(w) PROVE state'[t] # "Cancelled"
  <2>1. CASE CancelPeerTransfers(w)
        BY <1>1, <2>1 DEF CancelPeerTransfers, DoomedBy
  <2>2. CASE BeginTransfer(w)
    <3>1. UNCHANGED state \/ \E u \in TransferId : state' = [state EXCEPT ![u] = "Running"]
          BY <2>2 DEF BeginTransfer, BeginKnown, BeginBusy, BeginNew
    <3>2. QED
          BY <1>1, <3>1
  <2>3. CASE ControlFresh(w) \/ ReadPaused(w) \/ ReadDenied(w)
    <3>1. ~Locked(job[w].id)
          BY <2>3 DEF ControlFresh, ReadPaused, ReadDenied
    <3>2. UNCHANGED state \/ \E s : state' = [state EXCEPT ![job[w].id] = s]
          BY <2>3 DEF ControlFresh, ReadPaused, ReadDenied
    <3>3. QED
          BY <1>1, <3>1, <3>2
  <2>4. QED
        BY <1>2, <2>1, <2>2, <2>3
           DEF Serve, BeginExpired, ControlStale, ReadPollTimeout, ReadUnlock, ReadSource,
               ReadAllowed, ReadAlive,
             ReadDeliver, tableVars
<1>3. ASSUME NEW w \in Worker, Receive(w) PROVE UNCHANGED state
      BY <1>3 DEF Receive, RefuseRequest, AdmitBegin, AdmitControl, AdmitRead, tableVars
<1>4. CASE Tick \/ Revoke \/ PairAgain \/ CleanupExpiredSessions \/ UNCHANGED vars
      BY <1>4 DEF Tick, Revoke, PairAgain, CleanupExpiredSessions, tableVars, vars
<1>5. QED
      BY <1>2, <1>3, <1>4 DEF Next, Step

\* A read takes the lock after it asked the store, and goes on after it looked
\* at the clock and at the session.
LEMMA CheckStep ==
    ASSUME TypeOK, [Next]_vars, NEW v \in Worker, pc'[v] \in {"allowed", "alive"}
    PROVE  \/ pc[v] = pc'[v] /\ job'[v] = job[v]
           \/ ReadAllowed(v) /\ pc'[v] = "allowed" /\ UNCHANGED job
           \/ ReadAlive(v) /\ pc'[v] = "alive" /\ Survives(job[v].id) /\ UNCHANGED job
<1>1. pc \in [Worker -> Steps] /\ job \in [Worker -> Job]
      BY DEF TypeOK, WorkerTypeOK
<1>2. ASSUME NEW w \in Worker, Serve(w), ~ReadAllowed(w), ~ReadAlive(w)
      PROVE  pc[v] = pc'[v] /\ job'[v] = job[v]
  <2>1. CASE CancelPeerTransfers(w) \/ ControlFresh(w) \/ ReadDenied(w)
        BY <1>1, <2>1 DEF CancelPeerTransfers, ControlFresh, ReadDenied, Answer, AnswerAndNotify
  <2>2. CASE BeginExpired(w) \/ BeginTransfer(w) \/ ControlStale(w) \/ ReadDeliver(w)
        BY <1>1, <2>2 DEF BeginExpired, BeginTransfer, ControlStale, ReadDeliver, Answer
  <2>3. CASE ReadPaused(w)
        BY <1>1, <2>3 DEF ReadPaused, Answer, AnswerAndNotify, GoTo
  <2>4. CASE ReadPollTimeout(w) \/ ReadUnlock(w) \/ ReadSource(w)
        BY <1>1, <2>4 DEF ReadPollTimeout, ReadUnlock, ReadSource, Answer, GoTo
  <2>5. QED
        BY <1>2, <2>1, <2>2, <2>3, <2>4 DEF Serve
<1>3. ASSUME NEW w \in Worker, ReadAllowed(w)
      PROVE  \/ pc[v] = pc'[v] /\ job'[v] = job[v]
             \/ ReadAllowed(v) /\ pc'[v] = "allowed" /\ UNCHANGED job
  <2>1. pc' = [pc EXCEPT ![w] = "allowed"] /\ UNCHANGED job
        BY <1>3 DEF ReadAllowed, GoTo
  <2>2. QED
        BY <1>1, <1>3, <2>1
<1>4. ASSUME NEW w \in Worker, ReadAlive(w)
      PROVE  \/ pc[v] = pc'[v] /\ job'[v] = job[v]
             \/ ReadAlive(v) /\ pc'[v] = "alive" /\ Survives(job[v].id) /\ UNCHANGED job
  <2>1. CASE Survives(job[w].id)
    <3>1. pc' = [pc EXCEPT ![w] = "alive"] /\ UNCHANGED job
          BY <1>4, <2>1 DEF ReadAlive, GoTo
    <3>2. QED
          BY <1>1, <1>4, <2>1, <3>1
  <2>2. CASE ~Survives(job[w].id)
        BY <1>1, <1>4, <2>2 DEF ReadAlive, Answer
  <2>3. QED
        BY <2>1, <2>2
<1>5. ASSUME NEW w \in Worker, Receive(w) PROVE pc[v] = pc'[v] /\ job'[v] = job[v]
      BY <1>1, <1>5 DEF Receive, RefuseRequest, AdmitBegin, AdmitControl, AdmitRead
<1>6. CASE Tick \/ Revoke \/ PairAgain \/ CleanupExpiredSessions \/ UNCHANGED vars
      BY <1>6 DEF Tick, Revoke, PairAgain, CleanupExpiredSessions, vars
<1>7. QED
      BY <1>2, <1>3, <1>4, <1>5, <1>6 DEF Next, Step

\* A read that delivers next does so for a session that is not cancelled,
\* which the lock keeps so.
HeldIsOpen == \A w \in Worker : pc[w] = "alive" => state[job[w].id] # "Cancelled"

\* What a read has checked was so at some moment since it has its bytes.
CheckedIsWitnessed ==
    \A w \in Worker :
        /\ pc[w] \in {"allowed", "alive"} => "trusted" \in witnessed[w]
        /\ pc[w] = "alive" => "alive" \in witnessed[w]

LEMMA HeldStep == TypeOK /\ HeldIsOpen /\ [Next]_vars => HeldIsOpen'
<1> SUFFICES ASSUME TypeOK, HeldIsOpen, [Next]_vars, NEW v \in Worker, pc'[v] = "alive"
             PROVE  state'[job'[v].id] # "Cancelled"
    BY DEF HeldIsOpen
<1>1. CASE pc[v] = "alive" /\ job'[v] = job[v]
  <2>1. job[v].id \in TransferId
        BY <1>1 DEF TypeOK, WorkerTypeOK, JobOf, ReadJob
  <2>2. Locked(job[v].id) /\ state[job[v].id] # "Cancelled"
        BY <1>1 DEF Locked, HeldIsOpen
  <2>3. QED
        BY <1>1, <2>1, <2>2, LockedKeepsState
<1>2. CASE ReadAlive(v) /\ Survives(job[v].id) /\ UNCHANGED job
      BY <1>2 DEF ReadAlive, Survives, tableVars
<1>3. QED
      BY <1>1, <1>2, CheckStep

LEMMA WitnessedStep == TypeOK /\ CheckedIsWitnessed /\ [Next]_vars => CheckedIsWitnessed'
<1> SUFFICES ASSUME TypeOK, CheckedIsWitnessed, [Next]_vars, NEW v \in Worker,
                    pc'[v] \in {"allowed", "alive"}
             PROVE  "trusted" \in witnessed'[v] /\ (pc'[v] = "alive" => "alive" \in witnessed'[v])
    BY DEF CheckedIsWitnessed
<1>1. CASE UNCHANGED vars
      BY <1>1 DEF vars, CheckedIsWitnessed
<1>2. CASE Next
  <2>1. /\ Holding(v)' \subseteq witnessed'[v]
        /\ pc[v] \in Checks => witnessed[v] \subseteq witnessed'[v]
        BY <1>2 DEF Next, Witness, Checks
  <2>2. CASE pc[v] = pc'[v] /\ job'[v] = job[v]
        BY <2>1, <2>2 DEF CheckedIsWitnessed, Checks
  <2>3. CASE ReadAllowed(v) /\ pc'[v] = "allowed" /\ UNCHANGED job
    <3>1. PeerIsAllowed(owner[job[v].id])'
          BY <2>3 DEF ReadAllowed, StillAllowed, PeerIsAllowed, tableVars
    <3>2. "trusted" \in Holding(v)'
          BY <3>1 DEF Holding
    <3>3. QED
          BY <2>1, <2>3, <3>2
  <2>4. CASE ReadAlive(v) /\ pc'[v] = "alive" /\ Survives(job[v].id) /\ UNCHANGED job
    <3>1. ~Expired(job[v].id, clock)'
          BY <2>4 DEF ReadAlive, Survives, Expired, tableVars
    <3>2. "alive" \in Holding(v)'
          BY <3>1 DEF Holding
    <3>3. pc[v] = "allowed"
          BY <2>4 DEF ReadAlive
    <3>4. QED
          BY <2>1, <3>2, <3>3 DEF CheckedIsWitnessed, Checks
  <2>5. QED
        BY <2>2, <2>3, <2>4, CheckStep
<1>3. QED
      BY <1>1, <1>2

LEMMA ChecksHold == Spec => [](HeldIsOpen /\ CheckedIsWitnessed /\ HistoryTypeOK)
<1>1. Init => HeldIsOpen /\ CheckedIsWitnessed /\ HistoryTypeOK
      BY DEF Init, HeldIsOpen, CheckedIsWitnessed, HistoryTypeOK
<1>2. HistoryTypeOK /\ [Next]_vars => HistoryTypeOK'
  <2>1. CASE UNCHANGED vars
        BY <2>1 DEF vars, HistoryTypeOK
  <2>2. ASSUME HistoryTypeOK, Next PROVE HistoryTypeOK'
        BY <2>2 DEF Next, Witness, Holding, HistoryTypeOK
  <2>3. QED
        BY <2>1, <2>2
<1>3. QED
      BY <1>1, <1>2, HeldStep, WitnessedStep, TypeCorrect, PTL DEF Spec

\* Cancelled and Completed are final, and a read that was under way when its
\* session was cancelled notes nothing: read_range looks at the session again
\* after source.read_at, and keeps its lock until the range is noted.
THEOREM TerminalStatesAreFinal == Spec => TerminalIsFinal
<1>1. TypeOK /\ HeldIsOpen /\ [Next]_vars =>
        [\A t \in TransferId :
          /\ state[t] \in {"Cancelled", "Completed"} => state'[t] = state[t]
          /\ state[t] = "Cancelled" => coverage'[t] = coverage[t]]_vars
  <2>1. SUFFICES ASSUME TypeOK, HeldIsOpen, [Next]_vars, NEW t \in TransferId
                 PROVE  /\ state[t] \in {"Cancelled", "Completed"} => state'[t] = state[t]
                        /\ state[t] = "Cancelled" => coverage'[t] = coverage[t]
        OBVIOUS
  <2>2. ASSUME NEW w \in Worker, ReadDeliver(w) PROVE state[job[w].id] # "Cancelled"
        BY <2>1, <2>2 DEF ReadDeliver, HeldIsOpen
  <2>3. LifeStep(t) /\ DataStep(t)
        BY <2>1, NextLifeStep
  <2>4. QED
        BY <2>2, <2>3 DEF LifeStep, DataStep, Active
<1>2. QED
      BY <1>1, ChecksHold, TypeCorrect, PTL DEF Spec, TerminalIsFinal

\* Whatever revocations, pairings and expiries fall between the checks of a
\* read, what it hands out was read before the session expired, from a peer
\* that was trusted after that.
THEOREM DeliveriesAreAuthorised == Spec => DeliveryIsAuthorised
<1>1. TypeOK /\ CheckedIsWitnessed /\ HistoryTypeOK /\ [Next]_vars =>
        [\A t \in TransferId : coverage'[t] # coverage[t] =>
          \E w \in Worker :
             /\ pc[w] # "idle" /\ pc'[w] = "idle" /\ job[w].id = t
             /\ witnessed[w] = {"trusted", "alive"}]_vars
  <2>1. SUFFICES ASSUME TypeOK, CheckedIsWitnessed, HistoryTypeOK, [Next]_vars,
                        NEW t \in TransferId, coverage'[t] # coverage[t]
                 PROVE  \E w \in Worker :
                           /\ pc[w] # "idle" /\ pc'[w] = "idle" /\ job[w].id = t
                           /\ witnessed[w] = {"trusted", "alive"}
        OBVIOUS
  <2>2. PICK w \in Worker : ReadDeliver(w) /\ job[w].id = t
        BY <2>1, NextLifeStep DEF DataStep
  <2>3. pc[w] = "alive" /\ pc' = [pc EXCEPT ![w] = "idle"]
        BY <2>2 DEF ReadDeliver, Answer
  <2>4. pc'[w] = "idle"
        BY <2>1, <2>3 DEF TypeOK, WorkerTypeOK
  <2>5. witnessed[w] = {"trusted", "alive"}
        BY <2>1, <2>3 DEF CheckedIsWitnessed, HistoryTypeOK
  <2>6. QED
        BY <2>2, <2>3, <2>4, <2>5
<1>2. QED
      BY <1>1, ChecksHold, TypeCorrect, PTL DEF Spec, DeliveryIsAuthorised

-----------------------------------------------------------------------------
(* The order of the commands. *)

\* What is needed besides the order itself: nothing consumed is later than the
\* recorded last command.
ConsumedUpToLast ==
    \A t \in TransferId : \A i \in 1 .. Len(accepted[t]) : accepted[t][i] <= lastSeq[t]

OrderInv == AcceptedInIssueOrder /\ ConsumedUpToLast

\* A step consumes nothing, or one issued command later than the last.
LEMMA ConsumeStep ==
    ASSUME TypeOK, [Next]_vars
    PROVE  \/ UNCHANGED <<lastSeq, accepted>>
           \/ \E t \in TransferId, q \in 1 .. MaxCommands :
                /\ q > lastSeq[t] /\ q <= Len(issued[t])
                /\ lastSeq' = [lastSeq EXCEPT ![t] = q]
                /\ accepted' = [accepted EXCEPT ![t] = Append(@, q)]
<1>1. CASE UNCHANGED vars
      BY <1>1 DEF vars, controlVars
<1>2. ASSUME NEW w \in Worker, Serve(w), ~ControlFresh(w)
      PROVE  UNCHANGED <<lastSeq, accepted>>
      BY <1>2 DEF Serve, CancelPeerTransfers, BeginExpired, BeginTransfer, BeginKnown, BeginBusy,
             BeginNew, ControlStale, ReadPaused, ReadPollTimeout, ReadUnlock, ReadSource,
             ReadAllowed, ReadDenied, ReadAlive, ReadDeliver, controlVars
<1>3. ASSUME NEW w \in Worker, ControlFresh(w)
      PROVE  \E t \in TransferId, q \in 1 .. MaxCommands :
                /\ q > lastSeq[t] /\ q <= Len(issued[t])
                /\ lastSeq' = [lastSeq EXCEPT ![t] = q]
                /\ accepted' = [accepted EXCEPT ![t] = Append(@, q)]
  <2>1. /\ job[w].id \in TransferId /\ job[w].seq \in 1 .. MaxCommands
        /\ job[w].seq <= Len(issued[job[w].id])
        BY <1>3 DEF ControlFresh, TypeOK, WorkerTypeOK, JobOf, ControlJob
  <2>2. QED
        BY <1>3, <2>1 DEF ControlFresh, IsFresh
<1>4. ASSUME NEW w \in Worker, Receive(w) PROVE UNCHANGED <<lastSeq, accepted>>
      BY <1>4 DEF Receive, RefuseRequest, AdmitBegin, AdmitControl, AdmitRead, controlVars
<1>5. CASE Tick \/ Revoke \/ PairAgain \/ CleanupExpiredSessions
      BY <1>5 DEF Tick, Revoke, PairAgain, CleanupExpiredSessions, controlVars
<1>6. QED
      BY <1>1, <1>2, <1>3, <1>4, <1>5 DEF Next, Step

LEMMA OrderStep == TypeOK /\ OrderInv /\ [Next]_vars => OrderInv'
<1> SUFFICES ASSUME TypeOK, OrderInv, [Next]_vars PROVE OrderInv'
    OBVIOUS
<1>1. CASE UNCHANGED <<lastSeq, accepted>>
      BY <1>1 DEF OrderInv, AcceptedInIssueOrder, ConsumedUpToLast
<1>2. ASSUME NEW u \in TransferId, NEW q \in 1 .. MaxCommands,
             q > lastSeq[u],
             lastSeq' = [lastSeq EXCEPT ![u] = q],
             accepted' = [accepted EXCEPT ![u] = Append(@, q)]
      PROVE  OrderInv'
  <2>1. /\ lastSeq \in [TransferId -> Int] /\ q \in Int
        /\ \A t \in TransferId : accepted[t] \in Seq(Int)
        /\ accepted \in [TransferId -> Seq(1 .. MaxCommands)]
        BY ServerAssumption DEF TypeOK, ControlTypeOK, ServerAssumption
  <2>2. ASSUME NEW t \in TransferId, t # u
        PROVE  UNCHANGED <<lastSeq[t], accepted[t]>>
        BY <1>2, <2>1, <2>2
  <2>3. lastSeq'[u] = q /\ accepted'[u] = Append(accepted[u], q)
        BY <1>2, <2>1
  <2>4. /\ Len(accepted'[u]) = Len(accepted[u]) + 1
        /\ accepted'[u][Len(accepted[u]) + 1] = q
        /\ \A i \in 1 .. Len(accepted[u]) : accepted'[u][i] = accepted[u][i]
        /\ Len(accepted[u]) \in Nat
        BY <2>1, <2>3
  <2>5. \A i \in 1 .. Len(accepted[u]) : accepted[u][i] < q
    <3>1. ASSUME NEW i \in 1 .. Len(accepted[u]) PROVE accepted[u][i] < q
      <4>1. accepted[u][i] \in Int /\ accepted[u][i] <= lastSeq[u] /\ lastSeq[u] \in Int
            BY <2>1, <3>1 DEF OrderInv, ConsumedUpToLast
      <4>2. QED
            BY <4>1, <1>2, <2>1
    <3>2. QED
          BY <3>1
  <2>6. \A t \in TransferId : \A i \in 1 .. Len(accepted'[t]) : accepted'[t][i] <= lastSeq'[t]
    <3>1. ASSUME NEW t \in TransferId, t # u, NEW i \in 1 .. Len(accepted'[t])
          PROVE  accepted'[t][i] <= lastSeq'[t]
          BY <2>2, <3>1 DEF OrderInv, ConsumedUpToLast
    <3>2. ASSUME NEW i \in 1 .. Len(accepted'[u]) PROVE accepted'[u][i] <= lastSeq'[u]
          BY <2>1, <2>3, <2>4, <2>5, <3>2
    <3>3. QED
          BY <3>1, <3>2
  <2>7. \A t \in TransferId : \A i, j \in 1 .. Len(accepted'[t]) :
            i < j => accepted'[t][i] < accepted'[t][j]
    <3>1. ASSUME NEW t \in TransferId, t # u, NEW i \in 1 .. Len(accepted'[t]),
                 NEW j \in 1 .. Len(accepted'[t]), i < j
          PROVE  accepted'[t][i] < accepted'[t][j]
          BY <2>2, <3>1 DEF OrderInv, AcceptedInIssueOrder
    <3>2. ASSUME NEW i \in 1 .. Len(accepted'[u]), NEW j \in 1 .. Len(accepted'[u]), i < j
          PROVE  accepted'[u][i] < accepted'[u][j]
      <4>1. i \in 1 .. Len(accepted[u])
            BY <2>4, <3>2
      <4>2. CASE j \in 1 .. Len(accepted[u])
            BY <2>4, <3>2, <4>1, <4>2 DEF OrderInv, AcceptedInIssueOrder
      <4>3. CASE j = Len(accepted[u]) + 1
            BY <2>4, <2>5, <4>1, <4>3
      <4>4. QED
            BY <2>4, <3>2, <4>2, <4>3
    <3>3. QED
          BY <3>1, <3>2
  <2>8. QED
        BY <2>6, <2>7 DEF OrderInv, AcceptedInIssueOrder, ConsumedUpToLast
<1>3. QED
      BY <1>1, <1>2, ConsumeStep

\* Every command is consumed at most once and never after a later one, however
\* requests are delayed, repeated and spread over the workers.
THEOREM CommandsInOrder == Spec => []AcceptedInIssueOrder
<1>1. Init => OrderInv
      BY DEF Init, OrderInv, AcceptedInIssueOrder, ConsumedUpToLast
<1>2. OrderInv => AcceptedInIssueOrder
      BY DEF OrderInv
<1>3. QED
      BY <1>1, <1>2, OrderStep, TypeCorrect, PTL DEF Spec

-----------------------------------------------------------------------------
(* Capacity. *)

\* Only a begin that found room adds a session to the table or makes one active.
LEMMA TableStep ==
    ASSUME TypeOK, [Next]_vars
    PROVE  \/ /\ transfers' \subseteq transfers
              /\ \A t \in TransferId : state'[t] \in Active => state[t] \in Active
           \/ \E u \in TransferId, now \in Int :
                /\ ~AtCapacity(now)
                /\ state' = [state EXCEPT ![u] = "Running"]
                /\ transfers' = LiveTransfers(now) \cup {u}
<1> DEFINE Shrinks == /\ transfers' \subseteq transfers
                      /\ \A t \in TransferId : state'[t] \in Active => state[t] \in Active
           Grows == \E u \in TransferId, now \in Int :
                       /\ ~AtCapacity(now)
                       /\ state' = [state EXCEPT ![u] = "Running"]
                       /\ transfers' = LiveTransfers(now) \cup {u}
<1>1. CASE UNCHANGED vars
      BY <1>1 DEF vars, tableVars
<1>2. ASSUME NEW w \in Worker, BeginTransfer(w)
      PROVE  Shrinks \/ Grows
  <2>1. job[w] \in BeginJob
        BY <1>2 DEF BeginTransfer, TypeOK, WorkerTypeOK, JobOf
  <2>2. PICK now \in job[w].since .. clock :
            BeginKnown(w, now) \/ BeginBusy(w, now) \/ BeginNew(w, now)
        BY <1>2 DEF BeginTransfer
  <2>3. CASE BeginKnown(w, now) \/ BeginBusy(w, now)
        BY <2>3 DEF BeginKnown, BeginBusy, LiveTransfers
  <2>4. CASE BeginNew(w, now)
    <3>1. ~AtCapacity(now) /\ \E u \in TransferId :
              /\ state' = [state EXCEPT ![u] = "Running"]
              /\ transfers' = LiveTransfers(now) \cup {u}
          BY <2>4 DEF BeginNew
    <3>2. now \in Int
          BY <2>2
    <3>3. Grows
          BY <3>1, <3>2
    <3>4. QED
          BY <3>3
  <2>5. QED
        BY <2>2, <2>3, <2>4
<1>3. ASSUME NEW w \in Worker, Serve(w), ~BeginTransfer(w)
      PROVE  Shrinks
  <2>1. ASSUME NEW t \in TransferId, state'[t] \in Active PROVE state[t] \in Active
    <3>1. state'[t] # "none" /\ state[t] # "none"
          BY <1>3, <2>1, ServeMakesNoSession DEF Active
    <3>2. LifeStep(t)
          BY <1>3, ServeLifeStep
    <3>3. QED
          BY <2>1, <3>1, <3>2 DEF LifeStep
  <2>2. UNCHANGED transfers
        BY <1>3 DEF Serve, CancelPeerTransfers, BeginExpired, ControlStale, ControlFresh, ReadPaused,
               ReadPollTimeout, ReadUnlock, ReadSource, ReadAllowed, ReadDenied, ReadAlive,
             ReadDeliver, tableVars
  <2>3. QED
        BY <2>1, <2>2
<1>4. ASSUME NEW w \in Worker, Receive(w) PROVE Shrinks
      BY <1>4 DEF Receive, RefuseRequest, AdmitBegin, AdmitControl, AdmitRead, tableVars
<1>5. CASE Tick \/ Revoke \/ PairAgain \/ CleanupExpiredSessions
      BY <1>5 DEF Tick, Revoke, PairAgain, CleanupExpiredSessions, LiveTransfers, tableVars
<1>6. QED
      BY <1>1, <1>2, <1>3, <1>4, <1>5 DEF Next, Step

\* Sets of sessions are finite.
LEMMA SessionsFinite ==
    ASSUME NEW S \in SUBSET TransferId
    PROVE  IsFiniteSet(S) /\ Cardinality(S) \in Nat
  BY FS_Subset, FS_CardinalityType, ServerAssumption DEF ServerAssumption

\* One more session adds at most one.
LEMMA OneMore ==
    ASSUME NEW S \in SUBSET TransferId, NEW u \in TransferId
    PROVE  Cardinality(S \cup {u}) <= Cardinality(S) + 1
<1>1. IsFiniteSet(S) /\ Cardinality(S) \in Nat
      BY SessionsFinite
<1>2. Cardinality(S \cup {u}) = IF u \in S THEN Cardinality(S) ELSE Cardinality(S) + 1
      BY <1>1, FS_AddElement
<1>3. QED
      BY <1>1, <1>2

LEMMA CapacityStep == TypeOK /\ CapacityRespected /\ [Next]_vars => CapacityRespected'
<1> SUFFICES ASSUME TypeOK, CapacityRespected, [Next]_vars PROVE CapacityRespected'
    OBVIOUS
<1> DEFINE A  == {t \in transfers : state[t] \in Active}
           A1 == {t \in transfers' : state'[t] \in Active}
<1>1. transfers \in SUBSET TransferId /\ state \in [TransferId -> States]
      BY DEF TypeOK, TableTypeOK
<1>2. MaxActiveTransfers \in Nat /\ MaxBeginNonces \in Nat
      BY ServerAssumption DEF ServerAssumption
<1>3. Cardinality(A) <= MaxActiveTransfers /\ Cardinality(transfers) <= MaxBeginNonces
      BY DEF CapacityRespected
<1>4. ASSUME transfers' \subseteq transfers,
             \A t \in TransferId : state'[t] \in Active => state[t] \in Active
      PROVE  CapacityRespected'
  <2>1. A1 \in SUBSET A /\ A \in SUBSET TransferId /\ transfers' \in SUBSET transfers
        BY <1>1, <1>4
  <2> HIDE DEF A, A1
  <2>2. /\ Cardinality(A1) <= Cardinality(A) /\ Cardinality(transfers') <= Cardinality(transfers)
        BY <2>1, <1>1, SessionsFinite, FS_Subset
  <2>3. /\ Cardinality(A1) \in Nat /\ Cardinality(A) \in Nat
        /\ Cardinality(transfers') \in Nat /\ Cardinality(transfers) \in Nat
        BY <2>1, <1>1, SessionsFinite
  <2>4. Cardinality(A1) <= MaxActiveTransfers /\ Cardinality(transfers') <= MaxBeginNonces
        BY <2>2, <2>3, <1>2, <1>3
  <2>5. QED
        BY <2>4 DEF CapacityRespected, A1
<1>5. ASSUME NEW u \in TransferId, NEW now \in Int,
             ~AtCapacity(now),
             state' = [state EXCEPT ![u] = "Running"],
             transfers' = LiveTransfers(now) \cup {u}
      PROVE  CapacityRespected'
  <2> DEFINE L == LiveTransfers(now)
             B == {t \in L : state[t] \in Active}
  <2>1. L \in SUBSET TransferId /\ B \in SUBSET TransferId
        BY <1>1 DEF LiveTransfers
  <2>2. ~(Cardinality(B) >= MaxActiveTransfers) /\ ~(Cardinality(L) >= MaxBeginNonces)
        BY <1>5 DEF AtCapacity
  <2>3. A1 \in SUBSET (B \cup {u}) /\ transfers' = L \cup {u}
        BY <1>1, <1>5
  <2> HIDE DEF L, B, A1
  <2>4. /\ Cardinality(L) \in Nat /\ Cardinality(B) \in Nat
        /\ IsFiniteSet(L) /\ IsFiniteSet(B)
        BY <2>1, SessionsFinite
  <2>5. /\ IsFiniteSet(B \cup {u})
        /\ Cardinality(B \cup {u}) <= Cardinality(B) + 1
        /\ Cardinality(L \cup {u}) <= Cardinality(L) + 1
    <3>1. IsFiniteSet(B \cup {u})
          BY <2>4, FS_AddElement
    <3>2. QED
          BY <2>1, <3>1, OneMore
  <2>6. Cardinality(A1) <= Cardinality(B \cup {u})
        BY <2>3, <2>5, FS_Subset
  <2>7. B \cup {u} \in SUBSET TransferId /\ L \cup {u} \in SUBSET TransferId
        /\ A1 \in SUBSET TransferId
        BY <2>1, <2>3
  <2>8. /\ Cardinality(B \cup {u}) \in Nat /\ Cardinality(L \cup {u}) \in Nat
        /\ Cardinality(A1) \in Nat
        BY <2>7, SessionsFinite
  <2>9. Cardinality(A1) <= MaxActiveTransfers /\ Cardinality(L \cup {u}) <= MaxBeginNonces
        BY <2>2, <2>4, <2>5, <2>6, <2>8, <1>2
  <2>10. QED
        BY <2>3, <2>9 DEF CapacityRespected, A1
<1>6. QED
      BY <1>4, <1>5, TableStep

\* A flood of begins never makes the table outgrow its two limits.
THEOREM TableIsBounded == Spec => []CapacityRespected
<1>1. Init => CapacityRespected
  <2>1. SUFFICES ASSUME Init PROVE CapacityRespected
        OBVIOUS
  <2>2. transfers = {} /\ {t \in transfers : state[t] \in Active} = {}
        BY <2>1 DEF Init
  <2>3. Cardinality({}) = 0
        BY FS_EmptySet
  <2>4. QED
        BY <2>2, <2>3, ServerAssumption DEF CapacityRespected, ServerAssumption
<1>2. QED
      BY <1>1, CapacityStep, TypeCorrect, PTL DEF Spec

-----------------------------------------------------------------------------
(* The count of cancelled sessions. *)

CancelledSessions == {t \in TransferId : state[t] = "Cancelled"}

\* Whichever of the four places cancels, it counts the sessions it cancels, and
\* none of them was cancelled before.
CountStep ==
    \E D \in SUBSET TransferId :
        /\ D \cap CancelledSessions = {}
        /\ CancelledSessions' = CancelledSessions \cup D
        /\ cancelled' = cancelled + Cardinality(D)

LEMMA NoCount ==
    ASSUME TypeOK, UNCHANGED cancelled, CancelledSessions' = CancelledSessions
    PROVE  CountStep
<1>1. cancelled \in Nat /\ Cardinality({}) = 0
      BY FS_EmptySet DEF TypeOK, TableTypeOK
<1>2. {} \in SUBSET TransferId /\ {} \cap CancelledSessions = {}
      OBVIOUS
<1>3. cancelled' = cancelled + Cardinality({})
      BY <1>1
<1>4. QED
      BY <1>2, <1>3 DEF CountStep

LEMMA CountOne ==
    ASSUME TypeOK, NEW u \in TransferId, state[u] # "Cancelled",
           state' = [state EXCEPT ![u] = "Cancelled"], cancelled' = cancelled + 1
    PROVE  CountStep
<1>1. Cardinality({u}) = 1
      BY FS_Singleton
<1>2. CancelledSessions' = CancelledSessions \cup {u} /\ {u} \cap CancelledSessions = {}
      BY DEF CancelledSessions, TypeOK, TableTypeOK
<1>3. cancelled' = cancelled + Cardinality({u}) /\ {u} \in SUBSET TransferId
      BY <1>1
<1>4. QED
      BY <1>2, <1>3 DEF CountStep

LEMMA ServeCounts ==
    ASSUME TypeOK, NEW w \in Worker, Serve(w)
    PROVE  CountStep
<1>0. state \in [TransferId -> States] /\ transfers \in SUBSET TransferId
      BY DEF TypeOK, TableTypeOK
<1>1. CASE CancelPeerTransfers(w)
  <2>1. PICK D : D = DoomedBy(job[w].peer)
        OBVIOUS
  <2>2. /\ state' = [t \in TransferId |-> IF t \in D THEN "Cancelled" ELSE state[t]]
        /\ cancelled' = cancelled + Cardinality(D)
        BY <1>1, <2>1 DEF CancelPeerTransfers
  <2>3. D \in SUBSET TransferId /\ D \cap CancelledSessions = {}
        BY <1>0, <2>1 DEF DoomedBy, CancelledSessions, Active
  <2>4. CancelledSessions' = CancelledSessions \cup D
        BY <2>2, <2>3 DEF CancelledSessions
  <2>5. QED
        BY <2>2, <2>3, <2>4 DEF CountStep
<1>2. CASE BeginTransfer(w)
  <2>1. UNCHANGED state \/ \E u \in TransferId :
            state[u] = "none" /\ state' = [state EXCEPT ![u] = "Running"]
        BY <1>2 DEF BeginTransfer, BeginKnown, BeginBusy, BeginNew
  <2>2. CancelledSessions' = CancelledSessions
        BY <1>0, <2>1 DEF CancelledSessions
  <2>3. UNCHANGED cancelled
        BY <1>2 DEF BeginTransfer
  <2>4. QED
        BY <2>2, <2>3, NoCount
<1>3. CASE ControlFresh(w)
  <2>1. PICK u \in TransferId, op \in Opcode : u = job[w].id /\ op = issued[u][job[w].seq]
        BY <1>3 DEF ControlFresh, TypeOK, WorkerTypeOK, ControlTypeOK, JobOf, ControlJob
  <2>2. /\ state' = [state EXCEPT ![u] = Obey(op, state[u])]
        /\ cancelled' = IF Obey(op, state[u]) = "Cancelled" /\ state[u] # Obey(op, state[u])
                        THEN cancelled + 1 ELSE cancelled
        BY <1>3, <2>1 DEF ControlFresh
  <2>3. CASE Obey(op, state[u]) = "Cancelled" /\ state[u] # "Cancelled"
        BY <2>2, <2>3, CountOne
  <2>4. CASE ~(Obey(op, state[u]) = "Cancelled" /\ state[u] # "Cancelled")
    <3>1. state[u] = "Cancelled" => Obey(op, state[u]) = "Cancelled"
          BY <1>0, ObeyType
    <3>2. UNCHANGED cancelled
          BY <2>2, <2>4
    <3>3. CancelledSessions' = CancelledSessions
          BY <1>0, <2>2, <2>4, <3>1 DEF CancelledSessions
    <3>4. QED
          BY <3>2, <3>3, NoCount
  <2>5. QED
        BY <2>3, <2>4
<1>4. CASE ReadPaused(w) \/ ReadDenied(w)
  <2>1. job[w].id \in TransferId
        BY <1>4 DEF ReadPaused, ReadDenied, TypeOK, WorkerTypeOK, JobOf, ReadJob
  <2>2. \/ /\ state' = [state EXCEPT ![job[w].id] = "Cancelled"]
           /\ cancelled' = cancelled + 1
           /\ state[job[w].id] \in Active
        \/ UNCHANGED <<state, cancelled>>
        BY <1>0, <1>4, <2>1 DEF ReadPaused, ReadDenied, Active
  <2>3. QED
        BY <2>1, <2>2, CountOne, NoCount DEF Active, CancelledSessions
<1>5. CASE ~(CancelPeerTransfers(w) \/ BeginTransfer(w) \/ ControlFresh(w)
               \/ ReadPaused(w) \/ ReadDenied(w))
  <2>1. UNCHANGED <<state, cancelled>>
        BY <1>5 DEF Serve, BeginExpired, ControlStale, ReadPollTimeout, ReadUnlock, ReadSource,
               ReadAllowed, ReadAlive,
             ReadDeliver, tableVars
  <2>2. QED
        BY <2>1, NoCount DEF CancelledSessions
<1>6. QED
      BY <1>1, <1>2, <1>3, <1>4, <1>5

LEMMA NextCounts ==
    ASSUME TypeOK, [Next]_vars
    PROVE  CountStep
<1>1. ASSUME UNCHANGED <<state, cancelled>> PROVE CountStep
      BY <1>1, NoCount DEF CancelledSessions
<1>2. CASE UNCHANGED vars
      BY <1>1, <1>2 DEF vars, tableVars
<1>3. ASSUME NEW w \in Worker, Receive(w) PROVE UNCHANGED <<state, cancelled>>
      BY <1>3 DEF Receive, RefuseRequest, AdmitBegin, AdmitControl, AdmitRead, tableVars
<1>4. CASE Tick \/ Revoke \/ PairAgain \/ CleanupExpiredSessions
      BY <1>1, <1>4 DEF Tick, Revoke, PairAgain, CleanupExpiredSessions, tableVars
<1>5. QED
      BY <1>1, <1>2, <1>3, <1>4, ServeCounts DEF Next, Step

\* A session that a control, a refusal and two reads race to cancel is counted
\* once.
THEOREM CancellationsCountedOnce == Spec => []CancelledCountedOnce
<1>1. Init => CancelledCountedOnce
  <2>1. SUFFICES ASSUME Init PROVE CancelledCountedOnce
        OBVIOUS
  <2>2. {t \in TransferId : state[t] = "Cancelled"} = {} /\ cancelled = 0
        BY <2>1 DEF Init
  <2>3. QED
        BY <2>2, FS_EmptySet DEF CancelledCountedOnce
<1>2. TypeOK /\ CancelledCountedOnce /\ [Next]_vars => CancelledCountedOnce'
  <2>1. SUFFICES ASSUME TypeOK, CancelledCountedOnce, [Next]_vars PROVE CancelledCountedOnce'
        OBVIOUS
  <2>2. PICK D \in SUBSET TransferId :
            /\ D \cap CancelledSessions = {}
            /\ CancelledSessions' = CancelledSessions \cup D
            /\ cancelled' = cancelled + Cardinality(D)
        BY <2>1, NextCounts DEF CountStep
  <2>3. CancelledSessions \in SUBSET TransferId
        BY DEF CancelledSessions
  <2>4. /\ IsFiniteSet(D) /\ Cardinality(D) \in Nat
        /\ IsFiniteSet(CancelledSessions) /\ Cardinality(CancelledSessions) \in Nat
        BY <2>2, <2>3, SessionsFinite
  <2>5. Cardinality(CancelledSessions \cup D) =
            Cardinality(CancelledSessions) + Cardinality(D) - Cardinality(CancelledSessions \cap D)
        BY <2>4, FS_Union
  <2>6. Cardinality(CancelledSessions \cap D) = 0
        BY <2>2, FS_EmptySet
  <2>7. Cardinality(CancelledSessions \cup D) = Cardinality(CancelledSessions) + Cardinality(D)
        BY <2>4, <2>5, <2>6
  <2>8. cancelled = Cardinality(CancelledSessions)
        BY <2>1 DEF CancelledCountedOnce, CancelledSessions
  <2>9. cancelled' = Cardinality(CancelledSessions')
        BY <2>2, <2>7, <2>8
  <2>10. QED
        BY <2>9 DEF CancelledCountedOnce, CancelledSessions
<1>3. QED
      BY <1>1, <1>2, TypeCorrect, PTL DEF Spec


-----------------------------------------------------------------------------
(* The cause of a cancellation. *)

\* Sessions are opened for the authorised peer alone, so a refused request of
\* another peer finds none to cancel, and one of the authorised peer means that
\* its record was removed.
OwnersKnown == \A t \in TransferId : owner[t] = AuthorizedPeer

RevocationNoted ==
    /\ ~trusted => everRevoked
    /\ \A w \in Worker : pc[w] = "refused" /\ job[w].peer = AuthorizedPeer => everRevoked

\* What is consumed was issued.
ConsumedIssued ==
    \A t \in TransferId : \A i \in 1 .. Len(accepted[t]) : accepted[t][i] \in 1 .. Len(issued[t])

CauseInv == OwnersKnown /\ RevocationNoted /\ ConsumedIssued /\ CancelHasACause

LEMMA OwnersStep == TypeOK /\ OwnersKnown /\ [Next]_vars => OwnersKnown'
<1> SUFFICES ASSUME TypeOK, OwnersKnown, [Next]_vars PROVE OwnersKnown'
    OBVIOUS
<1>1. ASSUME NEW w \in Worker, BeginTransfer(w) PROVE OwnersKnown'
  <2>1. UNCHANGED owner
           \/ \E t \in TransferId : owner' = [owner EXCEPT ![t] = AuthorizedPeer]
        BY <1>1 DEF BeginTransfer, BeginKnown, BeginBusy, BeginNew
  <2>2. owner \in [TransferId -> Peer]
        BY DEF TypeOK, TableTypeOK
  <2>3. QED
        BY <2>1, <2>2 DEF OwnersKnown
<1>2. ASSUME NEW w \in Worker, Serve(w), ~BeginTransfer(w) PROVE UNCHANGED owner
      BY <1>2 DEF Serve, CancelPeerTransfers, BeginExpired, ControlStale, ControlFresh,
         ReadPaused, ReadPollTimeout, ReadUnlock, ReadSource, ReadAllowed, ReadDenied, ReadAlive,
             ReadDeliver, tableVars
<1>3. ASSUME NEW w \in Worker, Receive(w) PROVE UNCHANGED owner
      BY <1>3 DEF Receive, RefuseRequest, AdmitBegin, AdmitControl, AdmitRead, tableVars
<1>4. CASE Tick \/ Revoke \/ PairAgain \/ CleanupExpiredSessions \/ UNCHANGED vars
      BY <1>4 DEF Tick, Revoke, PairAgain, CleanupExpiredSessions, tableVars, vars, OwnersKnown
<1>5. QED
      BY <1>1, <1>2, <1>3, <1>4 DEF Next, Step, OwnersKnown

\* A worker comes to refuse a peer only while that peer is not allowed, and a
\* revocation is never unnoted.
LEMMA RefusalStep ==
    ASSUME TypeOK, OwnersKnown, [Next]_vars, NEW v \in Worker,
           pc'[v] = "refused", job'[v].peer = AuthorizedPeer
    PROVE  (pc[v] = "refused" /\ job[v].peer = AuthorizedPeer) \/ ~trusted
<1>1. pc \in [Worker -> Steps] /\ job \in [Worker -> Job]
      BY DEF TypeOK, WorkerTypeOK
<1>2. ASSUME NEW w \in Worker, ReadUnlock(w)
      PROVE  (pc[v] = "refused" /\ job[v].peer = AuthorizedPeer) \/ ~trusted
  <2>1. CASE PeerIsAllowed(owner[job[w].id])
        BY <1>1, <1>2, <2>1 DEF ReadUnlock, GoTo, Answer
  <2>2. CASE ~PeerIsAllowed(owner[job[w].id])
    <3>1. job[w].id \in TransferId
          BY <1>2 DEF ReadUnlock, TypeOK, WorkerTypeOK, JobOf, ReadJob
    <3>2. ~trusted
          BY <2>2, <3>1 DEF PeerIsAllowed, OwnersKnown
    <3>3. QED
          BY <3>2
  <2>3. QED
        BY <2>1, <2>2
<1>3. ASSUME NEW w \in Worker, Serve(w), ~ReadUnlock(w)
      PROVE  pc[v] = "refused" /\ job[v].peer = AuthorizedPeer
  <2>1. CASE CancelPeerTransfers(w)
        BY <1>1, <1>3, <2>1 DEF CancelPeerTransfers, AnswerAndNotify
  <2>2. CASE BeginExpired(w) \/ BeginTransfer(w) \/ ControlStale(w) \/ ReadDeliver(w)
        BY <1>1, <1>3, <2>2 DEF BeginExpired, BeginTransfer, ControlStale, ReadDeliver, Answer
  <2>3. CASE ControlFresh(w)
        BY <1>1, <1>3, <2>3 DEF ControlFresh, Answer, AnswerAndNotify
  <2>4. CASE ReadPaused(w)
        BY <1>1, <1>3, <2>4 DEF ReadPaused, Answer, AnswerAndNotify, GoTo
  <2>5. CASE ReadPollTimeout(w) \/ ReadSource(w) \/ ReadAllowed(w) \/ ReadAlive(w)
        BY <1>1, <1>3, <2>5 DEF ReadPollTimeout, ReadSource, ReadAllowed, ReadAlive, Answer, GoTo
  <2>6. CASE ReadDenied(w)
        BY <1>1, <1>3, <2>6 DEF ReadDenied, Answer, AnswerAndNotify
  <2>7. QED
        BY <1>3, <2>1, <2>2, <2>3, <2>4, <2>5, <2>6 DEF Serve
<1>4. ASSUME NEW w \in Worker, Receive(w)
      PROVE  (pc[v] = "refused" /\ job[v].peer = AuthorizedPeer) \/ ~trusted
  <2>1. ASSUME NEW p \in Peer, RefuseRequest(w, p)
        PROVE  (pc[v] = "refused" /\ job[v].peer = AuthorizedPeer) \/ ~trusted
        BY <1>1, <2>1 DEF RefuseRequest, PeerIsAllowed
  <2>2. ASSUME NEW n \in Nonce, AdmitBegin(w, n)
        PROVE  pc[v] = "refused" /\ job[v].peer = AuthorizedPeer
        BY <1>1, <2>2 DEF AdmitBegin
  <2>3. ASSUME NEW t \in TransferId, NEW q \in 1 .. MaxCommands, NEW op \in Opcode,
               AdmitControl(w, t, q, op)
        PROVE  pc[v] = "refused" /\ job[v].peer = AuthorizedPeer
    <3>1. /\ pc' = [pc EXCEPT ![w] = "control"]
          /\ job' = [job EXCEPT ![w] = [id |-> t, seq |-> q]]
          BY <2>3 DEF AdmitControl
    <3>2. QED
          BY <1>1, <3>1
  <2>4. ASSUME NEW t \in TransferId, NEW c \in Chunk, AdmitRead(w, t, c)
        PROVE  pc[v] = "refused" /\ job[v].peer = AuthorizedPeer
        BY <1>1, <2>4 DEF AdmitRead
  <2>5. QED
        BY <1>4, <2>1, <2>2, <2>3, <2>4 DEF Receive
<1>5. CASE Tick \/ Revoke \/ PairAgain \/ CleanupExpiredSessions \/ UNCHANGED vars
      BY <1>5 DEF Tick, Revoke, PairAgain, CleanupExpiredSessions, vars
<1>6. QED
      BY <1>2, <1>3, <1>4, <1>5 DEF Next, Step

LEMMA TrustStep ==
    ASSUME [Next]_vars
    PROVE  /\ everRevoked => everRevoked'
           /\ ~trusted' /\ trusted => everRevoked'
<1>1. CASE Revoke
      BY <1>1, Zenon DEF Revoke
<1>2. CASE PairAgain
      BY <1>2, Zenon DEF PairAgain
<1>3. ASSUME UNCHANGED <<trusted, everRevoked>>
      PROVE  /\ everRevoked => everRevoked'
             /\ ~trusted' /\ trusted => everRevoked'
      BY <1>3, Zenon
<1>4. ASSUME NEW w \in Worker, Serve(w) PROVE UNCHANGED <<trusted, everRevoked>>
      BY <1>4 DEF Serve, CancelPeerTransfers, BeginExpired, BeginTransfer, ControlStale,
         ControlFresh, ReadPaused, ReadPollTimeout, ReadUnlock, ReadSource, ReadAllowed, ReadDenied, ReadAlive,
             ReadDeliver
<1>5. ASSUME NEW w \in Worker, Receive(w) PROVE UNCHANGED <<trusted, everRevoked>>
      BY <1>5 DEF Receive, RefuseRequest, AdmitBegin, AdmitControl, AdmitRead
<1>6. CASE Tick \/ CleanupExpiredSessions \/ UNCHANGED vars
      BY <1>3, <1>6 DEF Tick, CleanupExpiredSessions, vars
<1>7. QED
      BY <1>1, <1>2, <1>3, <1>4, <1>5, <1>6 DEF Next, Step

LEMMA RevocationStep ==
    TypeOK /\ OwnersKnown /\ RevocationNoted /\ [Next]_vars => RevocationNoted'
<1> SUFFICES ASSUME TypeOK, OwnersKnown, RevocationNoted, [Next]_vars PROVE RevocationNoted'
    OBVIOUS
<1>1. ~trusted' => everRevoked'
      BY TrustStep, Zenon DEF RevocationNoted
<1>2. ASSUME NEW w \in Worker, pc'[w] = "refused", job'[w].peer = AuthorizedPeer
      PROVE  everRevoked'
      BY <1>2, RefusalStep, TrustStep, Zenon DEF RevocationNoted
<1>3. QED
      BY <1>1, <1>2, Zenon DEF RevocationNoted

\* What was issued stays issued.
LEMMA IssuedStep ==
    ASSUME TypeOK, [Next]_vars, NEW t \in TransferId
    PROVE  /\ Len(issued[t]) \in Nat /\ Len(issued'[t]) \in Nat /\ Len(issued[t]) <= Len(issued'[t])
           /\ \A i \in 1 .. Len(issued[t]) : issued'[t][i] = issued[t][i]
<1>0. issued \in [TransferId -> Seq(Opcode)] /\ Len(issued[t]) \in Nat
      BY LenProperties DEF TypeOK, ControlTypeOK
<1>1. CASE UNCHANGED issued
      BY <1>0, <1>1
<1>2. ASSUME NEW w \in Worker, NEW u \in TransferId, NEW q \in 1 .. MaxCommands, NEW op \in Opcode,
             AdmitControl(w, u, q, op)
      PROVE  UNCHANGED issued \/ issued' = [issued EXCEPT ![u] = Append(@, op)]
      BY <1>2 DEF AdmitControl
<1>3. ASSUME NEW u \in TransferId, NEW op \in Opcode, issued' = [issued EXCEPT ![u] = Append(@, op)]
      PROVE  /\ Len(issued'[t]) \in Nat /\ Len(issued[t]) <= Len(issued'[t])
             /\ \A i \in 1 .. Len(issued[t]) : issued'[t][i] = issued[t][i]
  <2>1. CASE t = u
    <3>1. issued'[t] = Append(issued[t], op) /\ issued[t] \in Seq(Opcode)
          BY <1>0, <1>3, <2>1
    <3>2. QED
          BY ONLY <1>0, <3>1, AppendProperties, op \in Opcode
  <2>2. CASE t # u
        BY <1>0, <1>3, <2>2
  <2>3. QED
        BY <2>1, <2>2
<1>4. ASSUME NEW w \in Worker, Serve(w) PROVE UNCHANGED issued
      BY <1>4 DEF Serve, CancelPeerTransfers, BeginExpired, BeginTransfer, ControlStale,
         ControlFresh, ReadPaused, ReadPollTimeout, ReadUnlock, ReadSource, ReadAllowed, ReadDenied, ReadAlive,
             ReadDeliver
<1>5. ASSUME NEW w \in Worker, Receive(w)
      PROVE  \/ UNCHANGED issued
             \/ \E u \in TransferId, q \in 1 .. MaxCommands, op \in Opcode : AdmitControl(w, u, q, op)
      BY <1>5 DEF Receive, RefuseRequest, AdmitBegin, AdmitRead
<1>6. CASE Tick \/ Revoke \/ PairAgain \/ CleanupExpiredSessions \/ UNCHANGED vars
      BY <1>1, <1>6 DEF Tick, Revoke, PairAgain, CleanupExpiredSessions, vars
<1>7. ASSUME NEW w \in Worker, Receive(w)
      PROVE  UNCHANGED issued \/ \E u \in TransferId, op \in Opcode :
                 issued' = [issued EXCEPT ![u] = Append(@, op)]
      BY <1>2, <1>5, <1>7
<1>8. QED
      BY <1>0, <1>1, <1>3, <1>4, <1>6, <1>7 DEF Next, Step

\* A session is cancelled by a command of its client, or because its peer is no
\* longer allowed.
LEMMA CancelStep ==
    ASSUME TypeOK, OwnersKnown, RevocationNoted, [Next]_vars, NEW t \in TransferId,
           state[t] # "Cancelled", state'[t] = "Cancelled"
    PROVE  \/ everRevoked
           \/ \E w \in Worker : /\ ControlFresh(w) /\ job[w].id = t
                                /\ issued[t][job[w].seq] = "Cancel"
<1>0. state \in [TransferId -> States] /\ transfers \in SUBSET TransferId
      BY DEF TypeOK, TableTypeOK
<1>1. UNCHANGED vars => UNCHANGED state
      BY DEF vars, tableVars
<1>2. PICK w \in Worker : Serve(w)
  <2>1. ASSUME NEW w \in Worker, Receive(w) PROVE UNCHANGED state
        BY <2>1 DEF Receive, RefuseRequest, AdmitBegin, AdmitControl, AdmitRead, tableVars
  <2>2. ASSUME Tick \/ Revoke \/ PairAgain \/ CleanupExpiredSessions PROVE UNCHANGED state
        BY <2>2 DEF Tick, Revoke, PairAgain, CleanupExpiredSessions, tableVars
  <2>3. QED
        BY <1>1, <2>1, <2>2 DEF Next, Step
<1>3. CASE CancelPeerTransfers(w)
  <2>1. t \in DoomedBy(job[w].peer)
    <3> DEFINE doomed == DoomedBy(job[w].peer)
    <3>1. state' = [u \in TransferId |-> IF u \in doomed THEN "Cancelled" ELSE state[u]]
          BY <1>3 DEF CancelPeerTransfers
    <3> HIDE DEF doomed
    <3>2. t \in doomed
          BY <3>1
    <3>3. QED
          BY <3>2 DEF doomed
  <2>2. job[w].peer = AuthorizedPeer
        BY <2>1 DEF DoomedBy, OwnersKnown
  <2>3. everRevoked
        BY <1>3, <2>2, Zenon DEF CancelPeerTransfers, RevocationNoted
  <2>4. QED
        BY <2>3, Zenon
<1>4. CASE BeginTransfer(w)
  <2>1. UNCHANGED state \/ \E u \in TransferId :
            state[u] = "none" /\ state' = [state EXCEPT ![u] = "Running"]
        BY <1>4 DEF BeginTransfer, BeginKnown, BeginBusy, BeginNew
  <2>2. QED
        BY <1>0, <2>1
<1>5. CASE ControlFresh(w)
  <2>1. job[w].id \in TransferId
        BY <1>5 DEF ControlFresh, TypeOK, WorkerTypeOK, JobOf, ControlJob
  <2>2. state' = [state EXCEPT ![job[w].id] =
                    Obey(issued[job[w].id][job[w].seq], state[job[w].id])]
        BY <1>5 DEF ControlFresh
  <2>3. job[w].id = t
        BY <1>0, <2>1, <2>2
  <2>4. Obey(issued[t][job[w].seq], state[t]) = "Cancelled"
        BY <1>0, <2>2, <2>3
  <2>5. issued[t][job[w].seq] = "Cancel"
        BY <2>4 DEF Obey
  <2>6. QED
        BY <1>5, <2>3, <2>5
<1>6. CASE ReadPaused(w) \/ ReadDenied(w)
  <2>1. job[w].id \in TransferId
        BY <1>6 DEF ReadPaused, ReadDenied, TypeOK, WorkerTypeOK, JobOf, ReadJob
  <2>2. PeerIsAllowed(owner[job[w].id]) => UNCHANGED state
        BY <1>0, <1>6, <2>1 DEF ReadPaused, ReadDenied, StillAllowed
  <2>3. ~PeerIsAllowed(owner[job[w].id])
        BY <2>2
  <2>4. ~trusted
        BY <2>1, <2>3 DEF PeerIsAllowed, OwnersKnown
  <2>5. QED
        BY <2>4, Zenon DEF RevocationNoted
<1>7. CASE ~(CancelPeerTransfers(w) \/ BeginTransfer(w) \/ ControlFresh(w)
               \/ ReadPaused(w) \/ ReadDenied(w))
      BY <1>2, <1>7 DEF Serve, BeginExpired, ControlStale, ReadPollTimeout, ReadUnlock,
         ReadSource, ReadAllowed, ReadAlive,
             ReadDeliver, tableVars
<1>8. QED
      BY <1>3, <1>4, <1>5, <1>6, <1>7

\* What a command that is consumed adds to what its session consumed.
LEMMA FreshConsumes ==
    ASSUME TypeOK, NEW w \in Worker, ControlFresh(w)
    PROVE  /\ job[w].id \in TransferId
           /\ job[w].seq \in 1 .. Len(issued[job[w].id])
           /\ accepted' = [accepted EXCEPT ![job[w].id] = Append(@, job[w].seq)]
           /\ UNCHANGED issued
<1>1. /\ job[w].id \in TransferId /\ job[w].seq \in 1 .. MaxCommands
      /\ job[w].seq <= Len(issued[job[w].id])
      BY DEF ControlFresh, TypeOK, WorkerTypeOK, JobOf, ControlJob
<1>2. Len(issued[job[w].id]) \in Nat
      BY <1>1, LenProperties DEF TypeOK, ControlTypeOK
<1>3. MaxCommands \in Nat
      BY ServerAssumption DEF ServerAssumption
<1>4. QED
      BY <1>1, <1>2, <1>3 DEF ControlFresh

LEMMA AcceptedStep ==
    ASSUME TypeOK, [Next]_vars, NEW t \in TransferId
    PROVE  /\ Len(accepted[t]) \in Nat /\ Len(accepted'[t]) \in Nat
           /\ \A i \in 1 .. Len(accepted[t]) :
                 i \in 1 .. Len(accepted'[t]) /\ accepted'[t][i] = accepted[t][i]
           /\ \A i \in 1 .. Len(accepted'[t]) :
                 i \in 1 .. Len(accepted[t]) \/ accepted'[t][i] \in 1 .. Len(issued[t])
<1>0. accepted \in [TransferId -> Seq(1 .. MaxCommands)] /\ Len(accepted[t]) \in Nat
      BY LenProperties DEF TypeOK, ControlTypeOK
<1>1. CASE accepted'[t] = accepted[t]
      BY <1>0, <1>1
<1>2. ASSUME NEW q \in 1 .. MaxCommands, q <= Len(issued[t]), accepted'[t] = Append(accepted[t], q)
      PROVE  /\ Len(accepted'[t]) \in Nat
             /\ \A i \in 1 .. Len(accepted[t]) :
                   i \in 1 .. Len(accepted'[t]) /\ accepted'[t][i] = accepted[t][i]
             /\ \A i \in 1 .. Len(accepted'[t]) :
                   i \in 1 .. Len(accepted[t]) \/ accepted'[t][i] \in 1 .. Len(issued[t])
  <2>1. accepted[t] \in Seq(1 .. MaxCommands) /\ Len(accepted[t]) \in Nat
        BY <1>0
  <2>2. /\ Len(accepted'[t]) = Len(accepted[t]) + 1
        /\ \A i \in 1 .. Len(accepted[t]) : accepted'[t][i] = accepted[t][i]
        /\ accepted'[t][Len(accepted[t]) + 1] = q
        BY ONLY <1>2, <2>1, AppendProperties
  <2>3. q \in Nat /\ q >= 1 /\ Len(issued[t]) \in Nat
        BY LenProperties, ServerAssumption DEF TypeOK, ControlTypeOK, ServerAssumption
  <2>4. q \in 1 .. Len(issued[t])
        BY ONLY <1>2, <2>3
  <2>5. QED
        BY ONLY <2>1, <2>2, <2>4
<1>3. \/ accepted'[t] = accepted[t]
      \/ \E q \in 1 .. MaxCommands : q <= Len(issued[t]) /\ accepted'[t] = Append(accepted[t], q)
      BY <1>0, ConsumeStep
<1>4. QED
      BY <1>0, <1>1, <1>2, <1>3

LEMMA ConsumedIssuedStep == TypeOK /\ ConsumedIssued /\ [Next]_vars => ConsumedIssued'
<1> SUFFICES ASSUME TypeOK, ConsumedIssued, [Next]_vars, NEW t \in TransferId,
                    NEW i \in 1 .. Len(accepted'[t])
             PROVE  accepted'[t][i] \in 1 .. Len(issued'[t])
    BY DEF ConsumedIssued
<1>1. accepted'[t][i] \in 1 .. Len(issued[t])
      BY AcceptedStep DEF ConsumedIssued
<1>2. Len(issued[t]) \in Nat /\ Len(issued'[t]) \in Nat /\ Len(issued[t]) <= Len(issued'[t])
      BY IssuedStep
<1>3. QED
      BY ONLY <1>1, <1>2

LEMMA CauseStep == TypeOK /\ CauseInv /\ [Next]_vars => CancelHasACause'
<1> SUFFICES ASSUME TypeOK, OwnersKnown, RevocationNoted, ConsumedIssued, CancelHasACause, [Next]_vars,
                    NEW t \in TransferId, state'[t] = "Cancelled", ~everRevoked'
             PROVE  \E i \in 1 .. Len(accepted'[t]) : issued'[t][accepted'[t][i]] = "Cancel"
    BY Zenon DEF CauseInv, CancelHasACause
<1>1. ~everRevoked
      BY TrustStep, Zenon
<1>2. CASE state[t] = "Cancelled"
  <2>1. PICK i \in 1 .. Len(accepted[t]) : issued[t][accepted[t][i]] = "Cancel"
        BY <1>1, <1>2, Zenon DEF CancelHasACause
  <2>2. accepted[t][i] \in 1 .. Len(issued[t])
        BY <2>1 DEF ConsumedIssued
  <2>3. i \in 1 .. Len(accepted'[t]) /\ accepted'[t][i] = accepted[t][i]
        BY AcceptedStep
  <2>4. issued'[t][accepted[t][i]] = issued[t][accepted[t][i]]
        BY <2>2, IssuedStep
  <2>5. QED
        BY <2>1, <2>3, <2>4
<1>3. CASE state[t] # "Cancelled"
  <2>1. PICK w \in Worker : ControlFresh(w) /\ job[w].id = t /\ issued[t][job[w].seq] = "Cancel"
        BY <1>1, <1>3, CancelStep, Zenon
  <2> DEFINE q == job[w].seq
             i == Len(accepted[t]) + 1
  <2>2. accepted' = [accepted EXCEPT ![t] = Append(@, q)] /\ UNCHANGED issued
        BY <2>1, FreshConsumes
  <2>3. accepted \in [TransferId -> Seq(1 .. MaxCommands)] /\ q \in 1 .. MaxCommands
        BY <2>1 DEF ControlFresh, TypeOK, ControlTypeOK, WorkerTypeOK, JobOf, ControlJob
  <2> HIDE DEF q
  <2>4. accepted'[t] = Append(accepted[t], q) /\ accepted[t] \in Seq(1 .. MaxCommands)
        BY ONLY <2>2, <2>3, t \in TransferId
  <2>5. i \in 1 .. Len(accepted'[t]) /\ accepted'[t][i] = q
        BY ONLY <2>3, <2>4, AppendProperties, LenProperties
  <2>6. issued'[t][q] = "Cancel"
        BY <2>1, <2>2 DEF q
  <2>7. QED
        BY ONLY <2>5, <2>6
<1>4. QED
      BY <1>2, <1>3

\* While the peer was never revoked, a session is cancelled by its own client's
\* command only: whatever refused requests of other peers, paused reads and
\* discarded reads run beside it.
THEOREM CancellationsHaveACause == Spec => []CancelHasACause
<1>1. Init => CauseInv
      BY DEF Init, CauseInv, OwnersKnown, RevocationNoted, ConsumedIssued, CancelHasACause
<1>2. TypeOK /\ CauseInv /\ [Next]_vars => CauseInv'
      BY OwnersStep, RevocationStep, ConsumedIssuedStep, CauseStep, Zenon DEF CauseInv
<1>3. CauseInv => CancelHasACause
      BY Zenon DEF CauseInv
<1>4. QED
      BY <1>1, <1>2, <1>3, TypeCorrect, PTL DEF Spec


-----------------------------------------------------------------------------
(* The refinement. *)

\* A worker that looked a session up, and the table, hold sessions that were
\* opened: what a command or a delivery of the lifecycle needs to know.
LookedUpIsOpen ==
    /\ \A t \in transfers : state[t] # "none"
    /\ \A w \in Worker : pc[w] \in ReadSteps \cup {"control"} => state[job[w].id] # "none"

\* No step closes a session again.
LEMMA OpenStaysOpen ==
    ASSUME TypeOK, [Next]_vars, NEW t \in TransferId, state[t] # "none"
    PROVE  state'[t] # "none"
  BY NextLifeStep DEF LifeStep, Active

\* A worker is at a step of a session's request only if it was before, or has
\* just looked the session up in the table.
LEMMA LookUp ==
    ASSUME TypeOK, [Next]_vars, NEW v \in Worker, pc'[v] \in ReadSteps \cup {"control"}
    PROVE  \/ pc[v] \in ReadSteps \cup {"control"} /\ job'[v].id = job[v].id
           \/ job'[v].id \in transfers
<1> USE DEF ReadSteps, Checks
<1>1. pc \in [Worker -> Steps] /\ job \in [Worker -> Job]
    BY DEF TypeOK, WorkerTypeOK
<1>2. CASE \E w \in Worker : Serve(w)
  <2>1. PICK w \in Worker : Serve(w)
        BY <1>2
  <2>2. CASE CancelPeerTransfers(w)
        BY <1>1, <2>2 DEF CancelPeerTransfers, AnswerAndNotify
  <2>3. CASE BeginExpired(w) \/ BeginTransfer(w) \/ ControlStale(w) \/ ReadDeliver(w)
        BY <1>1, <2>3 DEF BeginExpired, BeginTransfer, ControlStale, ReadDeliver, Answer
  <2>4. CASE ControlFresh(w)
        BY <1>1, <2>4 DEF ControlFresh, Answer, AnswerAndNotify
  <2>5. CASE ReadPaused(w)
        BY <1>1, <2>5 DEF ReadPaused, Answer, AnswerAndNotify, GoTo
  <2>6. CASE ReadPollTimeout(w) \/ ReadUnlock(w)
        BY <1>1, <2>6 DEF ReadPollTimeout, ReadUnlock, Answer, GoTo
  <2>7. CASE ReadSource(w) \/ ReadAllowed(w) \/ ReadAlive(w)
        BY <1>1, <2>7 DEF ReadSource, ReadAllowed, ReadAlive, Answer, GoTo
  <2>8. CASE ReadDenied(w)
        BY <1>1, <2>8 DEF ReadDenied, AnswerAndNotify
  <2>9. QED
        BY <2>1, <2>2, <2>3, <2>4, <2>5, <2>6, <2>7, <2>8 DEF Serve
<1>3. CASE \E w \in Worker : Receive(w)
  <2>1. PICK w \in Worker : Receive(w)
        BY <1>3
  <2>2. CASE \E p \in Peer : RefuseRequest(w, p)
        BY <1>1, <2>2 DEF RefuseRequest
  <2>3. CASE \E n \in Nonce : AdmitBegin(w, n)
        BY <1>1, <2>3 DEF AdmitBegin
  <2>4. CASE \E t \in TransferId, q \in 1 .. MaxCommands, op \in Opcode : AdmitControl(w, t, q, op)
    <3>1. PICK t \in TransferId, q \in 1 .. MaxCommands, op \in Opcode : AdmitControl(w, t, q, op)
          BY <2>4
    <3>2. /\ t \in transfers
          /\ pc' = [pc EXCEPT ![w] = "control"]
          /\ job' = [job EXCEPT ![w] = [id |-> t, seq |-> q]]
          BY <3>1 DEF AdmitControl, Authenticated
    <3>3. QED
          BY <1>1, <3>2
  <2>5. CASE \E t \in TransferId, c \in Chunk : AdmitRead(w, t, c)
        BY <1>1, <2>5 DEF AdmitRead, Authenticated
  <2>6. QED
        BY <2>1, <2>2, <2>3, <2>4, <2>5 DEF Receive
<1>4. CASE Tick \/ Revoke \/ PairAgain \/ CleanupExpiredSessions \/ UNCHANGED vars
    BY <1>4 DEF Tick, Revoke, PairAgain, CleanupExpiredSessions, vars
<1>5. QED
    BY <1>2, <1>3, <1>4 DEF Next, Step

\* A session enters the table when it is opened.
LEMMA Entered ==
    ASSUME TypeOK, [Next]_vars, NEW t \in transfers', t \notin transfers
    PROVE  t \in TransferId /\ state'[t] = "Running"
<1>1. CASE \E w \in Worker : BeginTransfer(w)
  <2>1. PICK w \in Worker : BeginTransfer(w)
        BY <1>1
  <2>2. PICK now \in job[w].since .. clock :
            BeginKnown(w, now) \/ BeginBusy(w, now) \/ BeginNew(w, now)
        BY <2>1 DEF BeginTransfer
  <2>3. LiveTransfers(now) \subseteq transfers
        BY DEF LiveTransfers
  <2>4. BeginNew(w, now)
        BY <2>2, <2>3 DEF BeginKnown, BeginBusy
  <2>5. PICK u \in TransferId : /\ state' = [state EXCEPT ![u] = "Running"]
                                /\ transfers' = LiveTransfers(now) \cup {u}
        BY ONLY <2>4 DEF BeginNew
  <2>6. t = u
        BY ONLY <2>3, <2>5, t \in transfers', t \notin transfers
  <2>7. state \in [TransferId -> States]
        BY DEF TypeOK, TableTypeOK
  <2>8. QED
        BY ONLY <2>5, <2>6, <2>7
<1>2. CASE ~\E w \in Worker : BeginTransfer(w)
  <2>1. ASSUME NEW w \in Worker, Serve(w) PROVE UNCHANGED transfers
        BY <1>2, <2>1 DEF Serve, CancelPeerTransfers, BeginExpired, ControlStale, ControlFresh,
           ReadPaused, ReadPollTimeout, ReadUnlock, ReadSource, ReadAllowed, ReadDenied, ReadAlive,
             ReadDeliver, tableVars
  <2>2. ASSUME NEW w \in Worker, Receive(w) PROVE UNCHANGED transfers
        BY <2>2 DEF Receive, RefuseRequest, AdmitBegin, AdmitControl, AdmitRead, tableVars
  <2>3. ASSUME Tick \/ Revoke \/ PairAgain \/ UNCHANGED vars PROVE UNCHANGED transfers
        BY <2>3 DEF Tick, Revoke, PairAgain, tableVars, vars
  <2>4. ASSUME CleanupExpiredSessions PROVE transfers' \subseteq transfers
        BY <2>4 DEF CleanupExpiredSessions, LiveTransfers
  <2>5. QED
        BY <2>1, <2>2, <2>3, <2>4 DEF Next, Step
<1>3. QED
    BY <1>1, <1>2

LEMMA OpenInit == Init => LookedUpIsOpen
  BY DEF Init, LookedUpIsOpen, ReadSteps, Checks

LEMMA OpenStep == TypeOK /\ LookedUpIsOpen /\ [Next]_vars => LookedUpIsOpen'
<1> SUFFICES ASSUME TypeOK, LookedUpIsOpen, [Next]_vars PROVE LookedUpIsOpen'
    OBVIOUS
<1>1. transfers \subseteq TransferId
    BY DEF TypeOK, TableTypeOK
<1>2. ASSUME NEW t \in transfers' PROVE state'[t] # "none"
    BY <1>1, <1>2, Entered, OpenStaysOpen DEF LookedUpIsOpen
<1>3. ASSUME NEW v \in Worker, pc'[v] \in ReadSteps \cup {"control"}
      PROVE  state'[job'[v].id] # "none"
  <2>1. CASE pc[v] \in ReadSteps \cup {"control"} /\ job'[v].id = job[v].id
    <3>1. job[v].id \in TransferId
          BY <2>1 DEF TypeOK, WorkerTypeOK, JobOf, ReadSteps, Checks, ControlJob, ReadJob
    <3>2. QED
          BY <2>1, <3>1, OpenStaysOpen DEF LookedUpIsOpen
  <2>2. CASE job'[v].id \in transfers
        BY <2>2, <1>1, OpenStaysOpen DEF LookedUpIsOpen
  <2>3. QED
        BY <1>3, <2>1, <2>2, LookUp
<1>4. QED
    BY <1>2, <1>3 DEF LookedUpIsOpen

-----------------------------------------------------------------------------
(* Every step of the server is a step of the lifecycle or none. *)

LifecycleStep == [Lifecycle!Next]_<<state, lastSeq, coverage, cancelled>>

\* The lifecycle's states and commands are the server's.
LEMMA SameSessionStates ==
    /\ Lifecycle!Active = Active
    /\ Lifecycle!Opcode = Opcode
    /\ \A op, s : Lifecycle!Obey(op, s) = Obey(op, s)
  BY DEF Lifecycle!Active, Lifecycle!Opcode, Lifecycle!Obey, Active, Opcode, Obey

\* So is the way it counts them.
LEMMA SameCardinality == \A S : Lifecycle!Cardinality(S) = Cardinality(S)
  BY DEF Lifecycle!Cardinality, Cardinality

\* What leaves the sessions alone is a stutter.
LEMMA Stutter ==
    ASSUME UNCHANGED <<state, lastSeq, coverage, cancelled>>
    PROVE  LifecycleStep
  BY DEF LifecycleStep

LEMMA BeginRefines ==
    ASSUME TypeOK, NEW w \in Worker, BeginTransfer(w)
    PROVE  LifecycleStep
<1>1. PICK now \in job[w].since .. clock :
          BeginKnown(w, now) \/ BeginBusy(w, now) \/ BeginNew(w, now)
    BY DEF BeginTransfer
<1>2. UNCHANGED cancelled
    BY DEF BeginTransfer
<1>3. CASE BeginKnown(w, now) \/ BeginBusy(w, now)
    BY <1>2, <1>3, Stutter DEF BeginKnown, BeginBusy
<1>4. CASE BeginNew(w, now)
  <2>1. PICK t \in TransferId : state[t] = "none" /\ state' = [state EXCEPT ![t] = "Running"]
        BY <1>4 DEF BeginNew
  <2>2. UNCHANGED <<lastSeq, coverage>>
        BY <1>4 DEF BeginNew
  <2>3. Lifecycle!Open(t)
        BY <1>2, <2>1, <2>2 DEF Lifecycle!Open
  <2>4. QED
        BY <2>3 DEF LifecycleStep, Lifecycle!Next
<1>5. QED
    BY <1>1, <1>3, <1>4

LEMMA ControlRefines ==
    ASSUME TypeOK, LookedUpIsOpen, NEW w \in Worker, ControlFresh(w)
    PROVE  LifecycleStep
<1> DEFINE t  == job[w].id
           q  == job[w].seq
           op == issued[t][q]
<1>1. /\ pc[w] = "control"
      /\ q > lastSeq[t]
      /\ lastSeq' = [lastSeq EXCEPT ![t] = q]
      /\ state' = [state EXCEPT ![t] = Obey(op, state[t])]
      /\ cancelled' = IF Obey(op, state[t]) = "Cancelled" /\ state[t] # Obey(op, state[t])
                      THEN cancelled + 1 ELSE cancelled
      /\ UNCHANGED coverage
    BY DEF ControlFresh, IsFresh
<1>2. t \in TransferId /\ q \in 1 .. MaxCommands /\ q \in 1 .. Len(issued[t])
    BY <1>1 DEF TypeOK, WorkerTypeOK, JobOf, ControlJob
<1>3. op \in Opcode
    BY <1>2 DEF TypeOK, ControlTypeOK
<1>4. state[t] # "none"
    BY <1>1 DEF LookedUpIsOpen
<1>5. Lifecycle!Consume(t, q, op)
    BY <1>1, <1>4, SameSessionStates DEF Lifecycle!Consume
<1>6. QED
    BY <1>2, <1>3, <1>5, SameSessionStates DEF LifecycleStep, Lifecycle!Next

\* One session is cancelled.
LEMMA WithdrawOne ==
    ASSUME TypeOK, NEW t \in TransferId, state[t] \in Active,
           state' = [state EXCEPT ![t] = "Cancelled"], cancelled' = cancelled + 1,
           UNCHANGED <<lastSeq, coverage>>
    PROVE  LifecycleStep
<1>1. Cardinality({t}) = 1
    BY FS_Singleton
<1>2. state' = [u \in TransferId |-> IF u \in {t} THEN "Cancelled" ELSE state[u]]
    BY DEF TypeOK, TableTypeOK
<1>3. Lifecycle!Withdraw({t})
    BY <1>1, <1>2, SameSessionStates, SameCardinality DEF Lifecycle!Withdraw
<1>4. QED
    BY <1>3 DEF LifecycleStep, Lifecycle!Next

LEMMA CancelPeerRefines ==
    ASSUME TypeOK, NEW w \in Worker, CancelPeerTransfers(w)
    PROVE  LifecycleStep
<1> DEFINE doomed == DoomedBy(job[w].peer)
<1>1. doomed \in SUBSET TransferId
    BY DEF DoomedBy, TypeOK, TableTypeOK
<1>2. \A t \in doomed : state[t] \in Active
    BY DEF DoomedBy
<1>3. Lifecycle!Withdraw(doomed)
    BY <1>2, SameSessionStates, SameCardinality DEF CancelPeerTransfers, controlVars, Lifecycle!Withdraw
<1>4. QED
    BY <1>1, <1>3 DEF LifecycleStep, Lifecycle!Next

LEMMA ReadRefines ==
    ASSUME TypeOK, LookedUpIsOpen, HeldIsOpen, NEW w \in Worker,
           ReadPaused(w) \/ ReadDeliver(w) \/ ReadDenied(w)
    PROVE  LifecycleStep
<1> DEFINE t == job[w].id
<1>1. pc[w] \in ReadSteps
    BY DEF ReadPaused, ReadDenied, ReadDeliver, ReadSteps, Checks
<1>2. t \in TransferId /\ job[w].chunk \in Chunk
    BY <1>1 DEF TypeOK, WorkerTypeOK, JobOf, ReadSteps, Checks, ReadJob
<1>3. state[t] \in States /\ state[t] # "none" /\ state \in [TransferId -> States]
    BY <1>1, <1>2 DEF LookedUpIsOpen, TypeOK, TableTypeOK
<1>4. CASE ReadPaused(w)
  <2>1. UNCHANGED <<lastSeq, coverage>> /\ state[t] \in Active
        BY <1>4 DEF ReadPaused, controlVars, Active
  <2>2. QED
        BY <1>2, <1>4, <2>1, WithdrawOne, Stutter DEF ReadPaused
<1>5. CASE ReadDeliver(w)
  <2>1. state[t] \in Active \cup {"Completed"}
        BY <1>3, <1>5 DEF ReadDeliver, HeldIsOpen, States
  <2>2. Lifecycle!Deliver(t, job[w].chunk)
        BY <1>5, <2>1, SameSessionStates DEF ReadDeliver, tableVars, controlVars, Lifecycle!Deliver
  <2>3. QED
        BY <1>2, <2>2 DEF LifecycleStep, Lifecycle!Next
<1>6. CASE ReadDenied(w)
  <2>1. UNCHANGED <<lastSeq, coverage>>
        BY <1>6 DEF ReadDenied, controlVars
  <2>2. CASE state[t] \in Active
        BY <1>2, <1>6, <2>1, <2>2, WithdrawOne DEF ReadDenied
  <2>3. CASE state[t] \notin Active
        BY <1>3, <1>6, <2>1, <2>3, Stutter DEF ReadDenied
  <2>4. QED
        BY <2>2, <2>3
<1>7. QED
    BY <1>4, <1>5, <1>6

LEMMA NextRefines ==
    ASSUME TypeOK, LookedUpIsOpen, HeldIsOpen, [Next]_vars
    PROVE  LifecycleStep
<1>1. CASE Tick \/ Revoke \/ PairAgain \/ CleanupExpiredSessions \/ UNCHANGED vars
    BY <1>1, Stutter
       DEF Tick, Revoke, PairAgain, CleanupExpiredSessions, vars, tableVars, controlVars
<1>2. ASSUME NEW w \in Worker, Receive(w)
      PROVE  LifecycleStep
    BY <1>2, Stutter
       DEF Receive, RefuseRequest, AdmitBegin, AdmitControl, AdmitRead, tableVars, controlVars
<1>3. ASSUME NEW w \in Worker, Serve(w)
      PROVE  LifecycleStep
  <2>1. CASE BeginExpired(w) \/ ControlStale(w) \/ ReadPollTimeout(w) \/ ReadUnlock(w)
               \/ ReadSource(w) \/ ReadAllowed(w) \/ ReadAlive(w)
        BY <2>1, Stutter DEF BeginExpired, ControlStale, ReadPollTimeout, ReadUnlock, ReadSource,
           ReadAllowed, ReadAlive, tableVars, controlVars
  <2>2. QED
        BY <1>3, <2>1, BeginRefines, ControlRefines, CancelPeerRefines, ReadRefines DEF Serve
<1>4. QED
    BY <1>1, <1>2, <1>3 DEF Next, Step

\* The server with all its threads behaves like the atomic lifecycle machine:
\* begin_transfer opens, control consumes, read_range delivers, revocation
\* withdraws, and no other step touches a session.
THEOREM ServerImplementsLifecycle == Spec => ImplementsLifecycle
<1>1. Init => Lifecycle!Init
    BY DEF Init, Lifecycle!Init
<1>2. TypeOK /\ LookedUpIsOpen /\ HeldIsOpen /\ [Next]_vars => [Lifecycle!Next]_(Lifecycle!lifecycleVars)
    BY NextRefines DEF LifecycleStep, Lifecycle!lifecycleVars
<1>3. QED
    BY <1>1, <1>2, OpenInit, OpenStep, ChecksHold, TypeCorrect, PTL
       DEF Spec, ImplementsLifecycle, Lifecycle!Spec
=============================================================================
