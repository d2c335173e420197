----------------------------- MODULE RemoteGroup -----------------------------
(***************************************************************************)
(* The receiving side of one paste: the file streams of a                  *)
(* RemoteTransferRegistry (src/clipboard/secure_transfer.rs), the thread   *)
(* that reads each stream, and the user-interface thread that pauses,      *)
(* resumes and cancels the whole group, against the sessions of the        *)
(* source's server.                                                        *)
(*                                                                         *)
(* Thread s \in Source reads stream s; thread UI is the product's message  *)
(* loop.  They share the two group flags, the credentials and the sequence *)
(* counter of each stream.  A command is one exchange over the control     *)
(* connection: it reaches the server and its response returns, or the      *)
(* connection fails before, after or while the server handles it; then the *)
(* client sends the same bytes again until it gives up, and the server may *)
(* still handle the first copy later.                                      *)
(*                                                                         *)
(* Abstractions.  A file is one chunk of data and then its end, read in    *)
(* that order; the bytes counted are left out.  The server admits every    *)
(* request (TransferServer models refusals, expiry and revocation) and     *)
(* handles it in one step.  A status request changes nothing: it is only   *)
(* answered or not.                                                        *)
(***************************************************************************)
EXTENDS Naturals, FiniteSets, SessionState

CONSTANTS
    NumSources,  \* streams of the group
    MaxReads,    \* bound on the read_at calls of a stream
    MaxOps,      \* bound on the operations of the user-interface thread
    MaxLate      \* bound on the requests that are handled late

ASSUME GroupAssumption ==
    /\ NumSources \in Nat \ {0}
    /\ MaxReads \in Nat
    /\ MaxOps \in Nat
    /\ MaxLate \in Nat

Source == 1 .. NumSources
UI     == 0
Thread == Source \cup {UI}
Nonce  == 1 .. MaxReads            \* a begin_transfer call draws one nonce
UIOps  == {"Pause", "Resume", "Cancel", "Progress"}

VARIABLES
    groupPaused,     \* RemoteTransferRegistry::group_paused
    groupCancelled,  \* RemoteTransferRegistry::group_cancelled
    held,            \* SecureRemoteSource::transfer: the nonce of the session, 0 for None
    nextSeq,         \* SecureRemoteSource::next_control_sequence
    completionSent,  \* SecureRemoteSource::completion_sent
    pc,              \* where each thread is
    cmd,             \* the command each thread sends
    tried,           \* the command failed at least once
    reads,           \* read_at calls made; they bound the nonces too
    got,             \* the data of the stream was returned to the reader
    failed,          \* history: the begins that ended with an error
    ui,              \* the operation under way: [op, at, picked, acked]
    ops,             \* operations started
    report,          \* the last operation that returned: [op, sources, ok]
    server,          \* the source's sessions: per stream and nonce
    late             \* requests of abandoned connections not handled yet

groupVars  == <<groupPaused, groupCancelled>>
streamVars == <<held, nextSeq, completionSent, reads, got, failed>>
uiVars     == <<ui, ops, report>>
vars == <<groupVars, streamVars, uiVars, pc, cmd, tried, server, late>>

NoCmd == [op |-> "none"]  \* else a command is [source, nonce, seq, op]
NoOperation == [op |-> "Progress", at |-> 1, picked |-> {}, acked |-> TRUE]

\* create_source_for_entry made the streams; none is open.
Init ==
    /\ groupPaused = FALSE
    /\ groupCancelled = FALSE
    /\ held = [s \in Source |-> 0]
    /\ nextSeq = [s \in Source |-> 1]
    /\ completionSent = [s \in Source |-> FALSE]
    /\ pc = [t \in Thread |-> "idle"]
    /\ cmd = [t \in Thread |-> NoCmd]
    /\ tried = [t \in Thread |-> FALSE]
    /\ reads = [s \in Source |-> 0]
    /\ got = [s \in Source |-> FALSE]
    /\ failed = [s \in Source |-> {}]
    /\ ui = NoOperation
    /\ ops = 0
    /\ report = [op |-> "none", sources |-> {}, ok |-> FALSE]
    /\ server = [s \in Source |-> [n \in Nonce |->
                    [state |-> "none", seq |-> 0, consumed |-> {}]]]
    /\ late = {}

-----------------------------------------------------------------------------
(* The source's server. *)

Session(s) == server[s][held[s]]

\* A control is consumed when its number is new.  The same number again is
\* answered like the first time; numbers are never used twice for different
\* commands of one session, so the opcode need not be compared.
HandleAnyOrder(x, c) ==  \* mutant: a late command is consumed too
    [state |-> Obey(c.op, x.state), seq |-> c.seq, consumed |-> x.consumed \cup {c.op}]

Handle(x, c) ==
    IF c.seq > x.seq
    THEN [state |-> Obey(c.op, x.state), seq |-> c.seq, consumed |-> x.consumed \cup {c.op}]
    ELSE x

\* The sessions after request c; a begin with a known nonce changes nothing.
Handled(c) ==
    LET x == server[c.source][c.nonce]
        y == IF c.op # "Begin" THEN IF x.state = "none" THEN x ELSE Handle(x, c)
             ELSE IF x.state = "none" THEN [x EXCEPT !.state = "Running"] ELSE x
    IN  [server EXCEPT ![c.source][c.nonce] = y]

\* The response to c is not Replay.
Accepted(c) == c.op = "Begin" \/ c.seq >= server[c.source][c.nonce].seq

-----------------------------------------------------------------------------
(* Sending a command: command_recovering and control_once. *)

\* A thread that opens its session holds the stream's credentials lock.
Opening(s) == pc[s] = "send" /\ cmd[s].op = "Begin"

\* The commands that group_cancelled interrupts: all but a Cancel and the Pause
\* and Cancel with which a new session joins its group.
Interrupted(t) ==
    /\ groupCancelled
    /\ \/ cmd[t].op \in {"Begin", "Complete"}
       \/ t = UI /\ cmd[t].op # "Cancel"

\* A begin that is given up may still have reached the source, or reach it later.
Fails(s, ok) ==
    failed' = IF ~ok /\ cmd[s].op = "Begin" THEN [failed EXCEPT ![s] = @ \cup {cmd[s].nonce}] ELSE failed

\* mutant: completion_sent is not taken back
ReaderAfterKeepsCompletion(s, ok) ==
    /\ pc' = [pc EXCEPT ![s] =
                CASE ok /\ cmd[s].op = "Begin" -> "join"
                  [] ok /\ cmd[s].op = "Pause" -> "range"
                  [] OTHER -> "idle"]
    /\ held' = IF ok /\ cmd[s].op = "Begin" THEN [held EXCEPT ![s] = cmd[s].nonce] ELSE held
    /\ Fails(s, ok)
    /\ UNCHANGED <<completionSent, nextSeq, reads, got, uiVars>>

\* The reader of s after its command: an error ends the read.
ReaderAfter(s, ok) ==
    /\ pc' = [pc EXCEPT ![s] =
                CASE ok /\ cmd[s].op = "Begin" -> "join"
                  [] ok /\ cmd[s].op = "Pause" -> "range"
                  [] OTHER -> "idle"]
    /\ held' = IF ok /\ cmd[s].op = "Begin" THEN [held EXCEPT ![s] = cmd[s].nonce] ELSE held
    /\ completionSent' =
            IF ~ok /\ cmd[s].op = "Complete" THEN [completionSent EXCEPT ![s] = FALSE]
            ELSE completionSent
    /\ Fails(s, ok)
    /\ UNCHANGED <<nextSeq, reads, got, uiVars>>

\* The operation returns.
UIReturn(ok) ==
    /\ pc' = [pc EXCEPT ![UI] = "idle"]
    /\ report' = [op |-> ui.op, sources |-> ui.picked, ok |-> ok]
    /\ ui' = NoOperation
    /\ UNCHANGED ops

\* The first picked stream after i, or past the end.
NextPicked(i) ==
    LET rest == {s \in ui.picked : s > i}
    IN  IF rest = {} THEN NumSources + 1 ELSE CHOOSE s \in rest : \A r \in rest : s <= r

NextAckedAlways(ok) == ui.acked  \* mutant: remote_acknowledged is not cleared

NextAcked(ok) == ui.acked /\ ok

\* After their controls pause_all and resume_all ask each stream for its status,
\* which is sent at most twice and may fail.
Aggregated == IF ui.op = "Cancel" THEN {TRUE} ELSE BOOLEAN

\* pause_all and resume_all stop at the first error, cancel_all goes on.
UIAfter(ok) ==
    LET next == NextPicked(ui.at)
    IN  /\ UNCHANGED streamVars
        /\ IF next > NumSources \/ (~ok /\ ui.op # "Cancel")
           THEN \E status \in Aggregated : UIReturn(NextAcked(ok) /\ status)
           ELSE /\ ui' = [ui EXCEPT !.at = next, !.acked = NextAcked(ok)]
                /\ pc' = [pc EXCEPT ![UI] = "alloc"]
                /\ UNCHANGED <<ops, report>>

After(t, ok) ==
    /\ tried' = [tried EXCEPT ![t] = FALSE]
    /\ cmd' = [cmd EXCEPT ![t] = NoCmd]
    /\ IF t = UI THEN UIAfter(ok) ELSE ReaderAfter(t, ok)

\* The exchange succeeds.  It is one step, where its attempt begins and the
\* interruption is looked at: the control connection, one for all streams, is
\* locked until the response is there.
SendAnswered(t) ==
    /\ pc[t] = "send"
    /\ ~Interrupted(t)
    /\ server' = Handled(cmd[t])
    /\ After(t, Accepted(cmd[t]))
    /\ UNCHANGED <<groupVars, late>>

AgainWithNewNonce(c) ==  \* mutant: every attempt of a begin draws a nonce
    IF c.op = "Begin" /\ c.nonce < MaxReads THEN [c EXCEPT !.nonce = @ + 1] ELSE c

\* The next attempt sends the same payload.
Again(c) == c

\* The connection fails.  control_once does not try again.
SendFails(t) ==
    /\ pc[t] = "send"
    /\ ~Interrupted(t)
    /\ \/ UNCHANGED <<server, late>>
       \/ server' = Handled(cmd[t]) /\ UNCHANGED late
       \/ Cardinality(late) < MaxLate /\ late' = late \cup {cmd[t]} /\ UNCHANGED server
    /\ IF t = UI /\ cmd[t].op = "Cancel"
       THEN After(t, FALSE)
       ELSE /\ tried' = [tried EXCEPT ![t] = TRUE]
            /\ cmd' = [cmd EXCEPT ![t] = Again(@)]
            /\ UNCHANGED <<pc, streamVars, uiVars>>
    /\ UNCHANGED groupVars

SendGivesUp(t) ==
    /\ pc[t] = "send"
    /\ After(t, FALSE)
    /\ UNCHANGED <<groupVars, server, late>>

SendNeverExhausted(t) == FALSE  \* mutant: every failure opens a new recovery window

\* The recovery window is over.
SendExhausted(t) == tried[t] /\ SendGivesUp(t)

\* The group was cancelled, before the first attempt or during a delay.
SendInterrupted(t) == Interrupted(t) /\ SendGivesUp(t)

SendEnds(t) == SendExhausted(t) \/ SendInterrupted(t)

Send(t) == SendAnswered(t) \/ SendFails(t) \/ SendEnds(t)

\* A request of an abandoned connection is handled by its worker after all.
HandleLate ==
    \E c \in late :
        /\ server' = Handled(c)
        /\ late' = late \ {c}
        /\ UNCHANGED <<groupVars, streamVars, uiVars, pc, cmd, tried>>

\* next_control_sequence.fetch_add(1): the number is taken before the
\* connection is locked.
TakeSequence(s) == nextSeq' = [nextSeq EXCEPT ![s] = @ + 1]

Control(s, op) == [source |-> s, nonce |-> held[s], seq |-> nextSeq[s], op |-> op]

-----------------------------------------------------------------------------
(* The reader thread of stream s: SecureRemoteSource::read_at.             *)

GoTo(s, step) == pc' = [pc EXCEPT ![s] = step]

\* The caller reads on until the end of the stream was returned.
ReadAt(s) ==
    /\ pc[s] = "idle"
    /\ reads[s] < MaxReads
    /\ ~completionSent[s]
    /\ reads' = [reads EXCEPT ![s] = @ + 1]
    /\ GoTo(s, "gate")
    /\ UNCHANGED <<groupVars, held, nextSeq, completionSent, got, failed, uiVars, cmd, tried, server, late>>

\* The read waits here while the group is paused.
Gate(s) ==
    /\ pc[s] = "gate"
    /\ groupPaused => groupCancelled
    /\ GoTo(s, IF groupCancelled THEN "idle" ELSE "credentials")
    /\ UNCHANGED <<groupVars, streamVars, uiVars, cmd, tried, server, late>>

\* A begin draws a fresh nonce; all its attempts use it.
BeginRequest(s) == [source |-> s, nonce |-> reads[s], seq |-> 0, op |-> "Begin"]

\* The session is open, or the credentials lock is taken and kept while a begin
\* is sent.
Credentials(s) ==
    /\ pc[s] = "credentials"
    /\ IF held[s] # 0
       THEN GoTo(s, "range") /\ UNCHANGED cmd
       ELSE GoTo(s, "send") /\ cmd' = [cmd EXCEPT ![s] = BeginRequest(s)]
    /\ UNCHANGED <<groupVars, streamVars, uiVars, tried, server, late>>

\* The new session joins its group: the lock is released, group_cancelled is
\* read, then group_paused, and only then the number of the command is taken.
Join(s) ==
    /\ pc[s] = "join"
    /\ IF groupCancelled
       THEN GoTo(s, "alloc") /\ cmd' = [cmd EXCEPT ![s] = [op |-> "Cancel"]]
       ELSE GoTo(s, "joined") /\ UNCHANGED cmd
    /\ UNCHANGED <<groupVars, streamVars, uiVars, tried, server, late>>

Joined(s) ==
    /\ pc[s] = "joined"
    /\ IF groupPaused
       THEN GoTo(s, "alloc") /\ cmd' = [cmd EXCEPT ![s] = [op |-> "Pause"]]
       ELSE GoTo(s, "range") /\ UNCHANGED cmd
    /\ UNCHANGED <<groupVars, streamVars, uiVars, tried, server, late>>

Alloc(s) ==
    /\ pc[s] = "alloc"
    /\ TakeSequence(s)
    /\ cmd' = [cmd EXCEPT ![s] = Control(s, cmd[s].op)]
    /\ GoTo(s, "send")
    /\ UNCHANGED <<groupVars, held, completionSent, reads, got, failed, uiVars, tried, server, late>>

\* A retry waits while the group is paused.
RecoveryGate(s) == tried[s] => ~groupPaused

\* An attempt to read a range starts only if the group is not cancelled.
MayTryRange(s) == ~groupCancelled /\ RecoveryGate(s)

\* The request reaches the server: an empty answer from a paused session is
\* asked for again, a cancelled session is an error.
RangeReaches(s) ==
    LET x == Session(s).state
    IN  /\ pc[s] = "range"
        /\ MayTryRange(s)
        /\ tried' = [tried EXCEPT ![s] = FALSE]
        /\ GoTo(s, CASE x = "Paused" -> "range" [] x = "Cancelled" -> "idle" [] OTHER -> "serving")
        /\ UNCHANGED <<groupVars, streamVars, uiVars, cmd, server, late>>

\* The connection fails, before or after the server read the range.
RangeFails(s) ==
    /\ pc[s] = "serving" \/ (pc[s] = "range" /\ MayTryRange(s))
    /\ tried' = [tried EXCEPT ![s] = TRUE]
    /\ GoTo(s, "range")
    /\ UNCHANGED <<groupVars, streamVars, uiVars, cmd, server, late>>

RangeGivesUp(s) ==
    /\ pc[s] = "range"
    /\ tried' = [tried EXCEPT ![s] = FALSE]
    /\ GoTo(s, "idle")
    /\ UNCHANGED <<groupVars, streamVars, uiVars, cmd, server, late>>

RangeExhausted(s) == tried[s] /\ RangeGivesUp(s)

RangeNotInterrupted(s) == FALSE  \* mutant: the poll of a paused session is not interrupted

RangeInterrupted(s) == groupCancelled /\ RangeGivesUp(s)

RangeEnds(s) == RangeExhausted(s) \/ RangeInterrupted(s)

\* The answer of a cancelled session is an error.
RangeCancelled(s) ==
    /\ Session(s).state = "Cancelled"
    /\ GoTo(s, "idle")
    /\ UNCHANGED <<got, completionSent, cmd>>

RangeData(s) ==
    /\ Session(s).state # "Cancelled" /\ ~got[s]
    /\ got' = [got EXCEPT ![s] = TRUE]
    /\ GoTo(s, "idle")
    /\ UNCHANGED <<completionSent, cmd>>

\* An empty range of a session that was paused meanwhile is asked for again.
RangeOfPaused(s) ==
    /\ Session(s).state = "Paused" /\ got[s]
    /\ GoTo(s, "range")
    /\ UNCHANGED <<got, completionSent, cmd>>

\* An empty range at the end completes the stream.
RangeAtEnd(s) ==
    /\ Session(s).state \notin {"Cancelled", "Paused"} /\ got[s]
    /\ completionSent' = [completionSent EXCEPT ![s] = TRUE]
    /\ cmd' = [cmd EXCEPT ![s] = [op |-> "Complete"]]
    /\ GoTo(s, "alloc")
    /\ UNCHANGED got

RangeAnswered(s) ==
    /\ pc[s] = "serving"
    /\ RangeCancelled(s) \/ RangeData(s) \/ RangeOfPaused(s) \/ RangeAtEnd(s)
    /\ UNCHANGED <<groupVars, held, nextSeq, reads, failed, uiVars, tried, server, late>>

-----------------------------------------------------------------------------
(* The user-interface thread: pause_all, resume_all, cancel_all and        *)
(* local_progress.                                                         *)

UIStart(op) ==
    /\ pc[UI] = "idle"
    /\ ops < MaxOps
    /\ ops' = ops + 1
    /\ ui' = [op |-> op, at |-> 1, picked |-> {}, acked |-> TRUE]
    /\ report' = [op |-> "none", sources |-> {}, ok |-> FALSE]
    /\ GoTo(UI, "scan")
    /\ UNCHANGED <<groupVars, streamVars, cmd, tried, server, late>>

\* has_started locks the credentials of one stream after the other.
Scan ==
    /\ pc[UI] = "scan"
    /\ ui.at <= NumSources
    /\ ~Opening(ui.at)
    /\ ui' = [ui EXCEPT !.at = @ + 1,
                        !.picked = IF held[ui.at] # 0 THEN @ \cup {ui.at} ELSE @]
    /\ UNCHANGED <<groupVars, streamVars, ops, report, pc, cmd, tried, server, late>>

\* The snapshot is complete.
ProgressReturns == ui.op = "Progress" /\ UIReturn(TRUE)

\* Without a started stream a control is an error.
NothingStarted == ui.op # "Progress" /\ ui.picked = {} /\ UIReturn(FALSE)

Scanned ==
    /\ pc[UI] = "scan"
    /\ ui.at > NumSources
    /\ \/ ProgressReturns
       \/ NothingStarted
       \/ ui.op # "Progress" /\ ui.picked # {} /\ GoTo(UI, "flag") /\ UNCHANGED uiVars
    /\ UNCHANGED <<groupVars, streamVars, cmd, tried, server, late>>

\* cancel_all sets group_cancelled before it clears group_paused.
SetCancelled ==
    /\ pc[UI] = "flag" /\ ui.op = "Cancel"
    /\ groupCancelled' = TRUE
    /\ GoTo(UI, "unpause")
    /\ UNCHANGED <<groupPaused, ui>>

SetPaused ==
    /\ pc[UI] = "unpause" \/ (pc[UI] = "flag" /\ ui.op # "Cancel")
    /\ groupPaused' = (ui.op = "Pause")
    /\ GoTo(UI, "alloc")
    /\ ui' = [ui EXCEPT !.at = NextPicked(0)]
    /\ UNCHANGED groupCancelled

SetFlag ==
    /\ SetCancelled \/ SetPaused
    /\ UNCHANGED <<streamVars, ops, report, cmd, tried, server, late>>

UIAlloc ==
    /\ pc[UI] = "alloc"
    /\ TakeSequence(ui.at)
    /\ cmd' = [cmd EXCEPT ![UI] = Control(ui.at, ui.op)]
    /\ GoTo(UI, "send")
    /\ UNCHANGED <<groupVars, held, completionSent, reads, got, failed, uiVars, tried, server, late>>

-----------------------------------------------------------------------------
Read(s) ==
    \/ ReadAt(s)
    \/ Gate(s)
    \/ Credentials(s)
    \/ Join(s)
    \/ Joined(s)
    \/ Alloc(s)
    \/ RangeReaches(s)
    \/ RangeFails(s)
    \/ RangeEnds(s)
    \/ RangeAnswered(s)

Operate == (\E op \in UIOps : UIStart(op)) \/ Scan \/ Scanned \/ SetFlag \/ UIAlloc

Next ==
    \/ \E s \in Source : Read(s)
    \/ Operate
    \/ \E t \in Thread : Send(t)
    \/ HandleLate

Spec == Init /\ [][Next]_vars

\* Threads run.  An exchange that has not failed yet is answered or fails, by
\* the timeouts of the sockets; after a failure nothing makes the network come
\* back, but the recovery window ends.
Attempt(t) == ~tried[t] /\ (SendAnswered(t) \/ SendFails(t))

ReaderStep(s) ==
    \/ Gate(s) \/ Credentials(s) \/ Join(s) \/ Joined(s) \/ Alloc(s)
    \/ Attempt(s) \/ SendEnds(s)
    \/ RangeEnds(s) \/ RangeAnswered(s) \/ (~tried[s] /\ RangeReaches(s))

UIStep == Scan \/ Scanned \/ SetFlag \/ UIAlloc \/ Attempt(UI) \/ SendEnds(UI)

FairSpec == Spec /\ WF_vars(UIStep) /\ \A s \in Source : WF_vars(ReaderStep(s))

-----------------------------------------------------------------------------
(* Properties. *)

\* When pause_all returns without an error none of its streams is served any
\* more, and no delayed or repeated command of before changes that.
PauseReportIsTrue ==
    report.op = "Pause" /\ report.ok => \A s \in report.sources : Session(s).state # "Running"

\* When cancel_all reports remote_acknowledged, the sessions of all streams that
\* had started are over at the source.
CancelReportIsTrue ==
    report.op = "Cancel" /\ report.ok => \A s \in report.sources : Session(s).state \notin Active

\* The sessions the source keeps are accounted for, however often a begin is sent
\* again and whenever a copy of it is handled: the stream has it, is beginning it,
\* or was told that its begin failed.  So the begins that failed bound what the
\* source keeps and nobody can pause or cancel.
SessionsAreAccountedFor ==
    \A s \in Source, n \in Nonce : server[s][n].state # "none" =>
        n = held[s] \/ (Opening(s) /\ cmd[s].nonce = n) \/ n \in failed[s]

\* The reader is about to send a Complete or sends it.
Completing(s) == pc[s] \in {"alloc", "send"} /\ cmd[s].op = "Complete"

\* A stream that local_progress counts as completed still sends its Complete, or the
\* source consumed it (one that failed is taken back) and the session is over.  The
\* exception is a session that was paused before: the source consumes a Complete of
\* a paused session without effect, and it is not sent again.
CompletionIsKnown ==
    \A s \in Source : completionSent[s] =>
        \/ Completing(s)
        \/ /\ "Complete" \in Session(s).consumed
           /\ Session(s).state \in Active => "Pause" \in Session(s).consumed

\* Every operation of the user interface returns, whatever the network does.
OperationsReturn == pc[UI] # "idle" ~> pc[UI] = "idle"

\* A cancelled group frees every reader, from the pause gate, from network
\* recovery and from the poll of a session that stays paused at the source.
CancelFreesReaders ==
    \A s \in Source : groupCancelled /\ pc[s] # "idle" ~> pc[s] = "idle"

\* local_progress is described as non-blocking; it never waits for a stream
\* that recovers from a network failure.
ProgressDoesNotWaitForTheNetwork ==
    ~ /\ pc[UI] = "scan" /\ ui.op = "Progress" /\ ui.at <= NumSources
      /\ Opening(ui.at) /\ tried[ui.at]

\* resume_all is described as resuming every paused stream: when it has returned
\* without an error, none of its streams is or becomes paused.
ResumeReportIsTrue ==
    report.op = "Resume" /\ report.ok => \A s \in report.sources : Session(s).state # "Paused"

\* cancel_all is described as cancelling the streams that are not open yet too:
\* when it was acknowledged and all reads have ended, no stream holds an active
\* session.
CancelCoversTheGroup ==
    report.op = "Cancel" /\ report.ok /\ (\A t \in Thread : pc[t] = "idle") =>
        \A s \in Source : held[s] # 0 => Session(s).state \notin Active
=============================================================================
