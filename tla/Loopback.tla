------------------------------- MODULE Loopback -------------------------------
(***************************************************************************)
(* The loopback probe: Explorer reads a VirtualStream                      *)
(* (src/clipboard/stream.rs) whose bytes a TcpRangeSource fetches from a   *)
(* LoopbackServer (src/clipboard/loopback.rs), one connection per range,   *)
(* while commands on other connections pause, resume and cancel the        *)
(* TransferControl (src/clipboard/transfer.rs) every worker obeys, and the *)
(* probe may end at any time (run_loopback_probe, src/clipboard/runtime.rs). *)
(*                                                                         *)
(* A byte is its offset.  A range fits one response; a worker waits in     *)
(* wait_for_chunk for its turn, asleep until it is notified or its delay   *)
(* has passed.  A notification and the end of a delay may coincide, and    *)
(* the worker then takes the delay to have passed.  Requests are valid;    *)
(* spurious wake-ups, the fragments of a payload and counters are left out. *)
(***************************************************************************)
EXTENDS StreamPromise, FiniteSets, SequencesExt

CONSTANTS
    Reader,       \* threads that call the stream
    MaxRange,     \* max_range_bytes of the source and of the server
    MaxPosition,  \* u64::MAX, the largest position of a stream
    MaxWorkers,   \* max_workers of the server
    MaxRequests,  \* bound on the connections for ranges
    MaxCommands   \* bound on seeks, clones and commands together

\* What the limits and bounds are; the positions of a stream reach beyond its end.
LoopbackAssumption ==
    /\ {Length, MaxRange, MaxPosition, MaxWorkers, MaxRequests, MaxCommands} \subseteq Nat
    /\ MaxRange > 0 /\ MaxWorkers > 0 /\ Length <= MaxPosition

VARIABLES
    control,   \* TransferControl::state
    readers,   \* [pc, stream, want, bytes, request]
    requests,  \* connections: [pc, offset, length], by request id
    server,    \* "running" or "stopping"
    commands   \* seeks, clones and commands so far

vars == <<control, streams, readers, requests, server, commands>>

Request == 1 .. MaxRequests

\* Where a connection is in the server: in its backlog, in wait_for_chunk or past it.
Waiting == {"paused", "delayed"}
Working == {"check", "serve"} \cup Waiting
Answer  == {"ok", "cancelled", "lost"}

IdleReader == [pc |-> "idle", stream |-> 1, want |-> 0, bytes |-> <<>>, request |-> 0]
NoRequest  == [pc |-> "none", offset |-> 0, length |-> 0]
Over       == [NoRequest EXCEPT !.pc = "over"]
NoStream   == [open |-> FALSE, position |-> 0, origin |-> 0, given |-> <<>>]

Init ==
    /\ control = "Running"
    /\ streams = [s \in Stream |-> [NoStream EXCEPT !.open = s = 1]]
    /\ readers = [r \in Reader |-> IdleReader]
    /\ requests = [q \in Request |-> NoRequest]
    /\ server = "running"
    /\ commands = 0

MayAct == commands < MaxCommands

-----------------------------------------------------------------------------
(* VirtualStream. *)

LockedByNobody(s) == FALSE  \* mutant: nobody holds the lock of the position

\* Read and Seek hold the lock of the position.
Locked(s) == \E r \in Reader : readers[r].pc # "idle" /\ readers[r].stream = s

BeginRead(r, s, n) ==
    /\ readers[r].pc = "idle"
    /\ streams[s].open
    /\ ~Locked(s)
    /\ readers' = [readers EXCEPT ![r] = [IdleReader EXCEPT !.pc = "loop", !.stream = s, !.want = n]]
    /\ UNCHANGED <<control, streams, requests, server, commands>>

Got(r) == Len(readers[r].bytes)

Offset(r) == streams[readers[r].stream].position + Got(r)

\* The read ends: its bytes are the caller's and the position follows them.
Returned(r) ==
    LET s == readers[r].stream IN
    streams' = [streams EXCEPT ![s].position = @ + Got(r), ![s].given = @ \o readers[r].bytes]

\* The loop of read_impl has all it wants, or the source is at its end.
EndRead(r) ==
    /\ readers[r].pc = "loop"
    /\ Got(r) = readers[r].want \/ Offset(r) >= Length
    /\ Returned(r)
    /\ readers' = [readers EXCEPT ![r] = IdleReader]
    /\ UNCHANGED <<control, requests, server, commands>>

\* A range failed: the call fails as a whole and the position stays.
FailRead(r) == UNCHANGED streams

\* seek_impl: the new position is a u64.
Seek(s, p) ==
    /\ MayAct
    /\ streams[s].open
    /\ ~Locked(s)
    /\ p \in 0 .. MaxPosition
    /\ streams' = [streams EXCEPT ![s] = [@ EXCEPT !.position = p, !.origin = p, !.given = <<>>]]
    /\ commands' = commands + 1
    /\ UNCHANGED <<control, readers, requests, server>>

Base(s, origin) ==
    CASE origin = "SET" -> 0
      [] origin = "CUR" -> streams[s].position
      [] origin = "END" -> Length

\* A displacement of one unit back or forth, or none.
SeekSome(s) ==
    \E origin \in {"SET", "CUR", "END"} :
        \/ Seek(s, Base(s, origin)) \/ Seek(s, Base(s, origin) + 1)
        \/ Base(s, origin) > 0 /\ Seek(s, Base(s, origin) - 1)

\* The clone has the position of the stream and one of its own from then on.
Clone ==
    /\ MayAct
    /\ ~streams[2].open
    /\ ~Locked(1)
    /\ streams' = [streams EXCEPT ![2] = [NoStream EXCEPT !.open = TRUE,
                                          !.position = streams[1].position,
                                          !.origin = streams[1].position]]
    /\ commands' = commands + 1
    /\ UNCHANGED <<control, readers, requests, server>>

-----------------------------------------------------------------------------
(* TcpRangeSource. *)

\* read_at asks for no more than the rest of the file and one range.
AskFor(offset, wanted) == Min({wanted, MaxRange, Length - offset})

Send(r, q) ==
    /\ readers[r].pc = "loop"
    /\ Got(r) < readers[r].want /\ Offset(r) < Length
    /\ requests[q].pc = "none" /\ \A p \in 1 .. q - 1 : requests[p].pc # "none"
    /\ requests' = [requests EXCEPT ![q] =
                      [pc |-> "backlog", offset |-> Offset(r),
                       length |-> AskFor(Offset(r), readers[r].want - Got(r))]]
    /\ readers' = [readers EXCEPT ![r].pc = "sent", ![r].request = q]
    /\ UNCHANGED <<control, streams, server, commands>>

\* The payload of a request: the bytes from the offset that was asked for.
Payload(q) == [i \in 1 .. requests[q].length |-> requests[q].offset + i - 1]

\* exchange got the response and the payload.
ReceiveRange(r) ==
    LET q == readers[r].request IN
    /\ readers[r].pc = "sent"
    /\ requests[q].pc = "ok"
    /\ readers' = [readers EXCEPT ![r].pc = "loop", ![r].bytes = @ \o Payload(q),
                                 ![r].request = 0]
    /\ requests' = [requests EXCEPT ![q] = Over]
    /\ UNCHANGED <<control, streams, server, commands>>

\* The answer is an error, the connection ended, or io_timeout passed.
ReceiveError(r) ==
    /\ readers[r].pc = "sent"
    /\ FailRead(r)
    /\ readers' = [readers EXCEPT ![r] = IdleReader]
    /\ requests' = IF requests[readers[r].request].pc \in Answer
                   THEN [requests EXCEPT ![readers[r].request] = Over] ELSE requests
    /\ UNCHANGED <<control, server, commands>>

-----------------------------------------------------------------------------
(* TransferControl and the workers. *)

Workers == {q \in Request : requests[q].pc \in Working}

TransitionUnnotified(state) ==  \* mutant: nobody is notified
    /\ control' = state
    /\ UNCHANGED requests

\* transition notifies every worker that waits; one whose delay ends at the
\* same time need not notice.
Transition(state) ==
    /\ control' = state
    /\ \E late \in SUBSET {q \in Request : requests[q].pc = "delayed"} :
          requests' = [q \in Request |->
                         IF requests[q].pc \in Waiting /\ q \notin late
                         THEN [requests[q] EXCEPT !.pc = "check"] ELSE requests[q]]

\* A command on a connection of its own needs a worker as a range does.
\* Cancelled is final.
Command(c) ==
    /\ MayAct
    /\ server = "running"
    /\ Cardinality(Workers) < MaxWorkers
    /\ Transition(IF control = "Cancelled" THEN "Cancelled" ELSE c)
    /\ commands' = commands + 1
    /\ UNCHANGED <<streams, readers, server>>

\* A connection is answered or closed; if its reader gave up, nobody notices.
Answered(q, answer) ==
    [requests EXCEPT ![q] = IF \E r \in Reader : readers[r].request = q
                            THEN [@ EXCEPT !.pc = answer] ELSE Over]

\* accept_loop starts a worker unless max_workers are busy, and ends once the server stops.
Accept(q) ==
    /\ requests[q].pc = "backlog"
    /\ requests' = IF server # "running" \/ Cardinality(Workers) >= MaxWorkers
                   THEN Answered(q, "lost") ELSE [requests EXCEPT ![q].pc = "check"]
    /\ UNCHANGED <<control, streams, readers, server, commands>>

\* wait_for_chunk looks at the state.
Check(q) ==
    /\ requests[q].pc = "check"
    /\ \/ /\ control = "Cancelled"
          /\ requests' = Answered(q, "cancelled")
       \/ /\ control = "Paused"
          /\ requests' = [requests EXCEPT ![q].pc = "paused"]
       \/ /\ control = "Running"
          /\ requests' = [requests EXCEPT ![q].pc = "delayed"]
    /\ UNCHANGED <<control, streams, readers, server, commands>>

DelayPasses(q) ==
    /\ requests[q].pc = "delayed"
    /\ requests' = [requests EXCEPT ![q].pc = "serve"]
    /\ UNCHANGED <<control, streams, readers, server, commands>>

\* serve_range writes the response, which may fail, and the worker ends.
Serve(q) ==
    /\ requests[q].pc = "serve"
    /\ requests' \in {Answered(q, "ok"), Answered(q, "lost")}
    /\ UNCHANGED <<control, streams, readers, server, commands>>

\* The probe ends: it cancels the control before it drops the server, whose Drop
\* joins the accept thread and waits for the workers.
Quit ==
    /\ server = "running"
    /\ Transition("Cancelled")
    /\ server' = "stopping"
    /\ UNCHANGED <<streams, readers, commands>>

-----------------------------------------------------------------------------

Explorer ==
    \/ \E r \in Reader : \/ \E s \in Stream, n \in 1 .. Length + 1 : BeginRead(r, s, n)
                         \/ EndRead(r) \/ ReceiveRange(r) \/ ReceiveError(r)
                         \/ \E q \in Request : Send(r, q)
    \/ \E s \in Stream : SeekSome(s)
    \/ Clone

Worker(q) == Check(q) \/ DelayPasses(q) \/ Serve(q)

Next ==
    \/ Explorer
    \/ \E q \in Request : Accept(q) \/ Worker(q)
    \/ \E c \in {"Running", "Paused", "Cancelled"} : Command(c)
    \/ Quit

\* The threads of the server are scheduled; nobody need resume a pause.
Fairness == \A q \in Request : WF_vars(Accept(q)) /\ WF_vars(Worker(q))

Spec == Init /\ [][Next]_vars /\ Fairness

-----------------------------------------------------------------------------
(* Properties. *)

TypeOK ==
    /\ control \in {"Running", "Paused", "Cancelled"}
    /\ \A s \in Stream : streams[s].position \in 0 .. MaxPosition
    /\ \A r \in Reader : readers[r].pc \in {"idle", "loop", "sent"}
    /\ \A q \in Request : requests[q].pc \in {"none", "backlog"} \cup Working \cup Answer \cup {"over"}
    /\ Cardinality(Workers) <= MaxWorkers

\* Once a transfer is cancelled no worker waits for long: the one of a paused
\* reader is woken, so that the probe can end although Explorer hangs in a read.
CancelFreesWorkers ==
    \A q \in Request : (control = "Cancelled" /\ q \in Workers) ~> q \notin Workers
=============================================================================
