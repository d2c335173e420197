------------------------------- MODULE Product -------------------------------
(***************************************************************************)
(* The clipboard worker of one machine (src/clipboard/product.rs): the     *)
(* message loop of the worker thread, the offer inbox and the announcement *)
(* threads beside it, the Windows clipboard it shares with every other     *)
(* application, and Explorer, which pastes from the object it offers.      *)
(*                                                                         *)
(* A clipboard write raises the sequence number and posts a notification.  *)
(* The number only grows and is compared for equality, so the model keeps  *)
(* whether the number last claimed is still the clipboard's.  A queued     *)
(* event or command is announced by a posted message, and the handler      *)
(* drains the whole queue, so that a second message of one kind changes    *)
(* nothing: posted is a set.  Timer messages come last, when nothing else  *)
(* is posted.                                                              *)
(*                                                                         *)
(* Copy c is the c-th write of another application, lease l the l-th       *)
(* object the worker put on the clipboard, offer o the o-th publication of *)
(* the paired peer, which runs the same program.  The streams of a lease   *)
(* are modelled in RemoteGroup; here a lease counts its started and its    *)
(* completed streams and has its two group flags.  Left out are the text of *)
(* the last error, the result of an announcement (it changes only that     *)
(* text), the progress of our own servers (TransferServer), byte counts,   *)
(* speeds and the log.                                                     *)
(***************************************************************************)
EXTENDS Naturals, Sequences, FiniteSets

CONSTANTS
    MaxLiveSourceOffers,  \* MAX_LIVE_SOURCE_OFFERS
    MaxInputs,            \* bound on copies, announcements received, commands and starts together
    MaxOffers,            \* bound on the offers the peer publishes
    MaxPastes             \* bound on the streams opened from one object

ASSUME ProductAssumption ==
    /\ MaxLiveSourceOffers \in Nat \ {0}
    /\ {MaxInputs, MaxOffers, MaxPastes} \subseteq Nat

Copy  == 1 .. MaxInputs
Offer == 1 .. MaxOffers
Lease == 1 .. MaxInputs   \* an announcement is accepted at most once

VARIABLES
    clip,       \* the clipboard: [kind, id]
    claimed,    \* last_clipboard_sequence is the clipboard's sequence number
    copies,     \* copies made by other applications
    posted,     \* kinds of messages in the worker's queue
    events,     \* the event channel: the offers announced
    commands,   \* the command channel
    issued,     \* commands sent to the channels so far
    pc,         \* where the worker is
    back,       \* the drain an acceptance or a Drop returns to
    work,       \* the copy being published or the offer being accepted
    session,    \* ProductSession: [auto, pending, remote, direction, sources]
    clearing,   \* the lease whose Drop found it current, 0 for none
    view,       \* ProductSnapshot
    leases,     \* the transfer group of each lease
    made,       \* leases made
    held,       \* leases whose object Explorer holds
    announcers, \* announcement threads, by the copy they announce
    peer,       \* the peer: the offers published and those it was acknowledged
    deliveries, \* announcements that reached the event channel
    starts,     \* runtimes started
    outcome,    \* what became of each copy: [published, reported]
    since       \* copies made before the worker listened

clipVars    == <<clip, claimed>>
queueVars   == <<posted, events, commands, issued>>
workerVars  == <<pc, back, work, session, clearing, view, outcome>>
pasteVars   == <<leases, made, held>>
peerVars    == <<peer, deliveries>>
startVars   == <<starts, since>>
vars == <<clipVars, copies, queueVars, workerVars, pasteVars, announcers, peerVars, startVars>>

Command   == {"AcceptPending", "Pause", "Resume", "Cancel"}
Direction == {"None", "Source", "Remote"}

View == INSTANCE TransferView WITH Subject <- 1 .. MaxInputs  \* what the tray may rely on

EmptyClip == [kind |-> "other", id |-> 0]
FreshSession == [auto |-> FALSE, pending |-> 0, remote |-> 0, direction |-> "None",
                 sources |-> <<>>]
FreshLease == [offer |-> 0, started |-> 0, paused |-> FALSE, cancelled |-> FALSE,
               completed |-> 0]

MayAct == copies + deliveries + issued + starts < MaxInputs

\* The worker runs, its window and its inbox listen.
Running == pc # "stopped"

Init ==
    /\ clip = EmptyClip
    /\ claimed = FALSE
    /\ copies = 0
    /\ posted = {}
    /\ events = <<>>
    /\ commands = <<>>
    /\ issued = 0
    /\ pc = "stopped"
    /\ back = "loop"
    /\ work = 0
    /\ session = FreshSession
    /\ clearing = 0
    /\ view = View!FreshView
    /\ outcome = [c \in Copy |-> [published |-> 0, reported |-> FALSE]]
    /\ leases = [l \in Lease |-> FreshLease]
    /\ made = 0
    /\ held = {}
    /\ announcers = {}
    /\ peer = [offers |-> 0, acked |-> {}]
    /\ deliveries = 0
    /\ starts = 0
    /\ since = 0

-----------------------------------------------------------------------------
(* The clipboard. *)

IsCurrent(l) == l # 0 /\ clip = [kind |-> "lease", id |-> l]

\* Every write raises the sequence number; a listening worker is told.
WriteClipboard(content) ==
    /\ clip' = content
    /\ claimed' = FALSE

Notified == IF Running THEN posted \cup {"clipboard"} ELSE posted

\* Another application copies files, or something that is no file list.
CopyElsewhere ==
    /\ MayAct
    /\ copies' = copies + 1
    /\ \E kind \in {"files", "other"} :
          WriteClipboard([kind |-> kind, id |-> IF kind = "files" THEN copies + 1 ELSE 0])
    /\ posted' = Notified
    /\ UNCHANGED <<events, commands, issued, workerVars, pasteVars, announcers, peerVars,
                   startVars>>

-----------------------------------------------------------------------------
(* The session's view of itself. *)

RemoteStatePausedFirst(g) ==  \* mutant: the pause is looked at before the cancellation
    CASE g.paused -> "Paused"
      [] ~g.paused /\ g.cancelled -> "Cancelled"
      [] ~g.paused /\ ~g.cancelled /\ g.completed = 1 -> "Completed"
      [] ~g.paused /\ ~g.cancelled /\ g.completed # 1 /\ g.started # 0 -> "Running"
      [] OTHER -> "AwaitingPaste"

\* The state of a group, of which every manifest has one file.
RemoteState(g) ==
    CASE g.cancelled -> "Cancelled"
      [] ~g.cancelled /\ g.paused -> "Paused"
      [] ~g.cancelled /\ ~g.paused /\ g.completed = 1 -> "Completed"
      [] ~g.cancelled /\ ~g.paused /\ g.completed # 1 /\ g.started # 0 -> "Running"
      [] OTHER -> "AwaitingPaste"

\* refresh_progress, without what the servers of our own offers count.
Refreshed(v, s, groups) ==
    IF s.direction = "None" \/ v.state = "None" THEN v
    ELSE [v EXCEPT !.state = IF s.direction = "Remote" /\ s.remote # 0
                             THEN RemoteState(groups[s.remote]) ELSE "AwaitingPaste"]

-----------------------------------------------------------------------------
(* Clipboard notifications. *)

\* handle_clipboard_update claims the number it observes.
TakeClipboardUpdate ==
    /\ pc = "loop"
    /\ "clipboard" \in posted
    /\ posted' = posted \ {"clipboard"}
    /\ claimed' = TRUE
    /\ pc' = IF claimed THEN "loop" ELSE "claimed"
    /\ UNCHANGED <<clip, copies, events, commands, issued, back, work, session, clearing,
                   view, outcome, pasteVars, announcers, peerVars, startVars>>

CaptureCandidatesUnrecorded ==  \* mutant: the captured sequence number is not kept
    /\ clip.kind = "files"
    /\ work' = clip.id
    /\ pc' = "publish"
    /\ UNCHANGED <<claimed, outcome>>

\* capture_files_from_clipboard read the paths and, under the same lock, their number.
CaptureCandidates ==
    /\ clip.kind = "files"
    /\ claimed' = TRUE
    /\ work' = clip.id
    /\ pc' = "publish"
    /\ UNCHANGED outcome

\* The object of this worker, or no file list, is on the clipboard.
CaptureNothing ==
    /\ clip.kind # "files"
    /\ pc' = "loop"
    /\ UNCHANGED <<claimed, work, outcome>>

\* The file list is rejected by policy, or the clipboard could not be read.
CaptureFails ==
    /\ ~IsCurrent(session.remote)
    /\ outcome' = IF clip.kind = "files"
                  THEN [outcome EXCEPT ![clip.id].reported = TRUE] ELSE outcome
    /\ pc' = "loop"
    /\ UNCHANGED <<claimed, work>>

Capture ==
    /\ pc = "claimed"
    /\ CaptureCandidates \/ CaptureNothing \/ CaptureFails
    /\ UNCHANGED <<clip, copies, queueVars, back, session, clearing, view, pasteVars,
                   announcers, peerVars, startVars>>

\* publish_paths fails before it has a server to keep.
PublishFails ==
    /\ outcome' = [outcome EXCEPT ![work].reported = TRUE]
    /\ UNCHANGED <<session, view, announcers>>

\* The oldest server is dropped when MAX_LIVE_SOURCE_OFFERS are alive.
PushSourceTruncating(sources, c) ==  \* mutant: the newest server is dropped
    IF Len(sources) = MaxLiveSourceOffers THEN sources ELSE Append(sources, c)

PushSource(sources, c) ==
    IF Len(sources) = MaxLiveSourceOffers THEN Append(Tail(sources), c) ELSE Append(sources, c)

\* publish_paths offers the copy; its announcement thread may not start.
PublishSucceeds ==
    /\ session' = [session EXCEPT !.sources = PushSource(@, work), !.direction = "Source"]
    /\ view' = View!Shown(view, "Source", work)
    /\ announcers' \in {announcers, announcers \cup {work}}
    /\ outcome' = [outcome EXCEPT ![work].published = @ + 1]

PublishClaimingLate ==  \* mutant: the number is recorded when the copy is published
    /\ pc = "publish"
    /\ PublishFails \/ PublishSucceeds
    /\ claimed' = TRUE
    /\ pc' = "loop"
    /\ work' = 0
    /\ UNCHANGED <<clip, copies, queueVars, back, clearing, pasteVars, peerVars, startVars>>

Publish ==
    /\ pc = "publish"
    /\ PublishFails \/ PublishSucceeds
    /\ pc' = "loop"
    /\ work' = 0
    /\ UNCHANGED <<clipVars, copies, queueVars, back, clearing, pasteVars, peerVars, startVars>>

-----------------------------------------------------------------------------
(* Announcements. *)

\* An announcement thread ends and wakes the session that spawned it.
Announced(c) ==
    /\ c \in announcers
    /\ announcers' = announcers \ {c}
    /\ posted' = posted \cup {"event"}
    /\ UNCHANGED <<clipVars, copies, events, commands, issued, workerVars, pasteVars, peerVars,
                   startVars>>

\* The peer publishes an offer of its own.
PeerPublishes ==
    /\ peer.offers < MaxOffers
    /\ peer' = [peer EXCEPT !.offers = @ + 1]
    /\ UNCHANGED <<clipVars, copies, queueVars, workerVars, pasteVars, announcers, deliveries,
                   startVars>>

WakeNever(acked) ==  \* mutant: the worker is not woken
    UNCHANGED posted

\* The worker is woken once the acknowledgement was written.
WakeAfter(acked) ==
    posted' = IF acked THEN posted \cup {"event"} ELSE posted

\* The peer sends an offer again until it was acknowledged or gives it up.
MaySend(o) == o <= peer.offers /\ o \notin peer.acked

\* The acknowledgement of the inbox is read, or lost.
Acknowledge(o) == peer' = [peer EXCEPT !.acked = @ \cup {o}]

\* The inbox queues the announcement before it acknowledges it, and the
\* acknowledgement may fail to be written.
Deliver(o) ==
    /\ Running
    /\ MaySend(o)
    /\ MayAct
    /\ deliveries' = deliveries + 1
    /\ events' = Append(events, o)
    /\ \E written \in BOOLEAN :
          /\ WakeAfter(written)
          /\ \/ written /\ Acknowledge(o)
             \/ UNCHANGED peer
    /\ UNCHANGED <<clipVars, copies, commands, issued, workerVars, pasteVars, announcers, startVars>>

-----------------------------------------------------------------------------
(* Events of the session. *)

TakeEvents ==
    /\ pc = "loop"
    /\ "event" \in posted
    /\ posted' = posted \ {"event"}
    /\ pc' = "events"
    /\ UNCHANGED <<clipVars, copies, events, commands, issued, back, work, session, clearing,
                   view, outcome, pasteVars, announcers, peerVars, startVars>>

\* The newest announcement is the pending one; it is accepted at once if the
\* settings say so.
HandleEvent ==
    LET o == Head(events) IN
    /\ pc = "events"
    /\ events # <<>>
    /\ events' = Tail(events)
    /\ session' = [session EXCEPT !.pending = o]
    /\ view' = [view EXCEPT !.pending = TRUE]
    /\ IF session.auto THEN pc' = "fetch" /\ back' = "events" /\ work' = o
       ELSE UNCHANGED <<pc, back, work>>
    /\ UNCHANGED <<clipVars, copies, posted, commands, issued, clearing, outcome,
                   pasteVars, announcers, peerVars, startVars>>

\* try_iter found the channel empty.
Drained ==
    /\ \/ pc = "events" /\ events = <<>>
       \/ pc = "commands" /\ commands = <<>>
    /\ pc' = "loop"
    /\ UNCHANGED <<clipVars, copies, queueVars, back, work, session, clearing, view,
                   outcome, pasteVars, announcers, peerVars, startVars>>

-----------------------------------------------------------------------------
(* accept_pending. *)

\* handle_command refreshes the snapshot after every command.
ViewAfter(v, s, groups) == IF back = "commands" THEN Refreshed(v, s, groups) ELSE v

\* A server of the peer is dropped like one of ours.
Alive(o) == peer.offers < o + MaxLiveSourceOffers

AcceptFailsForgetting ==  \* mutant: the offer is not pending any more
    /\ session' = [session EXCEPT !.pending = 0]
    /\ view' = ViewAfter([view EXCEPT !.pending = FALSE], session, leases)
    /\ UNCHANGED <<clipVars, posted, leases, made>>

\* The manifest cannot be fetched or the clipboard cannot be set.
AcceptFails ==
    /\ view' = ViewAfter(view, session, leases)
    /\ UNCHANGED <<clipVars, posted, session, leases, made>>

\* ProductRemoteLease::register put its object on the clipboard.  The Drop of
\* the previous lease finds another object there and leaves it alone.
AcceptSucceeds ==
    /\ Alive(work)
    /\ made' = made + 1
    /\ leases' = [leases EXCEPT ![made + 1] = [FreshLease EXCEPT !.offer = work]]
    /\ WriteClipboard([kind |-> "lease", id |-> made + 1])
    /\ posted' = posted \cup {"clipboard"}
    /\ session' = [session EXCEPT !.remote = made + 1, !.direction = "Remote", !.pending = 0]
    /\ view' = ViewAfter(View!Shown([view EXCEPT !.pending = FALSE], "Remote", made + 1),
                         session', leases')

Accept ==
    /\ pc = "fetch"
    /\ AcceptFails \/ AcceptSucceeds
    /\ pc' = back
    /\ back' = "loop"
    /\ work' = 0
    /\ UNCHANGED <<copies, events, commands, issued, clearing, outcome, held,
                   announcers, peerVars, startVars>>

-----------------------------------------------------------------------------
(* Commands of the tray. *)

\* ProductRuntime::command
SendCommand(c) ==
    /\ Running
    /\ MayAct
    /\ issued' = issued + 1
    /\ commands' = Append(commands, c)
    /\ posted' = posted \cup {"command"}
    /\ UNCHANGED <<clipVars, copies, events, workerVars, pasteVars, announcers, peerVars,
                   startVars>>

StopAsked == "Stop" \in {commands[i] : i \in DOMAIN commands}

SendStopSilently ==  \* mutant: the worker is not woken
    /\ Running
    /\ ~StopAsked
    /\ commands' = Append(commands, "Stop")
    /\ UNCHANGED <<clipVars, copies, posted, events, issued, workerVars, pasteVars, announcers,
                   peerVars, startVars>>

\* ProductRuntime::stop sends Stop, wakes the worker and joins it.
SendStop ==
    /\ Running
    /\ ~StopAsked
    /\ commands' = Append(commands, "Stop")
    /\ posted' = posted \cup {"command"}
    /\ UNCHANGED <<clipVars, copies, events, issued, workerVars, pasteVars, announcers,
                   peerVars, startVars>>

TakeCommands ==
    /\ pc = "loop"
    /\ "command" \in posted
    /\ posted' = posted \ {"command"}
    /\ pc' = "commands"
    /\ UNCHANGED <<clipVars, copies, events, commands, issued, back, work, session, clearing,
                   view, outcome, pasteVars, announcers, peerVars, startVars>>

HandleAcceptPending ==
    /\ Head(commands) = "AcceptPending"
    /\ IF session.pending = 0
       THEN /\ view' = Refreshed(view, session, leases)
            /\ UNCHANGED <<pc, work>>
       ELSE /\ pc' = "fetch"
            /\ work' = session.pending
            /\ UNCHANGED view
    /\ UNCHANGED <<session, clearing, leases>>

\* A control sets the flag of the group before it reaches any stream.
Controlled(g, c) ==
    CASE c = "Pause"  -> [g EXCEPT !.paused = TRUE]
      [] c = "Resume" -> [g EXCEPT !.paused = FALSE]
      [] c = "Cancel" -> [g EXCEPT !.paused = FALSE, !.cancelled = TRUE]

\* control_remote, and cancel_remote once a stream was started: without a
\* lease or a started stream nothing changes.
HandleControl ==
    LET c == Head(commands)  r == session.remote IN
    /\ c \in {"Pause", "Resume", "Cancel"}
    /\ r # 0 /\ c = "Cancel" => leases[r].started # 0
    /\ leases' = IF r # 0 /\ leases[r].started # 0
                 THEN [leases EXCEPT ![r] = Controlled(@, c)] ELSE leases
    /\ view' = Refreshed(view, session, leases')
    /\ UNCHANGED <<pc, work, session, clearing>>

DropUnchecked ==  \* mutant: the lease is dropped and its object left there
    /\ session' = [session EXCEPT !.remote = 0]
    /\ clearing' = 0
    /\ pc' = "clear"

\* Drop of ProductRemoteLease asks whether its object is on the clipboard ...
DropRemote ==
    /\ session' = [session EXCEPT !.remote = 0]
    /\ clearing' = IF IsCurrent(session.remote) THEN session.remote ELSE 0
    /\ pc' = "clear"

\* cancel_remote drops a lease of which no stream was started.
HandleCancelUnstarted ==
    /\ Head(commands) = "Cancel"
    /\ session.remote # 0
    /\ leases[session.remote].started = 0
    /\ DropRemote
    /\ UNCHANGED <<work, view, leases>>

\* ... and then clears it, whatever is there by now.
ClearClipboard ==
    IF clearing = 0 THEN UNCHANGED <<clipVars, posted>>
    ELSE WriteClipboard(EmptyClip) /\ posted' = posted \cup {"clipboard"}

FinishCancel ==
    /\ pc = "clear"
    /\ back = "commands"
    /\ ClearClipboard
    /\ clearing' = 0
    /\ session' = [session EXCEPT !.direction = "None"]
    /\ view' = IF view.state = "None" THEN view ELSE [view EXCEPT !.state = "Cancelled"]
    /\ pc' = "commands"
    /\ back' = "loop"
    /\ UNCHANGED <<copies, events, commands, issued, work, outcome, pasteVars,
                   announcers, peerVars, startVars>>

\* The end of run_worker: the group is cancelled if a stream was started, and the lease dropped.
HandleStop ==
    LET r == session.remote IN
    /\ Head(commands) = "Stop"
    /\ leases' = IF r # 0 /\ leases[r].started # 0
                 THEN [leases EXCEPT ![r] = Controlled(@, "Cancel")] ELSE leases
    /\ DropRemote
    /\ UNCHANGED <<work, view>>

HandleCommand ==
    /\ pc = "commands"
    /\ commands # <<>>
    /\ commands' = Tail(commands)
    /\ \/ HandleAcceptPending
       \/ HandleControl
       \/ HandleCancelUnstarted
       \/ HandleStop
    /\ back' = CASE pc' = "commands" -> "loop"
                 [] pc' # "commands" /\ Head(commands) = "Stop" -> "stop"
                 [] OTHER -> "commands"
    /\ UNCHANGED <<clipVars, copies, posted, events, issued, outcome, made, held,
                   announcers, peerVars, startVars>>

\* The servers are dropped, the inbox is joined and the channels are gone with
\* whatever they hold; announcement threads report to nobody.
FinishStop ==
    /\ pc = "clear"
    /\ back = "stop"
    /\ IF clearing = 0 THEN UNCHANGED clip ELSE clip' = EmptyClip
    /\ claimed' = FALSE
    /\ clearing' = 0
    /\ session' = FreshSession
    /\ announcers' = {}
    /\ posted' = {}
    /\ events' = <<>>
    /\ commands' = <<>>
    /\ pc' = "stopped"
    /\ back' = "loop"
    /\ UNCHANGED <<copies, issued, work, view, outcome, pasteVars, peerVars, startVars>>

\* WM_TIMER
RefreshProgress ==
    /\ pc = "loop"
    /\ posted = {}
    /\ view' = Refreshed(view, session, leases)
    /\ UNCHANGED <<clipVars, copies, queueVars, pc, back, work, session, clearing,
                   outcome, pasteVars, announcers, peerVars, startVars>>

\* ProductRuntime::start succeeds.
Start ==
    /\ ~Running
    /\ MayAct
    /\ starts' = starts + 1
    /\ since' = copies
    /\ \E auto \in BOOLEAN : session' = [FreshSession EXCEPT !.auto = auto]
    /\ view' = View!FreshView
    /\ pc' = "loop"
    /\ UNCHANGED <<clipVars, copies, queueVars, back, work, clearing, outcome,
                   pasteVars, announcers, peerVars>>

-----------------------------------------------------------------------------
(* Explorer. *)

\* A paste takes the object from the clipboard and may begin to read later, and again.
HoldObject ==
    /\ \E l \in Lease : IsCurrent(l) /\ held' = held \cup {l}
    /\ UNCHANGED <<clipVars, copies, queueVars, workerVars, leases, made, announcers, peerVars,
                   startVars>>

StartStream(l) ==
    /\ l \in held
    /\ ~leases[l].cancelled
    /\ leases[l].started < MaxPastes
    /\ Alive(leases[l].offer)
    /\ leases' = [leases EXCEPT ![l].started = @ + 1]
    /\ UNCHANGED <<clipVars, copies, queueVars, workerVars, made, held, announcers, peerVars,
                   startVars>>

\* A stream is read to its end.
CompleteStream(l) ==
    /\ leases[l].completed < leases[l].started
    /\ ~leases[l].paused /\ ~leases[l].cancelled
    /\ leases' = [leases EXCEPT ![l].completed = @ + 1]
    /\ UNCHANGED <<clipVars, copies, queueVars, workerVars, made, held, announcers, peerVars,
                   startVars>>

-----------------------------------------------------------------------------

Worker ==
    \/ TakeClipboardUpdate \/ Capture \/ Publish
    \/ TakeEvents \/ HandleEvent \/ Drained \/ Accept
    \/ TakeCommands \/ HandleCommand \/ FinishCancel \/ FinishStop
    \/ RefreshProgress

Environment ==
    \/ CopyElsewhere \/ PeerPublishes \/ HoldObject
    \/ \E c \in Copy : Announced(c)
    \/ \E o \in Offer : Deliver(o)
    \/ \E l \in Lease : StartStream(l) \/ CompleteStream(l)

Tray == SendStop \/ Start \/ \E c \in Command : SendCommand(c)

Next == Worker \/ Environment \/ Tray

\* The worker's thread is scheduled, and its network calls end.
Spec == Init /\ [][Next]_vars /\ WF_vars(Worker)

-----------------------------------------------------------------------------
(* Properties. *)

\* Besides the types: the servers kept alive are bounded.
SessionTypeOK ==
    /\ session \in [auto : BOOLEAN, pending : Offer \cup {0}, remote : Lease \cup {0},
                    direction : Direction, sources : Seq(Copy)]
    /\ Len(session.sources) <= MaxLiveSourceOffers

TypeOK ==
    /\ clip \in [kind : {"other", "files", "lease"}, id : Copy \cup Lease \cup {0}]
    /\ claimed \in BOOLEAN
    /\ posted \subseteq {"clipboard", "event", "command"}
    /\ pc \in {"loop", "claimed", "publish", "events", "fetch", "commands", "clear", "stopped"}
    /\ SessionTypeOK
    /\ view.state \in View!State \cup {"None"}
    /\ made \in 0 .. deliveries

\* An object on the clipboard belongs to the lease the worker holds or is
\* about to clear: the user can always control what Explorer may paste, and
\* nothing is left behind by a worker that stopped.
OfferedObjectIsLeased ==
    clip.kind = "lease" => clip.id # 0 /\ clip.id \in {session.remote, clearing}

\* No copy is offered to the peer twice, however the notifications of a copy
\* and of the objects of this worker fall.
EachCopyIsPublishedOnce == \A c \in Copy : outcome[c].published <= 1

\* When the worker has no notification left to handle, the files on the
\* clipboard were published or an error about them was reported, unless they
\* were copied before the worker listened.  Files that left the clipboard in
\* between, because something else was copied or the worker wrote to it, are
\* not promised anything.
NoCopyIsSilentlyLost ==
    (pc = "loop" /\ "clipboard" \notin posted /\ clip.kind = "files" /\ clip.id > since)
        => outcome[clip.id].published > 0 \/ outcome[clip.id].reported

\* An offer that is being announced has a live server unless as many newer
\* copies as there may be servers were published since.
AnnouncedOfferIsLive ==
    \A c \in announcers :
        \/ c \in {session.sources[i] : i \in DOMAIN session.sources}
        \/ Cardinality({d \in Copy : d > c /\ outcome[d].published > 0}) >= MaxLiveSourceOffers

\* A pending offer stays pending until it is on the clipboard, a newer
\* announcement takes its place or the worker stops.
PendingIsNotLost ==
    [][session.pending # 0 /\ session'.pending # session.pending =>
          \/ session'.pending # 0
          \/ session'.remote # session.remote /\ leases'[session'.remote].offer = session.pending
          \/ pc' = "stopped"]_vars

QueuedOffer(o) == \E i \in DOMAIN events : events[i] = o

\* An announcement the peer has an acknowledgement for is taken from the
\* queue: the peer sends it only once, so nothing else would wake the worker.
AcknowledgedOfferIsTaken ==
    \A o \in Offer : (o \in peer.acked /\ QueuedOffer(o)) ~> ~QueuedOffer(o)

\* A worker that is asked to stop stops, whatever is queued.
StopIsObeyed == StopAsked ~> ~Running

\* A reception shown as cancelled does not begin to read afterwards.
CancelledStaysUnread ==
    [][view.manifest = "Remote" /\ view.state = "Cancelled" =>
          leases'[view.subject].started = leases[view.subject].started]_vars

\* The snapshot keeps what it promises to the tray.
ImplementsView == View!Spec
=============================================================================
