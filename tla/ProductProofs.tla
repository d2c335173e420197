---------------------------- MODULE ProductProofs ----------------------------
(***************************************************************************)
(* Theorems about Product, for every value of its constants.  Each part of *)
(* the invariant is proved on its own from the parts it depends on; the    *)
(* last sections put them together.                                        *)
(***************************************************************************)
EXTENDS Product, FiniteSetTheorems, SequenceTheorems, TLAPS

-----------------------------------------------------------------------------
(* Counters. *)

\* What happened from outside is bounded, and of the leases made each took an
\* announcement that neither waits nor is pending.
Waiting == IF session.pending # 0 THEN 1 ELSE 0

CountsOK ==
    /\ copies \in Nat /\ deliveries \in Nat /\ issued \in Nat /\ starts \in Nat /\ made \in Nat
    /\ copies + deliveries + issued + starts <= MaxInputs
    /\ made + Len(events) + Waiting <= deliveries

QueuesOK ==
    /\ events \in Seq(Offer)
    /\ commands \in Seq(Command \cup {"Stop"})
    /\ posted \subseteq {"clipboard", "event", "command"}

(* The worker and its session. *)

Steps == {"loop", "claimed", "publish", "events", "fetch", "commands", "clear", "stopped"}

ControlOK ==
    /\ pc \in Steps
    /\ pc = "fetch" => back \in {"events", "commands"}
    /\ work \in Nat
    /\ pc = "fetch" => work = session.pending /\ work # 0
    /\ clearing \in Lease \cup {0}
    /\ clearing # 0 => pc = "clear"
    /\ pc \in {"clear", "stopped"} => session.remote = 0
    /\ pc = "stopped" => session.pending = 0 /\ session.direction = "None"

SessionOK == SessionTypeOK /\ session.remote <= made

(* The clipboard and what became of the copies on it. *)

ClipOK ==
    /\ clip \in [kind : {"other", "files", "lease"}, id : Copy \cup Lease \cup {0}]
    /\ claimed \in BOOLEAN
    /\ clip.kind = "files" => clip.id \in 1 .. copies

OutcomeOK ==
    /\ outcome \in [Copy -> [published : Nat, reported : BOOLEAN]]
    /\ \A c \in Copy : c > copies => outcome[c].published = 0
    /\ pc = "publish" => work \in 1 .. copies

\* A copy whose notification is not handled was not published yet, and one that
\* is about to be published is claimed.
OnceOK ==
    /\ EachCopyIsPublishedOnce
    /\ (clip.kind = "files" /\ (pc = "claimed" \/ ("clipboard" \in posted /\ ~claimed)))
          => outcome[clip.id].published = 0
    /\ pc = "publish" => outcome[work].published = 0
    /\ (pc = "publish" /\ clip.kind = "files" /\ clip.id = work) => claimed

\* Files copied since the worker listens are handled, or somebody will see them.
SeenOK ==
    (Running /\ clip.kind = "files" /\ clip.id > since) =>
        \/ outcome[clip.id].published > 0 \/ outcome[clip.id].reported
        \/ "clipboard" \in posted /\ ~claimed
        \/ pc = "claimed"
        \/ pc = "publish" /\ work = clip.id

(* The leases and the view. *)

LeasesOK ==
    /\ leases \in [Lease -> [offer : Offer \cup {0}, started : Nat, paused : BOOLEAN,
                             cancelled : BOOLEAN, completed : Nat]]
    /\ \A l \in Lease :
          /\ leases[l].completed <= leases[l].started
          /\ leases[l].paused \/ leases[l].cancelled => leases[l].started # 0

ViewOK ==
    /\ view \in [pending : BOOLEAN, manifest : Direction, subject : Copy \cup {0},
                 state : View!State \cup {"None"}, generation : Nat]
    /\ session.direction = "Source" => view.state = "AwaitingPaste"
    /\ session.direction = "Remote" /\ pc # "clear" =>
          /\ session.remote # 0
          /\ view.state # "None"
          /\ view.state = "Cancelled" => leases[session.remote].cancelled
          /\ view.state \in {"Running", "Paused", "Completed"} => leases[session.remote].started # 0

Inv ==
    /\ CountsOK /\ QueuesOK /\ ControlOK /\ SessionOK /\ ClipOK
    /\ OutcomeOK /\ OnceOK /\ SeenOK /\ LeasesOK /\ ViewOK /\ OfferedObjectIsLeased

-----------------------------------------------------------------------------

\* The steps of Next, one by one.
LEMMA NextCases ==
    ASSUME Next
    PROVE  \/ TakeClipboardUpdate \/ Capture \/ Publish
           \/ TakeEvents \/ HandleEvent \/ Drained \/ Accept
           \/ TakeCommands \/ HandleCommand \/ FinishCancel \/ FinishStop \/ RefreshProgress
           \/ CopyElsewhere \/ PeerPublishes \/ HoldObject
           \/ \E c \in Copy : Announced(c)
           \/ \E o \in Offer : Deliver(o)
           \/ \E l \in Lease : StartStream(l) \/ CompleteStream(l)
           \/ SendStop \/ Start \/ \E c \in Command : SendCommand(c)
  BY Zenon DEF Next, Worker, Environment, Tray

LEMMA Initially == Init => Inv
<1> SUFFICES ASSUME Init PROVE Inv
    OBVIOUS
<1>1. CountsOK /\ QueuesOK
      BY ProductAssumption DEF ProductAssumption, Init, CountsOK, QueuesOK, Waiting, FreshSession
<1>2. ControlOK
      BY DEF Init, ControlOK, Steps, FreshSession
<1>3. SessionOK
      BY ProductAssumption DEF ProductAssumption, Init, SessionOK, SessionTypeOK, FreshSession, Direction
<1>4. ClipOK /\ OfferedObjectIsLeased /\ SeenOK
      BY DEF Init, ClipOK, EmptyClip, OfferedObjectIsLeased, SeenOK
<1>5. OutcomeOK /\ OnceOK
      BY DEF Init, OutcomeOK, OnceOK, EachCopyIsPublishedOnce, EmptyClip
<1>6. LeasesOK
      BY DEF Init, LeasesOK, FreshLease
<1>7. ViewOK
      BY DEF Init, ViewOK, View!FreshView, View!State, FreshSession, Direction
<1>8. QED
      BY <1>1, <1>2, <1>3, <1>4, <1>5, <1>6, <1>7 DEF Inv

-----------------------------------------------------------------------------
(* Each part is preserved by every step. *)

LEMMA QueuesStep == QueuesOK /\ [Next]_vars => QueuesOK'
<1> SUFFICES ASSUME QueuesOK, [Next]_vars PROVE QueuesOK'
    OBVIOUS
<1> USE DEF QueuesOK
<1>1. CASE HandleEvent
      BY <1>1, HeadTailProperties DEF HandleEvent
<1>2. ASSUME NEW o \in Offer, Deliver(o) PROVE QueuesOK'
      BY <1>2, AppendProperties DEF Deliver, MaySend, Acknowledge, WakeAfter
<1>3. CASE SendStop
      BY <1>3, AppendProperties DEF SendStop
<1>4. ASSUME NEW c \in Command, SendCommand(c) PROVE QueuesOK'
      BY <1>4, AppendProperties DEF SendCommand
<1>5. CASE HandleCommand
      BY <1>5, HeadTailProperties DEF HandleCommand
<1>6. CASE Accept
      BY <1>6 DEF Accept, AcceptFails, AcceptSucceeds
<1>7. CASE CopyElsewhere
      BY <1>7 DEF CopyElsewhere, Notified
<1>8. CASE FinishCancel \/ FinishStop
  <2>1. CASE FinishCancel
    <3>1. posted' \subseteq {"clipboard", "event", "command"}
          BY <1>8, <2>1, Zenon DEF FinishCancel, ClearClipboard
    <3>2. QED
          BY <2>1, <3>1 DEF FinishCancel
  <2>2. CASE FinishStop
        BY <2>2 DEF FinishStop
  <2>3. QED
        BY <1>8, <2>1, <2>2
<1>9. ASSUME NEW c \in Copy, Announced(c) PROVE QueuesOK'
      BY <1>9 DEF Announced
<1>10. CASE TakeClipboardUpdate \/ TakeEvents \/ TakeCommands
       BY <1>10 DEF TakeClipboardUpdate, TakeEvents, TakeCommands
<1>11. CASE Capture \/ Publish \/ Drained \/ RefreshProgress \/ PeerPublishes \/ HoldObject \/ Start
       BY <1>11 DEF Capture, Publish, Drained, RefreshProgress, PeerPublishes, HoldObject, Start, queueVars
<1>12. ASSUME NEW l \in Lease, StartStream(l) \/ CompleteStream(l) PROVE QueuesOK'
       BY <1>12 DEF StartStream, CompleteStream, queueVars
<1>13. CASE UNCHANGED vars
       BY <1>13 DEF vars, queueVars
<1>14. QED
       BY NextCases, <1>1, <1>2, <1>3, <1>4, <1>5, <1>6, <1>7, <1>8, <1>9, <1>10, <1>11, <1>12, <1>13

LEMMA CountsStep == CountsOK /\ QueuesOK /\ ControlOK /\ SessionOK /\ [Next]_vars => CountsOK'
<1> SUFFICES ASSUME CountsOK, QueuesOK, ControlOK, SessionOK, [Next]_vars PROVE CountsOK'
    OBVIOUS
<1>0. /\ Len(events) \in Nat /\ MaxInputs \in Nat
      /\ session.pending \in Offer \cup {0}
      BY ProductAssumption, LenProperties DEF ProductAssumption, QueuesOK, SessionOK, SessionTypeOK
<1>1. CASE HandleEvent
  <2>1. events # <<>> /\ events' = Tail(events) /\ session'.pending = Head(events)
        BY <1>1 DEF HandleEvent, SessionOK, SessionTypeOK
  <2>2. Len(events') = Len(events) - 1 /\ Head(events) \in Offer
        BY <2>1, HeadTailProperties DEF QueuesOK
  <2>3. Waiting' = 1
        BY <2>1, <2>2 DEF Waiting, Offer
  <2>4. QED
        BY <1>0, <1>1, <2>2, <2>3 DEF HandleEvent, CountsOK, Waiting, peerVars, pasteVars, startVars
<1>2. ASSUME NEW o \in Offer, Deliver(o) PROVE CountsOK'
  <2>1. Len(events') = Len(events) + 1
        BY <1>2, AppendProperties DEF Deliver, MaySend, Acknowledge, QueuesOK
  <2>2. /\ UNCHANGED <<copies, issued, starts, made, session>>
        /\ deliveries' = deliveries + 1 /\ copies + deliveries + issued + starts < MaxInputs
        BY <1>2 DEF Deliver, MaySend, Acknowledge, MayAct, workerVars, pasteVars, startVars
  <2>3. QED
        BY <1>0, <2>1, <2>2 DEF CountsOK, Waiting
<1>3. CASE Accept /\ AcceptSucceeds
  <2>1. session'.pending = 0 /\ session.pending # 0
        BY <1>3 DEF Accept, AcceptSucceeds, SessionOK, SessionTypeOK, ControlOK
  <2>2. QED
        BY <1>0, <1>3, <2>1 DEF Accept, AcceptSucceeds, CountsOK, Waiting, peerVars, startVars
<1>4. CASE Accept /\ AcceptFails
      BY <1>4 DEF Accept, AcceptFails, CountsOK, Waiting, peerVars, startVars
<1>5. CASE FinishStop
  <2>1. Len(events') = 0 /\ session'.pending = 0
        BY <1>5 DEF FinishStop, FreshSession
  <2>2. QED
        BY <1>0, <1>5, <2>1 DEF FinishStop, CountsOK, Waiting, peerVars, startVars, pasteVars
<1>6. CASE Start
  <2>1. session'.pending = 0
        BY <1>6 DEF Start, FreshSession
  <2>2. QED
        BY <1>0, <1>6, <2>1 DEF Start, MayAct, CountsOK, Waiting, peerVars, pasteVars, queueVars
<1>7. CASE CopyElsewhere
      BY <1>0, <1>7 DEF CopyElsewhere, MayAct, CountsOK, Waiting, peerVars, pasteVars, startVars, workerVars
<1>8. ASSUME NEW c \in Command, SendCommand(c) PROVE CountsOK'
      BY <1>0, <1>8 DEF SendCommand, MayAct, CountsOK, Waiting, peerVars, pasteVars, startVars, workerVars
<1>9. CASE HandleCommand
  <2>1. session'.pending = session.pending
        BY <1>9 DEF HandleCommand, HandleAcceptPending, HandleControl, HandleCancelUnstarted, HandleStop,
                    DropRemote, SessionOK, SessionTypeOK
  <2>2. QED
        BY <1>9, <2>1 DEF HandleCommand, CountsOK, Waiting, peerVars, startVars
<1>10. CASE Publish \/ FinishCancel
  <2>1. session'.pending = session.pending
        BY <1>10 DEF Publish, PublishFails, PublishSucceeds, FinishCancel, SessionOK, SessionTypeOK
  <2>2. QED
        BY <1>10, <2>1 DEF Publish, FinishCancel, CountsOK, Waiting, peerVars, pasteVars, startVars, queueVars
<1>11. CASE TakeClipboardUpdate \/ TakeEvents \/ TakeCommands \/ Capture \/ Drained \/ RefreshProgress
       BY <1>11 DEF TakeClipboardUpdate, TakeEvents, TakeCommands, Capture, Drained, RefreshProgress,
                    CountsOK, Waiting, peerVars, pasteVars, startVars, queueVars
<1>12. CASE PeerPublishes \/ HoldObject \/ SendStop
       BY <1>12 DEF PeerPublishes, HoldObject, SendStop, CountsOK, Waiting, peerVars, pasteVars, startVars,
                    queueVars, workerVars
<1>13. ASSUME NEW c \in Copy, Announced(c) PROVE CountsOK'
       BY <1>13 DEF Announced, CountsOK, Waiting, peerVars, pasteVars, startVars, workerVars
<1>14. ASSUME NEW l \in Lease, StartStream(l) \/ CompleteStream(l) PROVE CountsOK'
       BY <1>14 DEF StartStream, CompleteStream, CountsOK, Waiting, peerVars, startVars, queueVars, workerVars
<1>15. CASE UNCHANGED vars
       BY <1>15 DEF vars, CountsOK, Waiting, peerVars, pasteVars, startVars, queueVars, workerVars
<1>16. QED
       BY NextCases, <1>1, <1>2, <1>3, <1>4, <1>5, <1>6, <1>7, <1>8, <1>9, <1>10, <1>11, <1>12, <1>13, <1>14,
          <1>15 DEF Accept

\* A lease can be numbered when an offer is accepted.
LEMMA RoomForALease ==
    ASSUME CountsOK, QueuesOK, ControlOK, SessionOK, pc = "fetch"
    PROVE  made + 1 \in Lease
<1>1. Len(events) \in Nat /\ MaxInputs \in Nat
      BY ProductAssumption, LenProperties DEF ProductAssumption, QueuesOK
<1>2. QED
      BY <1>1 DEF CountsOK, Waiting, ControlOK, Lease

LEMMA ControlStep ==
    CountsOK /\ QueuesOK /\ ControlOK /\ SessionOK /\ OutcomeOK /\ ClipOK /\ [Next]_vars => ControlOK'
<1> SUFFICES ASSUME CountsOK, QueuesOK, ControlOK, SessionOK, OutcomeOK, ClipOK, [Next]_vars
             PROVE  ControlOK'
    OBVIOUS
<1>0. session.pending \in Nat /\ session.remote \in Lease \cup {0}
      BY ProductAssumption DEF ProductAssumption, SessionOK, SessionTypeOK, Offer
<1>1. CASE TakeClipboardUpdate \/ TakeEvents \/ TakeCommands \/ Drained \/ RefreshProgress
      BY <1>1 DEF TakeClipboardUpdate, TakeEvents, TakeCommands, Drained, RefreshProgress, ControlOK, Steps
<1>2. CASE Capture
  <2>1. CASE CaptureCandidates
    <3>1. clip.id \in Nat
          BY <2>1 DEF CaptureCandidates, ClipOK, Copy, Lease
    <3>2. QED
          BY <1>2, <2>1, <3>1 DEF Capture, CaptureCandidates, ControlOK, Steps
  <2>2. CASE CaptureNothing \/ CaptureFails
        BY <1>2, <2>2 DEF Capture, CaptureNothing, CaptureFails, ControlOK, Steps
  <2>3. QED
        BY <1>2, <2>1, <2>2 DEF Capture
<1>3. CASE Publish
      BY <1>3 DEF Publish, ControlOK, Steps
<1>4. CASE HandleEvent
  <2>1. Head(events) \in Offer
        BY <1>4, HeadTailProperties DEF HandleEvent, QueuesOK
  <2>2. Head(events) \in Nat /\ Head(events) # 0 /\ session'.pending = Head(events)
        BY <1>4, <2>1 DEF HandleEvent, Offer, SessionOK, SessionTypeOK
  <2>3. CASE session.auto
        BY <1>4, <2>2, <2>3 DEF HandleEvent, ControlOK, Steps
  <2>4. CASE ~session.auto
        BY <1>4, <2>4 DEF HandleEvent, ControlOK, Steps
  <2>5. QED
        BY <2>3, <2>4
<1>5. CASE Accept
      BY <1>5 DEF Accept, ControlOK, Steps
<1>6. CASE HandleCommand
  <2>1. CASE HandleAcceptPending
    <3>1. CASE session.pending = 0
          BY <1>6, <2>1, <3>1 DEF HandleCommand, HandleAcceptPending, ControlOK
    <3>2. CASE session.pending # 0
      <4>1. back' = "commands"
            BY <1>6, <2>1, <3>2 DEF HandleCommand, HandleAcceptPending
      <4>2. QED
            BY <1>0, <1>6, <2>1, <3>2, <4>1 DEF HandleCommand, HandleAcceptPending, ControlOK, Steps
    <3>3. QED
          BY <3>1, <3>2
  <2>2. CASE HandleControl
        BY <1>6, <2>2 DEF HandleCommand, HandleControl, ControlOK
  <2>3. CASE DropRemote /\ UNCHANGED work
    <3>1. session'.remote = 0
          BY <2>3 DEF DropRemote, SessionOK, SessionTypeOK
    <3>2. QED
          BY <1>0, <2>3, <3>1 DEF DropRemote, ControlOK, Steps
  <2>4. QED
        BY <1>6, <2>1, <2>2, <2>3 DEF HandleCommand, HandleCancelUnstarted, HandleStop
<1>7. CASE FinishCancel
      BY <1>7 DEF FinishCancel, ControlOK, Steps
<1>8. CASE FinishStop
      BY <1>8 DEF FinishStop, ControlOK, Steps, FreshSession
<1>9. CASE Start
      BY <1>9 DEF Start, ControlOK, Steps, Running
<1>10. CASE CopyElsewhere \/ PeerPublishes \/ HoldObject \/ SendStop
       BY <1>10 DEF CopyElsewhere, PeerPublishes, HoldObject, SendStop, ControlOK, workerVars
<1>11. ASSUME NEW c \in Copy, Announced(c) PROVE ControlOK'
       BY <1>11 DEF Announced, ControlOK, workerVars
<1>12. ASSUME NEW o \in Offer, Deliver(o) PROVE ControlOK'
       BY <1>12 DEF Deliver, MaySend, Acknowledge, ControlOK, workerVars
<1>13. ASSUME NEW l \in Lease, StartStream(l) \/ CompleteStream(l) PROVE ControlOK'
       BY <1>13 DEF StartStream, CompleteStream, ControlOK, workerVars
<1>14. ASSUME NEW c \in Command, SendCommand(c) PROVE ControlOK'
       BY <1>14 DEF SendCommand, ControlOK, workerVars
<1>15. CASE UNCHANGED vars
       BY <1>15 DEF vars, ControlOK, workerVars
<1>16. QED
       BY NextCases, <1>1, <1>2, <1>3, <1>4, <1>5, <1>6, <1>7, <1>8, <1>9, <1>10, <1>11, <1>12, <1>13, <1>14,
          <1>15

\* The servers kept alive are as many as before or fewer than the limit plus one.
LEMMA PushKeeps ==
    ASSUME NEW sources \in Seq(Copy), NEW c \in Copy, Len(sources) <= MaxLiveSourceOffers
    PROVE  /\ PushSource(sources, c) \in Seq(Copy)
           /\ Len(PushSource(sources, c)) <= MaxLiveSourceOffers
<1>1. Len(sources) \in Nat /\ MaxLiveSourceOffers \in Nat \ {0}
      BY ProductAssumption, LenProperties DEF ProductAssumption
<1>2. CASE Len(sources) = MaxLiveSourceOffers
  <2>1. sources # <<>>
        BY <1>1, <1>2
  <2>2. Tail(sources) \in Seq(Copy) /\ Len(Tail(sources)) = Len(sources) - 1
        BY <2>1, HeadTailProperties
  <2>3. /\ Append(Tail(sources), c) \in Seq(Copy)
        /\ Len(Append(Tail(sources), c)) = Len(sources)
        BY <1>1, <2>2, AppendProperties
  <2>4. QED
        BY <1>2, <2>3 DEF PushSource
<1>3. CASE Len(sources) # MaxLiveSourceOffers
  <2>1. Append(sources, c) \in Seq(Copy) /\ Len(Append(sources, c)) = Len(sources) + 1
        BY AppendProperties
  <2>2. QED
        BY <1>1, <1>3, <2>1 DEF PushSource
<1>4. QED
      BY <1>2, <1>3

LEMMA SessionStep ==
    CountsOK /\ QueuesOK /\ ControlOK /\ SessionOK /\ OutcomeOK /\ [Next]_vars => SessionOK'
<1> SUFFICES ASSUME CountsOK, QueuesOK, ControlOK, SessionOK, OutcomeOK, [Next]_vars
             PROVE  SessionOK'
    OBVIOUS
<1> DEFINE T == [auto : BOOLEAN, pending : Offer \cup {0}, remote : Lease \cup {0},
                 direction : Direction, sources : Seq(Copy)]
<1>0. session \in T /\ Len(session.sources) <= MaxLiveSourceOffers /\ session.remote <= made
      BY DEF SessionOK, SessionTypeOK
<1>1. CASE UNCHANGED <<session, made>>
      BY <1>1 DEF SessionOK, SessionTypeOK
<1>2. CASE Publish
  <2>1. CASE PublishSucceeds
    <3>1. work \in Copy
          BY <1>2, ProductAssumption DEF Publish, OutcomeOK, CountsOK, Copy, ProductAssumption
    <3>2. PushSource(session.sources, work) \in Seq(Copy)
          /\ Len(PushSource(session.sources, work)) <= MaxLiveSourceOffers
          BY <1>0, <3>1, PushKeeps
    <3>3. session' \in T /\ session'.sources = PushSource(session.sources, work)
          /\ session'.remote = session.remote
          BY <1>0, <2>1, <3>2 DEF PublishSucceeds, Direction
    <3>4. QED
          BY <1>0, <1>2, <3>2, <3>3 DEF Publish, pasteVars, SessionOK, SessionTypeOK
  <2>2. CASE PublishFails
        BY <1>1, <1>2, <2>2 DEF Publish, PublishFails, pasteVars
  <2>3. QED
        BY <1>2, <2>1, <2>2 DEF Publish
<1>3. CASE HandleEvent
  <2>1. Head(events) \in Offer
        BY <1>3, HeadTailProperties DEF HandleEvent, QueuesOK
  <2>2. QED
        BY <1>0, <1>3, <2>1 DEF HandleEvent, pasteVars, SessionOK, SessionTypeOK
<1>4. CASE Accept
  <2>1. CASE AcceptSucceeds
    <3>1. made + 1 \in Lease /\ made \in Nat
          BY <1>4, RoomForALease DEF Accept, CountsOK
    <3>2. session' \in T /\ session'.sources = session.sources /\ session'.remote = made + 1
          BY <1>0, <2>1, <3>1 DEF AcceptSucceeds, Direction
    <3>3. QED
          BY <1>0, <2>1, <3>1, <3>2 DEF AcceptSucceeds, SessionOK, SessionTypeOK
  <2>2. CASE AcceptFails
        BY <1>1, <2>2 DEF AcceptFails
  <2>3. QED
        BY <1>4, <2>1, <2>2 DEF Accept
<1>5. CASE HandleCommand
  <2>1. CASE HandleAcceptPending \/ HandleControl
        BY <1>1, <1>5, <2>1 DEF HandleCommand, HandleAcceptPending, HandleControl
  <2>2. CASE DropRemote /\ UNCHANGED made
    <3>1. session' \in T /\ session'.sources = session.sources /\ session'.remote = 0
          BY <1>0, <2>2 DEF DropRemote
    <3>2. QED
          BY <1>0, <2>2, <3>1 DEF SessionOK, SessionTypeOK, CountsOK
  <2>3. QED
        BY <1>5, <2>1, <2>2 DEF HandleCommand, HandleCancelUnstarted, HandleStop
<1>6. CASE FinishCancel
      BY <1>0, <1>6 DEF FinishCancel, pasteVars, SessionOK, SessionTypeOK, Direction
<1>7. ASSUME NEW auto \in BOOLEAN, UNCHANGED made,
             session' = [auto |-> auto, pending |-> 0, remote |-> 0, direction |-> "None",
                         sources |-> <<>>]
      PROVE  SessionOK'
  <2>1. <<>> \in Seq(Copy) /\ Len(<<>>) = 0
        BY EmptySeq
  <2>2. session' \in T /\ session'.sources = <<>> /\ session'.remote = 0
        BY <1>7, <2>1 DEF Direction
  <2>3. QED
        BY <1>7, <2>1, <2>2, ProductAssumption
           DEF ProductAssumption, SessionOK, SessionTypeOK, CountsOK
<1>8. CASE FinishStop \/ Start
  <2>1. CASE FinishStop
        BY <1>7, <2>1 DEF FinishStop, FreshSession, pasteVars
  <2>2. CASE Start
        BY <1>7, <2>2 DEF Start, FreshSession, pasteVars
  <2>3. QED
        BY <1>8, <2>1, <2>2
<1>9. CASE TakeClipboardUpdate \/ TakeEvents \/ TakeCommands \/ Drained \/ RefreshProgress \/ Capture
      BY <1>1, <1>9 DEF TakeClipboardUpdate, TakeEvents, TakeCommands, Drained, RefreshProgress, Capture,
                        pasteVars
<1>10. CASE CopyElsewhere \/ PeerPublishes \/ HoldObject \/ SendStop
       BY <1>1, <1>10 DEF CopyElsewhere, PeerPublishes, HoldObject, SendStop, workerVars, pasteVars
<1>11. ASSUME NEW c \in Copy, Announced(c) PROVE SessionOK'
       BY <1>1, <1>11 DEF Announced, workerVars, pasteVars
<1>12. ASSUME NEW o \in Offer, Deliver(o) PROVE SessionOK'
       BY <1>1, <1>12 DEF Deliver, MaySend, Acknowledge, workerVars, pasteVars
<1>13. ASSUME NEW l \in Lease, StartStream(l) \/ CompleteStream(l) PROVE SessionOK'
       BY <1>1, <1>13 DEF StartStream, CompleteStream, workerVars
<1>14. ASSUME NEW c \in Command, SendCommand(c) PROVE SessionOK'
       BY <1>1, <1>14 DEF SendCommand, workerVars, pasteVars
<1>15. CASE UNCHANGED vars
       BY <1>1, <1>15 DEF vars, workerVars, pasteVars
<1>16. QED
       BY NextCases, <1>2, <1>3, <1>4, <1>5, <1>6, <1>8, <1>9, <1>10, <1>11, <1>12, <1>13, <1>14, <1>15

\* Most steps leave the clipboard, what became of its copies and the place of the
\* worker among them alone.
contentVars == <<clip, claimed, copies, outcome, since>>

LEMMA ContentFrame ==
    ASSUME [Next]_vars
    PROVE  \/ UNCHANGED <<contentVars, posted, pc, work>>
           \/ UNCHANGED contentVars /\ posted \subseteq posted' /\ posted' \subseteq posted \cup {"event", "command"}
              /\ UNCHANGED <<pc, work>>
           \/ UNCHANGED contentVars /\ pc \in {"loop", "events", "commands"}
              /\ pc' \in {"loop", "events", "fetch", "commands", "clear"}
              /\ ("clipboard" \in posted' <=> "clipboard" \in posted)
           \/ CopyElsewhere \/ TakeClipboardUpdate \/ Capture \/ Publish
           \/ Accept \/ FinishCancel \/ FinishStop \/ Start
<1>1. CASE TakeEvents \/ TakeCommands \/ Drained
      BY <1>1 DEF TakeEvents, TakeCommands, Drained, contentVars, clipVars, workerVars, queueVars, startVars
<1>2. CASE HandleEvent
      BY <1>2 DEF HandleEvent, contentVars, clipVars, startVars
<1>3. CASE HandleCommand
  <2>1. UNCHANGED <<contentVars, posted>> /\ pc = "commands"
        BY <1>3 DEF HandleCommand, contentVars, clipVars, startVars
  <2>2. pc' \in {"commands", "fetch", "clear"}
        BY <1>3 DEF HandleCommand, HandleAcceptPending, HandleControl, HandleCancelUnstarted, HandleStop,
                    DropRemote
  <2>3. QED
        BY <2>1, <2>2
<1>4. CASE RefreshProgress \/ PeerPublishes \/ HoldObject \/ SendStop
      BY <1>4 DEF RefreshProgress, PeerPublishes, HoldObject, SendStop, contentVars, clipVars, workerVars,
                  queueVars, startVars
<1>5. ASSUME NEW c \in Copy, Announced(c) PROVE UNCHANGED <<contentVars, pc, work>> /\ posted' = posted \cup {"event"}
      BY <1>5 DEF Announced, contentVars, clipVars, workerVars, startVars
<1>6. ASSUME NEW o \in Offer, Deliver(o)
      PROVE  UNCHANGED <<contentVars, pc, work>> /\ posted' \in {posted, posted \cup {"event"}}
      BY <1>6 DEF Deliver, MaySend, Acknowledge, WakeAfter, contentVars, clipVars, workerVars, startVars
<1>7. ASSUME NEW l \in Lease, StartStream(l) \/ CompleteStream(l) PROVE UNCHANGED <<contentVars, posted, pc, work>>
      BY <1>7 DEF StartStream, CompleteStream, contentVars, clipVars, workerVars, queueVars, startVars
<1>8. ASSUME NEW c \in Command, SendCommand(c)
      PROVE  UNCHANGED <<contentVars, pc, work>> /\ posted' = posted \cup {"command"}
      BY <1>8 DEF SendCommand, contentVars, clipVars, workerVars, startVars
<1>9. CASE SendStop
      BY <1>9 DEF SendStop, contentVars, clipVars, workerVars, startVars
<1>10. CASE UNCHANGED vars
       BY <1>10 DEF vars, contentVars, clipVars, workerVars, queueVars, startVars
<1>11. QED
       BY NextCases, <1>1, <1>2, <1>3, <1>4, <1>5, <1>6, <1>7, <1>8, <1>9, <1>10

LEMMA ClipStep == CountsOK /\ QueuesOK /\ ControlOK /\ SessionOK /\ ClipOK /\ [Next]_vars => ClipOK'
<1> SUFFICES ASSUME CountsOK, QueuesOK, ControlOK, SessionOK, ClipOK, [Next]_vars PROVE ClipOK'
    OBVIOUS
<1>1. CASE UNCHANGED <<clip, claimed, copies>>
      BY <1>1 DEF ClipOK
<1>2. CASE CopyElsewhere
  <2>1. copies + 1 \in Copy /\ copies \in Nat /\ copies' = copies + 1
        BY <1>2, ProductAssumption DEF CopyElsewhere, MayAct, CountsOK, Copy, ProductAssumption
  <2>2. /\ clip' \in {[kind |-> "files", id |-> copies + 1], [kind |-> "other", id |-> 0]}
        /\ claimed' = FALSE
        BY <1>2 DEF CopyElsewhere, WriteClipboard
  <2>3. CASE clip' = [kind |-> "files", id |-> copies + 1]
    <3>1. clip'.id = copies + 1 /\ copies + 1 \in 1 .. copies'
          BY <2>1, <2>3
    <3>2. clip' \in [kind : {"other", "files", "lease"}, id : Copy \cup Lease \cup {0}]
          BY <2>1, <2>3
    <3>3. QED
          BY <2>2, <3>1, <3>2 DEF ClipOK
  <2>4. CASE clip' = [kind |-> "other", id |-> 0]
    <3>1. clip'.kind # "files"
          BY <2>4
    <3>2. clip' \in [kind : {"other", "files", "lease"}, id : Copy \cup Lease \cup {0}]
          BY <2>4
    <3>3. QED
          BY <2>2, <3>1, <3>2 DEF ClipOK
  <2>5. QED
        BY <2>2, <2>3, <2>4
<1>3. CASE Accept
  <2>1. CASE AcceptSucceeds
        BY <1>3, <2>1, RoomForALease DEF Accept, AcceptSucceeds, WriteClipboard, ClipOK
  <2>2. QED
        BY <1>1, <1>3, <2>1 DEF Accept, AcceptFails, clipVars
<1>4. ASSUME clip' \in {clip, EmptyClip}, claimed' \in {claimed, FALSE}, UNCHANGED copies PROVE ClipOK'
  <2>1. EmptyClip.kind = "other"
        /\ EmptyClip \in [kind : {"other", "files", "lease"}, id : Copy \cup Lease \cup {0}]
        BY DEF EmptyClip
  <2>2. QED
        BY <1>4, <2>1 DEF ClipOK
<1>5. CASE FinishCancel \/ FinishStop
      BY <1>4, <1>5 DEF FinishCancel, FinishStop, ClearClipboard, WriteClipboard, clipVars
<1>6. CASE TakeClipboardUpdate \/ Capture
  <2>1. UNCHANGED <<clip, copies>> /\ claimed' \in {claimed, TRUE}
        BY <1>6 DEF TakeClipboardUpdate, Capture, CaptureCandidates, CaptureNothing, CaptureFails
  <2>2. QED
        BY <2>1 DEF ClipOK
<1>7. CASE Publish \/ Start
      BY <1>1, <1>7 DEF Publish, Start, clipVars
<1>8. QED
      BY ContentFrame, <1>1, <1>2, <1>3, <1>4, <1>5, <1>6, <1>7 DEF contentVars

LEMMA OutcomeStep == CountsOK /\ ControlOK /\ ClipOK /\ OutcomeOK /\ [Next]_vars => OutcomeOK'
<1> SUFFICES ASSUME CountsOK, ControlOK, ClipOK, OutcomeOK, [Next]_vars PROVE OutcomeOK'
    OBVIOUS
<1>0. copies \in Nat /\ \A c \in 1 .. copies : c \in Copy
      BY ProductAssumption DEF CountsOK, Copy, ProductAssumption
<1>1. CASE UNCHANGED outcome /\ copies' \in {copies, copies + 1} /\ pc' # "publish"
      BY <1>0, <1>1 DEF OutcomeOK, Copy
<1>2. CASE CopyElsewhere
      BY <1>0, <1>2 DEF CopyElsewhere, OutcomeOK, workerVars, Copy
<1>3. CASE TakeClipboardUpdate \/ Accept \/ FinishCancel \/ FinishStop \/ Start
  <2>1. UNCHANGED <<outcome, copies>>
        BY <1>3 DEF TakeClipboardUpdate, Accept, FinishCancel, FinishStop, Start
  <2>2. pc' # "publish"
        BY <1>3 DEF TakeClipboardUpdate, Accept, FinishCancel, FinishStop, Start, ControlOK
  <2>3. QED
        BY <1>1, <2>1, <2>2
<1>4. CASE Capture
  <2>1. CASE CaptureCandidates
        BY <1>4, <2>1 DEF Capture, CaptureCandidates, OutcomeOK, ClipOK
  <2>2. CASE CaptureNothing
        BY <1>1, <1>4, <2>2 DEF Capture, CaptureNothing
  <2>3. CASE CaptureFails
        BY <1>0, <1>4, <2>3 DEF Capture, CaptureFails, OutcomeOK, ClipOK
  <2>4. QED
        BY <1>4, <2>1, <2>2, <2>3 DEF Capture
<1>5. CASE Publish
  <2>1. work \in 1 .. copies /\ work \in Copy /\ UNCHANGED copies /\ pc' = "loop"
        BY <1>0, <1>5 DEF Publish, OutcomeOK
  <2>2. outcome' \in {[outcome EXCEPT ![work].reported = TRUE],
                      [outcome EXCEPT ![work].published = @ + 1]}
        BY <1>5 DEF Publish, PublishFails, PublishSucceeds
  <2>3. outcome' \in [Copy -> [published : Nat, reported : BOOLEAN]]
    <3> DEFINE T == [published : Nat, reported : BOOLEAN]
    <3>1. outcome \in [Copy -> T] /\ outcome[work] \in T
          BY <2>1 DEF OutcomeOK
    <3>2. CASE outcome' = [outcome EXCEPT ![work].reported = TRUE]
      <4>1. [outcome[work] EXCEPT !.reported = TRUE] \in T
            BY <3>1
      <4>2. QED
            BY <2>1, <3>1, <3>2, <4>1
    <3>3. CASE outcome' = [outcome EXCEPT ![work].published = @ + 1]
      <4>1. [outcome[work] EXCEPT !.published = outcome[work].published + 1] \in T
            BY <3>1
      <4>2. QED
            BY <2>1, <3>1, <3>3, <4>1
    <3>4. QED
          BY <2>2, <3>2, <3>3
  <2>4. ASSUME NEW c \in Copy, c > copies PROVE outcome'[c].published = 0
        BY <1>0, <2>1, <2>2, <2>4 DEF OutcomeOK
  <2>5. QED
        BY <2>1, <2>3, <2>4 DEF OutcomeOK
<1>6. CASE UNCHANGED <<outcome, copies, pc, work>>
      BY <1>6 DEF OutcomeOK
<1>7. QED
      BY ContentFrame, <1>1, <1>2, <1>3, <1>4, <1>5, <1>6 DEF contentVars

LEMMA OnceStep ==
    CountsOK /\ ControlOK /\ ClipOK /\ OutcomeOK /\ OnceOK /\ [Next]_vars => OnceOK'
<1> SUFFICES ASSUME CountsOK, ControlOK, ClipOK, OutcomeOK, OnceOK, [Next]_vars PROVE OnceOK'
    OBVIOUS
<1>0. copies \in Nat /\ \A c \in 1 .. copies : c \in Copy
      BY ProductAssumption DEF CountsOK, Copy, ProductAssumption
<1>1. ASSUME UNCHANGED contentVars, pc' \notin {"claimed", "publish"},
             "clipboard" \in posted' => "clipboard" \in posted
      PROVE  OnceOK'
      BY <1>1 DEF OnceOK, EachCopyIsPublishedOnce, contentVars
<1>2. ASSUME UNCHANGED <<contentVars, pc, work>>, "clipboard" \in posted' => "clipboard" \in posted
      PROVE  OnceOK'
      BY <1>2 DEF OnceOK, EachCopyIsPublishedOnce, contentVars
<1>3. CASE CopyElsewhere
  <2>1. clip'.kind = "files" => clip'.id = copies + 1
        BY <1>3 DEF CopyElsewhere, WriteClipboard
  <2>2. UNCHANGED <<outcome, pc, work>> /\ copies + 1 \in Copy
        BY <1>0, <1>3, ProductAssumption
           DEF CopyElsewhere, workerVars, MayAct, CountsOK, Copy, ProductAssumption
  <2>3. outcome[copies + 1].published = 0 /\ (pc = "publish" => work # copies + 1)
        BY <1>0, <2>2 DEF OutcomeOK
  <2>4. QED
        BY <2>1, <2>2, <2>3 DEF OnceOK, EachCopyIsPublishedOnce
<1>4. CASE TakeClipboardUpdate
      BY <1>4 DEF TakeClipboardUpdate, OnceOK, EachCopyIsPublishedOnce
<1>5. CASE Capture
  <2>1. CASE CaptureCandidates
        BY <1>5, <2>1 DEF Capture, CaptureCandidates, OnceOK, EachCopyIsPublishedOnce, queueVars
  <2>2. CASE CaptureNothing
        BY <1>5, <2>2 DEF Capture, CaptureNothing, OnceOK, EachCopyIsPublishedOnce, queueVars
  <2>3. CASE CaptureFails
    <3>1. \A c \in Copy : outcome'[c].published = outcome[c].published
          BY <1>0, <2>3 DEF CaptureFails, OutcomeOK, ClipOK
    <3>2. pc' = "loop" /\ UNCHANGED <<clip, claimed, posted>>
          BY <1>5, <2>3 DEF Capture, CaptureFails, queueVars
    <3>3. clip.kind = "files" => clip.id \in Copy
          BY <1>0 DEF ClipOK
    <3>4. QED
          BY <3>1, <3>2, <3>3 DEF OnceOK, EachCopyIsPublishedOnce
  <2>4. QED
        BY <1>5, <2>1, <2>2, <2>3 DEF Capture
<1>6. CASE Publish
  <2>1. work \in Copy /\ pc = "publish" /\ pc' = "loop" /\ UNCHANGED <<clip, claimed, posted>>
        BY <1>0, <1>6 DEF Publish, OutcomeOK, clipVars, queueVars
  <2>2. outcome' \in {[outcome EXCEPT ![work].reported = TRUE],
                      [outcome EXCEPT ![work].published = @ + 1]}
        BY <1>6 DEF Publish, PublishFails, PublishSucceeds
  <2>3. /\ outcome'[work].published <= 1
        /\ \A c \in Copy \ {work} : outcome'[c].published = outcome[c].published
        BY <2>1, <2>2 DEF OutcomeOK, OnceOK
  <2>4. clip.kind = "files" => clip.id \in Copy
        BY <1>0 DEF ClipOK
  <2>5. QED
        BY <2>1, <2>3, <2>4 DEF OnceOK, EachCopyIsPublishedOnce
<1>7. CASE Accept
  <2>1. pc' \in {"events", "commands"} /\ UNCHANGED <<outcome, copies, since>>
        BY <1>7 DEF Accept, ControlOK, startVars
  <2>2. CASE AcceptFails
        BY <1>1, <2>1, <2>2 DEF AcceptFails, contentVars, clipVars
  <2>3. CASE AcceptSucceeds
        BY <2>1, <2>3 DEF AcceptSucceeds, WriteClipboard, OnceOK, EachCopyIsPublishedOnce
  <2>4. QED
        BY <1>7, <2>2, <2>3 DEF Accept
<1>8. CASE FinishCancel
      BY <1>8 DEF FinishCancel, ClearClipboard, WriteClipboard, EmptyClip, OnceOK,
                  EachCopyIsPublishedOnce, clipVars
<1>9. CASE FinishStop
      BY <1>9 DEF FinishStop, EmptyClip, OnceOK, EachCopyIsPublishedOnce
<1>10. CASE Start
       BY <1>10 DEF Start, OnceOK, EachCopyIsPublishedOnce, clipVars, queueVars
<1>11. QED
       BY ContentFrame, <1>1, <1>2, <1>3, <1>4, <1>5, <1>6, <1>7, <1>8, <1>9, <1>10

LEMMA SeenStep ==
    CountsOK /\ ControlOK /\ ClipOK /\ OutcomeOK /\ SeenOK /\ [Next]_vars => SeenOK'
<1> SUFFICES ASSUME CountsOK, ControlOK, ClipOK, OutcomeOK, SeenOK, [Next]_vars PROVE SeenOK'
    OBVIOUS
<1>0. copies \in Nat /\ (clip.kind = "files" => clip.id \in Copy /\ clip.id <= copies)
      BY ProductAssumption DEF CountsOK, ClipOK, Copy, ProductAssumption
<1>1. ASSUME UNCHANGED contentVars, UNCHANGED <<pc, work>>, "clipboard" \in posted => "clipboard" \in posted'
      PROVE  SeenOK'
      BY <1>1 DEF SeenOK, contentVars, Running
<1>2. ASSUME UNCHANGED contentVars, pc \notin {"claimed", "publish", "stopped"},
             "clipboard" \in posted => "clipboard" \in posted'
      PROVE  SeenOK'
      BY <1>2 DEF SeenOK, contentVars, Running
<1>3. CASE CopyElsewhere
      BY <1>3 DEF CopyElsewhere, WriteClipboard, Notified, SeenOK, workerVars, Running
<1>4. CASE TakeClipboardUpdate
      BY <1>4 DEF TakeClipboardUpdate, SeenOK, Running, startVars
<1>5. CASE Capture
  <2>1. CASE CaptureCandidates
        BY <1>5, <2>1 DEF Capture, CaptureCandidates, SeenOK
  <2>2. CASE CaptureNothing
        BY <1>5, <2>2 DEF Capture, CaptureNothing, SeenOK
  <2>3. CASE CaptureFails
    <3>1. UNCHANGED clip /\ (clip.kind = "files" => outcome'[clip.id].reported)
          BY <1>0, <1>5, <2>3 DEF Capture, CaptureFails, OutcomeOK
    <3>2. QED
          BY <3>1 DEF SeenOK
  <2>4. QED
        BY <1>5, <2>1, <2>2, <2>3 DEF Capture
<1>6. CASE Publish
  <2>1. work \in Copy /\ pc = "publish" /\ UNCHANGED <<clip, claimed, posted, since>>
        BY <1>0, <1>6, ProductAssumption
           DEF Publish, OutcomeOK, clipVars, queueVars, startVars, CountsOK, Copy, ProductAssumption
  <2>2. outcome' \in {[outcome EXCEPT ![work].reported = TRUE],
                      [outcome EXCEPT ![work].published = @ + 1]}
        BY <1>6 DEF Publish, PublishFails, PublishSucceeds
  <2>3. outcome'[work].published > 0 \/ outcome'[work].reported
        BY <2>1, <2>2 DEF OutcomeOK
  <2>4. \A c \in Copy \ {work} : outcome'[c] = outcome[c]
        BY <2>1, <2>2 DEF OutcomeOK
  <2>5. QED
        BY <1>0, <2>1, <2>3, <2>4 DEF SeenOK, Running
<1>7. CASE Accept
  <2>1. CASE AcceptFails
        BY <1>2, <1>7, <2>1 DEF Accept, AcceptFails, contentVars, clipVars, startVars
  <2>2. CASE AcceptSucceeds
        BY <2>2 DEF AcceptSucceeds, WriteClipboard, SeenOK
  <2>3. QED
        BY <1>7, <2>1, <2>2 DEF Accept
<1>8. CASE FinishCancel
  <2>1. CASE clearing = 0
        BY <1>2, <1>8, <2>1 DEF FinishCancel, ClearClipboard, contentVars, startVars, clipVars
  <2>2. CASE clearing # 0
        BY <1>8, <2>2 DEF FinishCancel, ClearClipboard, WriteClipboard, EmptyClip, SeenOK
  <2>3. QED
        BY <2>1, <2>2
<1>9. CASE FinishStop
      BY <1>9 DEF FinishStop, SeenOK, Running
<1>10. CASE Start
  <2>1. UNCHANGED clip /\ since' = copies
        BY <1>10 DEF Start, clipVars
  <2>2. clip.kind = "files" => ~(clip.id > copies)
        BY <1>0, ProductAssumption DEF Copy, ProductAssumption
  <2>3. QED
        BY <2>1, <2>2 DEF SeenOK
<1>11. QED
       BY ContentFrame, <1>1, <1>2, <1>3, <1>4, <1>5, <1>6, <1>7, <1>8, <1>9, <1>10

LEMMA LeasedStep ==
    CountsOK /\ QueuesOK /\ ControlOK /\ SessionOK /\ ClipOK /\ OfferedObjectIsLeased /\ [Next]_vars
        => OfferedObjectIsLeased'
<1> SUFFICES ASSUME CountsOK, QueuesOK, ControlOK, SessionOK, ClipOK, OfferedObjectIsLeased, [Next]_vars
             PROVE  OfferedObjectIsLeased'
    OBVIOUS
<1>1. ASSUME UNCHANGED clip, session'.remote = session.remote, UNCHANGED clearing
      PROVE  OfferedObjectIsLeased'
      BY <1>1 DEF OfferedObjectIsLeased
<1>2. CASE CopyElsewhere
      BY <1>2 DEF CopyElsewhere, WriteClipboard, OfferedObjectIsLeased
<1>3. CASE Accept
  <2>1. CASE AcceptSucceeds
        BY <1>3, <2>1, RoomForALease
           DEF Accept, AcceptSucceeds, WriteClipboard, OfferedObjectIsLeased, SessionOK, SessionTypeOK, Lease
  <2>2. CASE AcceptFails
        BY <1>1, <1>3, <2>2 DEF Accept, AcceptFails, clipVars
  <2>3. QED
        BY <1>3, <2>1, <2>2 DEF Accept
<1>4. CASE HandleCommand
  <2>1. UNCHANGED clip /\ pc = "commands" /\ clearing = 0
        BY <1>4 DEF HandleCommand, clipVars, ControlOK
  <2>2. CASE DropRemote
    <3>1. clip.kind = "lease" => clip.id # 0 /\ clip.id = session.remote
          BY <2>1 DEF OfferedObjectIsLeased
    <3>2. clip.kind = "lease" => clip = [kind |-> "lease", id |-> session.remote]
          BY <3>1 DEF ClipOK
    <3>3. clip.kind = "lease" => clearing' = clip.id
          BY <2>2, <3>1, <3>2 DEF DropRemote, IsCurrent
    <3>4. QED
          BY <2>1, <3>1, <3>3 DEF OfferedObjectIsLeased
  <2>3. CASE HandleAcceptPending \/ HandleControl
        BY <1>1, <2>1, <2>3 DEF HandleAcceptPending, HandleControl
  <2>4. QED
        BY <1>4, <2>2, <2>3 DEF HandleCommand, HandleCancelUnstarted, HandleStop
<1>5. CASE FinishCancel
  <2>1. session'.remote = session.remote
        BY <1>5 DEF FinishCancel, SessionOK, SessionTypeOK
  <2>2. CASE clearing = 0
        BY <1>5, <2>1, <2>2 DEF FinishCancel, ClearClipboard, clipVars, OfferedObjectIsLeased
  <2>3. CASE clearing # 0
        BY <1>5, <2>3 DEF FinishCancel, ClearClipboard, WriteClipboard, EmptyClip, OfferedObjectIsLeased
  <2>4. QED
        BY <2>2, <2>3
<1>6. CASE FinishStop
  <2>1. session.remote = 0
        BY <1>6 DEF FinishStop, ControlOK
  <2>2. QED
        BY <1>6, <2>1 DEF FinishStop, EmptyClip, OfferedObjectIsLeased
<1>7. CASE Start
  <2>1. session.remote = 0 /\ session'.remote = 0
        BY <1>7 DEF Start, Running, ControlOK, FreshSession
  <2>2. QED
        BY <1>1, <1>7, <2>1 DEF Start, clipVars
<1>8. CASE Publish \/ HandleEvent
  <2>1. session'.remote = session.remote
        BY <1>8 DEF Publish, PublishFails, PublishSucceeds, HandleEvent, SessionOK, SessionTypeOK
  <2>2. QED
        BY <1>1, <1>8, <2>1 DEF Publish, HandleEvent, clipVars
<1>9. CASE TakeClipboardUpdate \/ Capture \/ TakeEvents \/ Drained \/ TakeCommands \/ RefreshProgress
      BY <1>1, <1>9 DEF TakeClipboardUpdate, Capture, TakeEvents, Drained, TakeCommands, RefreshProgress,
                        clipVars
<1>10. CASE PeerPublishes \/ HoldObject \/ SendStop
       BY <1>1, <1>10 DEF PeerPublishes, HoldObject, SendStop, clipVars, workerVars
<1>11. ASSUME NEW c \in Copy, Announced(c) PROVE OfferedObjectIsLeased'
       BY <1>1, <1>11 DEF Announced, clipVars, workerVars
<1>12. ASSUME NEW o \in Offer, Deliver(o) PROVE OfferedObjectIsLeased'
       BY <1>1, <1>12 DEF Deliver, MaySend, Acknowledge, clipVars, workerVars
<1>13. ASSUME NEW l \in Lease, StartStream(l) \/ CompleteStream(l) PROVE OfferedObjectIsLeased'
       BY <1>1, <1>13 DEF StartStream, CompleteStream, clipVars, workerVars
<1>14. ASSUME NEW c \in Command, SendCommand(c) PROVE OfferedObjectIsLeased'
       BY <1>1, <1>14 DEF SendCommand, clipVars, workerVars
<1>15. CASE UNCHANGED vars
       BY <1>1, <1>15 DEF vars, clipVars, workerVars
<1>16. QED
       BY NextCases, <1>2, <1>3, <1>4, <1>5, <1>6, <1>7, <1>8, <1>9, <1>10, <1>11, <1>12, <1>13, <1>14,
          <1>15

-----------------------------------------------------------------------------
(* Leases and the view. *)

LeaseRecord == [offer : Offer \cup {0}, started : Nat, paused : BOOLEAN, cancelled : BOOLEAN,
                completed : Nat]

\* What holds of one lease.
LeaseOK(g) ==
    /\ g \in LeaseRecord
    /\ g.completed <= g.started
    /\ g.paused \/ g.cancelled => g.started # 0

LEMMA EachLease == LeasesOK <=> /\ leases \in [Lease -> LeaseRecord]
                               /\ \A l \in Lease : LeaseOK(leases[l])
  BY DEF LeasesOK, LeaseOK, LeaseRecord

LEMMA LeaseChange ==
    ASSUME LeasesOK, NEW l \in Lease, NEW g, LeaseOK(g), leases' = [leases EXCEPT ![l] = g]
    PROVE  LeasesOK'
<1>1. leases \in [Lease -> LeaseRecord] /\ \A k \in Lease : LeaseOK(leases[k])
      BY EachLease
<1>2. leases' \in [Lease -> LeaseRecord] /\ \A k \in Lease : LeaseOK(leases'[k])
      BY <1>1 DEF LeaseOK
<1>3. QED
      BY <1>2 DEF LeasesOK, LeaseOK, LeaseRecord

LEMMA ControlledLease ==
    ASSUME NEW g, LeaseOK(g), g.started # 0, NEW c \in {"Pause", "Resume", "Cancel"}
    PROVE  LeaseOK(Controlled(g, c)) /\ Controlled(g, c).started = g.started
                                    /\ (g.cancelled => Controlled(g, c).cancelled)
<1>1. CASE c = "Pause"
      BY <1>1 DEF LeaseOK, LeaseRecord, Controlled
<1>2. CASE c = "Resume"
      BY <1>2 DEF LeaseOK, LeaseRecord, Controlled
<1>3. CASE c = "Cancel"
      BY <1>3 DEF LeaseOK, LeaseRecord, Controlled
<1>4. QED
      BY <1>1, <1>2, <1>3

\* The leases are touched by an acceptance, a command and by Explorer only.
LEMMA LeaseFrame ==
    ASSUME [Next]_vars
    PROVE  \/ UNCHANGED leases
           \/ Accept /\ AcceptSucceeds
           \/ HandleCommand /\ HandleControl
           \/ HandleCommand /\ HandleStop
           \/ \E l \in Lease : StartStream(l) \/ CompleteStream(l)
<1>1. CASE Accept
      BY <1>1 DEF Accept, AcceptFails
<1>2. CASE HandleCommand
      BY <1>2 DEF HandleCommand, HandleAcceptPending, HandleCancelUnstarted
<1>3. CASE TakeClipboardUpdate \/ Capture \/ Publish \/ TakeEvents \/ HandleEvent \/ Drained
           \/ TakeCommands \/ RefreshProgress
      BY <1>3 DEF TakeClipboardUpdate, Capture, Publish, TakeEvents, HandleEvent, Drained, TakeCommands,
                  RefreshProgress, pasteVars
<1>4. CASE FinishCancel \/ FinishStop \/ Start \/ CopyElsewhere \/ PeerPublishes \/ HoldObject \/ SendStop
      BY <1>4 DEF FinishCancel, FinishStop, Start, CopyElsewhere, PeerPublishes, HoldObject, SendStop,
                  pasteVars
<1>5. ASSUME NEW c \in Copy, Announced(c) PROVE UNCHANGED leases
      BY <1>5 DEF Announced, pasteVars
<1>6. ASSUME NEW o \in Offer, Deliver(o) PROVE UNCHANGED leases
      BY <1>6 DEF Deliver, MaySend, Acknowledge, pasteVars
<1>7. ASSUME NEW c \in Command, SendCommand(c) PROVE UNCHANGED leases
      BY <1>7 DEF SendCommand, pasteVars
<1>8. CASE UNCHANGED vars
      BY <1>8 DEF vars, pasteVars
<1>9. QED
      BY NextCases, <1>1, <1>2, <1>3, <1>4, <1>5, <1>6, <1>7, <1>8

\* What a command does to the leases.
LEMMA LeaseCommand ==
    ASSUME LeasesOK, SessionOK, NEW c \in {"Pause", "Resume", "Cancel"},
           leases' = IF session.remote # 0 /\ leases[session.remote].started # 0
                     THEN [leases EXCEPT ![session.remote] = Controlled(@, c)] ELSE leases
    PROVE  /\ LeasesOK'
           /\ \A l \in Lease : /\ leases'[l].started = leases[l].started
                               /\ leases[l].cancelled => leases'[l].cancelled
<1> DEFINE r == session.remote
<1>1. CASE r # 0 /\ leases[r].started # 0
  <2>1. r \in Lease
        BY <1>1 DEF SessionOK, SessionTypeOK
  <2>2. LeaseOK(leases[r])
        BY <2>1, EachLease
  <2>3. /\ LeaseOK(Controlled(leases[r], c))
        /\ Controlled(leases[r], c).started = leases[r].started
        /\ leases[r].cancelled => Controlled(leases[r], c).cancelled
        BY <1>1, <2>2, ControlledLease
  <2>4. leases' = [leases EXCEPT ![r] = Controlled(leases[r], c)]
        BY <1>1
  <2>5. LeasesOK'
        BY <2>1, <2>3, <2>4, LeaseChange
  <2>6. \A l \in Lease : leases'[l] = IF l = r THEN Controlled(leases[r], c) ELSE leases[l]
        BY <2>4 DEF LeasesOK
  <2>7. QED
        BY <2>3, <2>5, <2>6
<1>2. CASE ~(r # 0 /\ leases[r].started # 0)
      BY <1>2 DEF LeasesOK
<1>3. QED
      BY <1>1, <1>2

LEMMA LeasesStep ==
    CountsOK /\ QueuesOK /\ ControlOK /\ SessionOK /\ LeasesOK /\ [Next]_vars => LeasesOK'
<1> SUFFICES ASSUME CountsOK, QueuesOK, ControlOK, SessionOK, LeasesOK, [Next]_vars PROVE LeasesOK'
    OBVIOUS
<1>1. CASE UNCHANGED leases
      BY <1>1 DEF LeasesOK
<1>2. CASE Accept /\ AcceptSucceeds
  <2>1. made + 1 \in Lease
        BY <1>2, RoomForALease DEF Accept
  <2>2. work \in Offer
        BY <1>2 DEF Accept, ControlOK, SessionOK, SessionTypeOK
  <2>3. LeaseOK([FreshLease EXCEPT !.offer = work])
    <3> DEFINE g == [FreshLease EXCEPT !.offer = work]
    <3>1. FreshLease \in LeaseRecord
          BY DEF FreshLease, LeaseRecord
    <3>2. g \in LeaseRecord
          BY <2>2, <3>1 DEF LeaseRecord
    <3>3. g.started = FreshLease.started /\ g.completed = FreshLease.completed
          /\ g.paused = FreshLease.paused /\ g.cancelled = FreshLease.cancelled
          BY <2>2, <3>1 DEF LeaseRecord
    <3>4. QED
          BY <3>2, <3>3 DEF LeaseOK, FreshLease
  <2>4. QED
        BY <1>2, <2>1, <2>3, LeaseChange DEF AcceptSucceeds
<1>3. CASE HandleCommand /\ HandleControl
      BY <1>3, LeaseCommand DEF HandleControl
<1>4. CASE HandleCommand /\ HandleStop
      BY <1>4, LeaseCommand DEF HandleStop
<1>5. ASSUME NEW l \in Lease, StartStream(l) PROVE LeasesOK'
  <2>1. LeaseOK(leases[l])
        BY EachLease
  <2>2. LeaseOK([leases[l] EXCEPT !.started = leases[l].started + 1])
        BY <2>1 DEF LeaseOK, LeaseRecord
  <2>3. leases' = [leases EXCEPT ![l] = [leases[l] EXCEPT !.started = leases[l].started + 1]]
        BY <1>5 DEF StartStream
  <2>4. QED
        BY <2>2, <2>3, LeaseChange
<1>6. ASSUME NEW l \in Lease, CompleteStream(l) PROVE LeasesOK'
  <2>1. LeaseOK(leases[l]) /\ leases[l].completed < leases[l].started
        BY <1>6, EachLease DEF CompleteStream
  <2>2. LeaseOK([leases[l] EXCEPT !.completed = leases[l].completed + 1])
        BY <2>1 DEF LeaseOK, LeaseRecord
  <2>3. leases' = [leases EXCEPT ![l] = [leases[l] EXCEPT !.completed = leases[l].completed + 1]]
        BY <1>6 DEF CompleteStream
  <2>4. QED
        BY <2>2, <2>3, LeaseChange
<1>7. QED
      BY LeaseFrame, <1>1, <1>2, <1>3, <1>4, <1>5, <1>6

ViewType == [pending : BOOLEAN, manifest : Direction, subject : Copy \cup {0},
             state : View!State \cup {"None"}, generation : Nat]

\* Whatever a control did to the lease of the session, the refreshed view is a
\* legal successor of the one shown and agrees with the lease.
LEMMA RefreshKeeps ==
    ASSUME ViewOK, SessionOK, pc # "clear",
           NEW groups, groups \in [Lease -> LeaseRecord], \A l \in Lease : LeaseOK(groups[l]),
           \A l \in Lease : groups[l].started = leases[l].started
                            /\ (leases[l].cancelled => groups[l].cancelled),
           NEW v, v = Refreshed(view, session, groups)
    PROVE  /\ v \in ViewType
           /\ v = [view EXCEPT !.state = v.state]
           /\ v.state \in View!Successors(view.state)
           /\ session.direction = "Source" => v.state = "AwaitingPaste"
           /\ session.direction = "Remote" =>
                 /\ v.state # "None"
                 /\ v.state = "Cancelled" => groups[session.remote].cancelled
                 /\ v.state \in {"Running", "Paused", "Completed"} => groups[session.remote].started # 0
<1>0. view \in ViewType /\ view.state \in View!State \cup {"None"} /\ session.direction \in Direction
      BY DEF ViewOK, ViewType, SessionOK, SessionTypeOK
<1>1. CASE session.direction = "None" \/ view.state = "None"
  <2>1. v = view /\ session.direction \notin {"Source", "Remote"}
        BY <1>1 DEF Refreshed, ViewOK
  <2>2. view = [view EXCEPT !.state = view.state]
        BY <1>0 DEF ViewType
  <2>3. view.state \in View!Successors(view.state)
        BY <1>0 DEF View!Successors, View!State
  <2>4. QED
        BY <1>0, <2>1, <2>2, <2>3
<1>2. CASE session.direction = "Source" /\ view.state # "None"
  <2>1. v = [view EXCEPT !.state = "AwaitingPaste"] /\ view.state = "AwaitingPaste"
        BY <1>2 DEF Refreshed, ViewOK
  <2>2. v = view /\ v.state = "AwaitingPaste"
    <3>1. view = [view EXCEPT !.state = view.state]
          BY <1>0 DEF ViewType
    <3>2. QED
          BY <2>1, <3>1
  <2>3. QED
        BY <1>0, <1>2, <2>1, <2>2 DEF View!Successors, View!State
<1>3. CASE session.direction = "Remote" /\ view.state # "None"
  <2> DEFINE g == groups[session.remote]
  <2>1. session.remote \in Lease
        BY <1>3 DEF ViewOK, SessionOK, SessionTypeOK
  <2>2. LeaseOK(g) /\ g.started = leases[session.remote].started
        /\ (leases[session.remote].cancelled => g.cancelled)
        BY <2>1
  <2>3. v = [view EXCEPT !.state = RemoteState(g)]
        BY <1>3, <2>1 DEF Refreshed, Lease
  <2>4. /\ RemoteState(g) \in View!State
        /\ RemoteState(g) = "Cancelled" <=> g.cancelled
        /\ RemoteState(g) = "AwaitingPaste" <=> g.started = 0
        BY <2>2 DEF RemoteState, LeaseOK, LeaseRecord, View!State
  <2>5. v.state = RemoteState(g) /\ v \in ViewType
        BY <1>0, <2>3, <2>4 DEF ViewType
  <2>6. /\ view.state = "Cancelled" => g.cancelled
        /\ view.state \in {"Running", "Paused", "Completed"} => g.started # 0
        BY <1>3, <2>2 DEF ViewOK
  <2>7. v.state \in View!Successors(view.state)
        BY <1>0, <1>3, <2>4, <2>5, <2>6 DEF View!Successors, View!State
  <2>8. v = [view EXCEPT !.state = v.state]
        BY <2>3, <2>5
  <2>9. /\ v.state # "None"
        /\ v.state = "Cancelled" => g.cancelled
        /\ v.state \in {"Running", "Paused", "Completed"} => g.started # 0
        BY <2>4, <2>5 DEF View!State
  <2>10. QED
         BY <1>3, <2>5, <2>7, <2>8, <2>9
<1>4. QED
      BY <1>0, <1>1, <1>2, <1>3 DEF Direction

\* What the rest of the system does to the leases is no news to the view.
LEMMA ViewFrame ==
    ASSUME ViewOK, SessionOK, UNCHANGED <<view, session>>, pc' # "clear" => pc # "clear",
           \A l \in Lease : /\ leases[l].cancelled => leases'[l].cancelled
                            /\ leases[l].started # 0 => leases'[l].started # 0
    PROVE  ViewOK' /\ [View!Next]_view
  BY DEF ViewOK, SessionOK, SessionTypeOK

LEMMA ViewRefresh ==
    ASSUME ViewOK, SessionOK, pc # "clear", UNCHANGED session, LeasesOK',
           \A l \in Lease : leases'[l].started = leases[l].started
                            /\ (leases[l].cancelled => leases'[l].cancelled),
           view' = Refreshed(view, session, leases')
    PROVE  ViewOK' /\ [View!Next]_view
<1>1. leases' \in [Lease -> LeaseRecord] /\ \A l \in Lease : LeaseOK(leases'[l])
      BY DEF LeasesOK, LeaseOK, LeaseRecord
<1>2. /\ view' \in ViewType
      /\ view' = [view EXCEPT !.state = view'.state]
      /\ view'.state \in View!Successors(view.state)
      /\ session.direction = "Source" => view'.state = "AwaitingPaste"
      /\ session.direction = "Remote" =>
            /\ view'.state # "None"
            /\ view'.state = "Cancelled" => leases'[session.remote].cancelled
            /\ view'.state \in {"Running", "Paused", "Completed"} => leases'[session.remote].started # 0
      BY <1>1, RefreshKeeps
<1>3. ViewOK'
      BY <1>2 DEF ViewOK, ViewType
<1>4. View!Progress
      BY <1>2 DEF View!Progress
<1>5. QED
      BY <1>3, <1>4 DEF View!Next

LEMMA ViewStep ==
    CountsOK /\ QueuesOK /\ ControlOK /\ SessionOK /\ ClipOK /\ OutcomeOK /\ LeasesOK /\ ViewOK /\ [Next]_vars
        => ViewOK' /\ [View!Next]_view
<1> SUFFICES ASSUME CountsOK, QueuesOK, ControlOK, SessionOK, ClipOK, OutcomeOK, LeasesOK, ViewOK,
                    [Next]_vars
             PROVE  ViewOK' /\ [View!Next]_view
    OBVIOUS
<1>0. view \in ViewType /\ session.pending \in Offer \cup {0}
      BY DEF ViewOK, ViewType, SessionOK, SessionTypeOK
<1>1. LeasesOK'
      BY LeasesStep
<1>2. \A s \in {"Source", "Remote"}, k \in Copy, p \in BOOLEAN :
         LET v == View!Shown([view EXCEPT !.pending = p], s, k) IN
         /\ v \in ViewType /\ v.state = "AwaitingPaste"
         /\ view' = v => View!ShowTransfer
  <2> SUFFICES ASSUME NEW s \in {"Source", "Remote"}, NEW k \in Copy, NEW p \in BOOLEAN,
                      NEW v, v = View!Shown([view EXCEPT !.pending = p], s, k)
               PROVE  /\ v \in ViewType /\ v.state = "AwaitingPaste"
                      /\ view' = v => View!ShowTransfer
      OBVIOUS
  <2> DEFINE w == [view EXCEPT !.pending = p]
  <2>0. w \in ViewType /\ w.generation \in Nat
        BY <1>0 DEF ViewType
  <2>1. v \in ViewType /\ v.state = "AwaitingPaste"
    <3>1. v = [w EXCEPT !.manifest = s, !.subject = k, !.state = "AwaitingPaste",
                        !.generation = w.generation + 1]
          BY DEF View!Shown
    <3>2. /\ s \in Direction /\ k \in Copy \cup {0} /\ w.generation + 1 \in Nat
          /\ "AwaitingPaste" \in View!State \cup {"None"}
          BY <2>0 DEF View!State, Direction
    <3>3. QED
          BY <2>0, <3>1, <3>2 DEF ViewType
  <2>2. k \in 1 .. MaxInputs
        BY DEF Copy
  <2>3. QED
        BY <2>1, <2>2 DEF View!ShowTransfer
<1>3. CASE Publish
  <2>1. pc = "publish" /\ work \in Copy /\ UNCHANGED leases /\ pc' = "loop"
        BY <1>3, ProductAssumption
           DEF Publish, OutcomeOK, CountsOK, Copy, ProductAssumption, pasteVars
  <2>2. CASE PublishFails
        BY <2>1, <2>2, ViewFrame DEF PublishFails
  <2>3. CASE PublishSucceeds
    <3>1. view = [view EXCEPT !.pending = view.pending] /\ view.pending \in BOOLEAN
          BY <1>0 DEF ViewType
    <3>2. view' = View!Shown([view EXCEPT !.pending = view.pending], "Source", work)
          BY <2>3, <3>1 DEF PublishSucceeds
    <3>3. view' \in ViewType /\ view'.state = "AwaitingPaste" /\ View!ShowTransfer
          BY <1>2, <2>1, <3>1, <3>2
    <3>4. session'.direction = "Source"
          BY <2>3 DEF PublishSucceeds, SessionOK, SessionTypeOK
    <3>5. QED
          BY <3>3, <3>4 DEF ViewOK, ViewType, View!Next
  <2>4. QED
        BY <1>3, <2>2, <2>3 DEF Publish
<1>4. CASE HandleEvent
  <2>1. /\ session'.direction = session.direction /\ session'.remote = session.remote
        /\ view' = [view EXCEPT !.pending = TRUE] /\ UNCHANGED leases /\ pc # "clear"
        BY <1>4 DEF HandleEvent, SessionOK, SessionTypeOK, pasteVars
  <2>2. view' \in ViewType /\ view'.state = view.state
        BY <1>0, <2>1 DEF ViewType
  <2>3. View!SetPending
        BY <2>1 DEF View!SetPending
  <2>4. QED
        BY <2>1, <2>2, <2>3 DEF ViewOK, ViewType, View!Next
<1>5. CASE Accept /\ AcceptFails
  <2>1. pc = "fetch" /\ UNCHANGED <<session, leases>>
        BY <1>5 DEF Accept, AcceptFails
  <2>2. CASE back = "commands"
        BY <1>1, <1>5, <2>1, <2>2, ViewRefresh DEF AcceptFails, ViewAfter
  <2>3. CASE back # "commands"
        BY <1>5, <2>1, <2>3, ViewFrame DEF AcceptFails, ViewAfter
  <2>4. QED
        BY <2>2, <2>3
<1>6. CASE Accept /\ AcceptSucceeds
  <2> DEFINE v == View!Shown([view EXCEPT !.pending = FALSE], "Remote", made + 1)
  <2>1. made + 1 \in Lease /\ made + 1 \in Copy /\ made + 1 # 0
        BY <1>6, RoomForALease DEF Accept, Lease, Copy
  <2>2. v \in ViewType /\ v.state = "AwaitingPaste" /\ (view' = v => View!ShowTransfer)
        BY <1>2, <2>1
  <2>3. session'.direction = "Remote" /\ session'.remote = made + 1
        BY <1>6 DEF AcceptSucceeds, SessionOK, SessionTypeOK
  <2>4. leases'[made + 1].started = 0 /\ leases'[made + 1].completed = 0
        /\ ~leases'[made + 1].paused /\ ~leases'[made + 1].cancelled
        BY <1>6, <2>1 DEF AcceptSucceeds, LeasesOK, FreshLease
  <2>5. RemoteState(leases'[made + 1]) = "AwaitingPaste"
        BY <2>4 DEF RemoteState
  <2>6. Refreshed(v, session', leases') = [v EXCEPT !.state = v.state]
        BY <2>1, <2>2, <2>3, <2>5 DEF Refreshed
  <2>7. [v EXCEPT !.state = v.state] = v
        BY <2>2 DEF ViewType
  <2>8. view' = v
        BY <1>6, <2>6, <2>7 DEF AcceptSucceeds, ViewAfter
  <2>9. QED
        BY <2>1, <2>2, <2>3, <2>8 DEF ViewOK, ViewType, View!Next
<1>7. CASE HandleCommand
  <2>1. pc = "commands"
        BY <1>7 DEF HandleCommand
  <2>2. CASE HandleAcceptPending
    <3>1. CASE session.pending = 0
          BY <1>1, <2>1, <2>2, <3>1, ViewRefresh DEF HandleAcceptPending
    <3>2. CASE session.pending # 0
          BY <2>1, <2>2, <3>2, ViewFrame DEF HandleAcceptPending
    <3>3. QED
          BY <3>1, <3>2
  <2>3. CASE HandleControl
    <3>1. \A l \in Lease : leases'[l].started = leases[l].started
                           /\ (leases[l].cancelled => leases'[l].cancelled)
          BY <2>3, LeaseCommand DEF HandleControl
    <3>2. QED
          BY <1>1, <2>1, <2>3, <3>1, ViewRefresh DEF HandleControl
  <2>4. ASSUME DropRemote, UNCHANGED view PROVE ViewOK' /\ [View!Next]_view
    <3>1. session'.direction = session.direction /\ pc' = "clear"
          BY <2>4 DEF DropRemote, SessionOK, SessionTypeOK
    <3>2. QED
          BY <2>4, <3>1 DEF ViewOK
  <2>5. QED
        BY <1>7, <2>2, <2>3, <2>4 DEF HandleCommand, HandleCancelUnstarted, HandleStop
<1>8. CASE FinishCancel
  <2>1. session'.direction = "None"
        BY <1>8 DEF FinishCancel, SessionOK, SessionTypeOK
  <2>2. CASE view.state = "None"
        BY <1>8, <2>1, <2>2 DEF FinishCancel, ViewOK
  <2>3. CASE view.state # "None"
    <3>1. view' = [view EXCEPT !.state = "Cancelled"] /\ view.state \in View!State
          BY <1>0, <1>8, <2>3 DEF FinishCancel, ViewType
    <3>2. view' \in ViewType
          BY <1>0, <3>1 DEF ViewType, View!State
    <3>3. View!Progress
          BY <3>1 DEF View!Progress, View!Successors, View!State
    <3>4. QED
          BY <2>1, <3>2, <3>3 DEF ViewOK, ViewType, View!Next
  <2>4. QED
        BY <2>2, <2>3
<1>9. CASE FinishStop
      BY <1>9 DEF FinishStop, FreshSession, ViewOK
<1>10. CASE Start
  <2>1. session'.direction = "None" /\ view' = View!FreshView
        BY <1>10 DEF Start, FreshSession
  <2>2. view' \in ViewType
        BY <2>1 DEF View!FreshView, ViewType, View!State, Direction
  <2>3. View!Restart
        BY <2>1 DEF View!Restart
  <2>4. QED
        BY <2>1, <2>2, <2>3 DEF ViewOK, ViewType, View!Next
<1>11. CASE RefreshProgress
       BY <1>1, <1>11, ViewRefresh DEF RefreshProgress, pasteVars
<1>12. ASSUME UNCHANGED <<view, session, leases>>, pc' # "clear" => pc # "clear"
       PROVE  ViewOK' /\ [View!Next]_view
       BY <1>12, ViewFrame
<1>13. CASE TakeClipboardUpdate \/ Capture \/ TakeEvents \/ Drained \/ TakeCommands
       BY <1>12, <1>13 DEF TakeClipboardUpdate, Capture, TakeEvents, Drained, TakeCommands, pasteVars
<1>14. CASE CopyElsewhere \/ PeerPublishes \/ HoldObject \/ SendStop
       BY <1>12, <1>14 DEF CopyElsewhere, PeerPublishes, HoldObject, SendStop, workerVars, pasteVars
<1>15. ASSUME NEW c \in Copy, Announced(c) PROVE ViewOK' /\ [View!Next]_view
       BY <1>12, <1>15 DEF Announced, workerVars, pasteVars
<1>16. ASSUME NEW o \in Offer, Deliver(o) PROVE ViewOK' /\ [View!Next]_view
       BY <1>12, <1>16 DEF Deliver, MaySend, Acknowledge, workerVars, pasteVars
<1>17. ASSUME NEW c \in Command, SendCommand(c) PROVE ViewOK' /\ [View!Next]_view
       BY <1>12, <1>17 DEF SendCommand, workerVars, pasteVars
<1>18. ASSUME NEW l \in Lease, StartStream(l) \/ CompleteStream(l) PROVE ViewOK' /\ [View!Next]_view
  <2>1. UNCHANGED <<view, session, pc>>
        BY <1>18 DEF StartStream, CompleteStream, workerVars
  <2>2. \A k \in Lease : /\ leases[k].cancelled => leases'[k].cancelled
                         /\ leases[k].started # 0 => leases'[k].started # 0
        BY <1>18 DEF StartStream, CompleteStream, LeasesOK
  <2>3. QED
        BY <2>1, <2>2, ViewFrame
<1>19. CASE UNCHANGED vars
       BY <1>12, <1>19 DEF vars, workerVars, pasteVars
<1>20. QED
       BY NextCases, <1>3, <1>4, <1>5, <1>6, <1>7, <1>8, <1>9, <1>10, <1>11, <1>13, <1>14, <1>15, <1>16,
          <1>17, <1>18, <1>19 DEF Accept

-----------------------------------------------------------------------------
(* The theorems. *)

LEMMA InvStep == Inv /\ [Next]_vars => Inv'
  BY CountsStep, QueuesStep, ControlStep, SessionStep, ClipStep, OutcomeStep, OnceStep, SeenStep,
     LeasesStep, ViewStep, LeasedStep DEF Inv

LEMMA InvHolds == Spec => []Inv
  BY Initially, InvStep, PTL DEF Spec

\* The state has its types: as many servers as MAX_LIVE_SOURCE_OFFERS are kept at
\* most, and no lease is made without an announcement of its own.
THEOREM SessionIsBounded == Spec => []TypeOK
<1>1. Inv => TypeOK
  <2> SUFFICES ASSUME Inv PROVE TypeOK
      OBVIOUS
  <2>1. made \in 0 .. deliveries
    <3>1. Len(events) \in Nat
          BY LenProperties DEF Inv, QueuesOK
    <3>2. QED
          BY <3>1 DEF Inv, CountsOK, Waiting
  <2>2. pc \in {"loop", "claimed", "publish", "events", "fetch", "commands", "clear", "stopped"}
        BY DEF Inv, ControlOK, Steps
  <2>3. view.state \in View!State \cup {"None"}
        BY DEF Inv, ViewOK
  <2>4. QED
        BY <2>1, <2>2, <2>3 DEF Inv, TypeOK, QueuesOK, ClipOK, SessionOK
<1>2. QED
      BY <1>1, InvHolds, PTL

\* An object on the clipboard belongs to the lease the worker holds or clears.
THEOREM ObjectsAreLeased == Spec => []OfferedObjectIsLeased
<1>1. Inv => OfferedObjectIsLeased
      BY DEF Inv
<1>2. QED
      BY <1>1, InvHolds, PTL

\* No copy is published twice.
THEOREM CopiesArePublishedOnce == Spec => []EachCopyIsPublishedOnce
<1>1. Inv => EachCopyIsPublishedOnce
      BY DEF Inv, OnceOK
<1>2. QED
      BY <1>1, InvHolds, PTL

\* A worker with no notification left has published the copy on the clipboard or
\* reported an error about it.
THEOREM CopiesAreNotLost == Spec => []NoCopyIsSilentlyLost
<1>1. Inv => NoCopyIsSilentlyLost
      BY DEF Inv, SeenOK, NoCopyIsSilentlyLost, Running
<1>2. QED
      BY <1>1, InvHolds, PTL

\* A step that takes an offer off the pending place puts it on the clipboard,
\* replaces it by a newer one or ends the worker.
LEMMA PendingStep ==
    ASSUME Inv, [Next]_vars, session.pending # 0, session'.pending # session.pending
    PROVE  \/ session'.pending # 0
           \/ session'.remote # session.remote /\ leases'[session'.remote].offer = session.pending
           \/ pc' = "stopped"
<1>0. CountsOK /\ QueuesOK /\ ControlOK /\ SessionOK /\ LeasesOK
      BY DEF Inv
<1>1. CASE HandleEvent
  <2>1. Head(events) \in Offer
        BY <1>0, <1>1, HeadTailProperties DEF HandleEvent, QueuesOK
  <2>2. session'.pending = Head(events)
        BY <1>0, <1>1 DEF HandleEvent, SessionOK, SessionTypeOK
  <2>3. QED
        BY <2>1, <2>2 DEF Offer
<1>2. CASE Accept
  <2>1. CASE AcceptSucceeds
    <3>1. made + 1 \in Lease /\ made \in Nat /\ work = session.pending
          BY <1>0, <1>2, RoomForALease DEF Accept, CountsOK, ControlOK
    <3>2. session'.remote = made + 1 /\ session.remote <= made /\ session.remote \in Lease \cup {0}
          BY <1>0, <2>1 DEF AcceptSucceeds, SessionOK, SessionTypeOK
    <3>3. leases'[made + 1].offer = work
          BY <1>0, <2>1, <3>1 DEF AcceptSucceeds, LeasesOK, FreshLease
    <3>4. session'.remote # session.remote
          BY <3>1, <3>2
    <3>5. QED
          BY <3>1, <3>2, <3>3, <3>4
  <2>2. QED
        BY <1>2, <2>1 DEF Accept, AcceptFails
<1>3. CASE FinishStop
      BY <1>3 DEF FinishStop
<1>4. CASE Start
      BY <1>0, <1>4 DEF Start, Running, ControlOK
<1>5. CASE Publish \/ FinishCancel \/ HandleCommand
  <2>1. session'.pending = session.pending
        BY <1>0, <1>5 DEF Publish, PublishFails, PublishSucceeds, FinishCancel, HandleCommand,
                    HandleAcceptPending, HandleControl, HandleCancelUnstarted, HandleStop, DropRemote,
                    SessionOK, SessionTypeOK
  <2>2. QED
        BY <2>1
<1>6. CASE TakeClipboardUpdate \/ Capture \/ TakeEvents \/ Drained \/ TakeCommands \/ RefreshProgress
      BY <1>6 DEF TakeClipboardUpdate, Capture, TakeEvents, Drained, TakeCommands, RefreshProgress
<1>7. CASE CopyElsewhere \/ PeerPublishes \/ HoldObject \/ SendStop
      BY <1>7 DEF CopyElsewhere, PeerPublishes, HoldObject, SendStop, workerVars
<1>8. ASSUME NEW c \in Copy, Announced(c) PROVE UNCHANGED session
      BY <1>8 DEF Announced, workerVars
<1>9. ASSUME NEW o \in Offer, Deliver(o) PROVE UNCHANGED session
      BY <1>9 DEF Deliver, MaySend, Acknowledge, workerVars
<1>10. ASSUME NEW l \in Lease, StartStream(l) \/ CompleteStream(l) PROVE UNCHANGED session
       BY <1>10 DEF StartStream, CompleteStream, workerVars
<1>11. ASSUME NEW c \in Command, SendCommand(c) PROVE UNCHANGED session
       BY <1>11 DEF SendCommand, workerVars
<1>12. CASE UNCHANGED vars
       BY <1>12 DEF vars, workerVars
<1>13. QED
       BY NextCases, <1>1, <1>2, <1>3, <1>4, <1>5, <1>6, <1>7, <1>8, <1>9, <1>10, <1>11, <1>12

\* A pending offer stays pending until it is on the clipboard, a newer one takes
\* its place or the worker stops.
THEOREM PendingIsKept == Spec => PendingIsNotLost
<1>1. Inv /\ [Next]_vars =>
        [session.pending # 0 /\ session'.pending # session.pending =>
            \/ session'.pending # 0
            \/ session'.remote # session.remote /\ leases'[session'.remote].offer = session.pending
            \/ pc' = "stopped"]_vars
      BY PendingStep
<1>2. QED
      BY <1>1, InvHolds, PTL DEF Spec, PendingIsNotLost

\* What the tray reads is a behaviour of TransferView: within a generation the
\* state follows its life cycle, and a cancelled transfer stays cancelled.
THEOREM ViewIsImplemented == Spec => ImplementsView
<1>1. Init => View!Init
      BY DEF Init, View!Init
<1>2. Inv /\ [Next]_vars => [View!Next]_view
      BY ViewStep DEF Inv
<1>3. QED
      BY <1>1, <1>2, InvHolds, PTL DEF Spec, ImplementsView, View!Spec

-----------------------------------------------------------------------------
(* The offers being announced. *)

Increasing(sources) == \A i, j \in 1 .. Len(sources) : i < j => sources[i] < sources[j]

Published == {d \in Copy : outcome[d].published > 0}

\* The copy on the clipboard is the newest the worker knows of, and the one about
\* to be published is newer than every copy that was.
NewestOK ==
    /\ clip.kind = "files" => \A d \in Published : d <= clip.id
    /\ pc = "publish" => /\ \A d \in Published : d < work
                         /\ clip.kind = "files" => work <= clip.id

\* The live servers are those of published copies, the oldest first.
SourcesOK ==
    /\ \A i \in 1 .. Len(session.sources) : session.sources[i] \in Published
    /\ Increasing(session.sources)

Newer(c) == {d \in Published : d > c}

Served(c) == \E i \in 1 .. Len(session.sources) : session.sources[i] = c

AnnouncersOK ==
    /\ announcers \subseteq Copy
    /\ pc = "stopped" => announcers = {}
    /\ \A c \in announcers : Served(c) \/ Cardinality(Newer(c)) >= MaxLiveSourceOffers

AnnouncingOK == NewestOK /\ SourcesOK /\ AnnouncersOK

\* The steps that are not about a publication.
LEMMA AnnouncingFrame ==
    ASSUME SessionOK, ControlOK, [Next]_vars
    PROVE  \/ UNCHANGED <<clip, outcome, announcers, session, pc, work>>
           \/ /\ UNCHANGED <<clip, outcome, announcers>> /\ session'.sources = session.sources
              /\ pc \in {"loop", "events", "commands"}
              /\ pc' \in {"loop", "claimed", "events", "fetch", "commands", "clear"}
           \/ CopyElsewhere \/ Capture \/ Publish \/ Accept \/ FinishCancel \/ FinishStop \/ Start
           \/ \E c \in Copy : Announced(c)
<1>1. CASE TakeClipboardUpdate \/ TakeEvents \/ TakeCommands \/ Drained
      BY <1>1 DEF TakeClipboardUpdate, TakeEvents, TakeCommands, Drained, clipVars
<1>2. CASE HandleEvent
      BY <1>2 DEF HandleEvent, clipVars, SessionOK, SessionTypeOK
<1>3. CASE HandleCommand
  <2>1. UNCHANGED <<clip, outcome, announcers>> /\ pc = "commands"
        BY <1>3 DEF HandleCommand, clipVars
  <2>2. pc' \in {"commands", "fetch", "clear"} /\ session'.sources = session.sources
        BY <1>3 DEF HandleCommand, HandleAcceptPending, HandleControl, HandleCancelUnstarted, HandleStop,
                    DropRemote, SessionOK, SessionTypeOK
  <2>3. QED
        BY <2>1, <2>2
<1>4. CASE RefreshProgress \/ PeerPublishes \/ HoldObject \/ SendStop
      BY <1>4 DEF RefreshProgress, PeerPublishes, HoldObject, SendStop, clipVars, workerVars
<1>5. ASSUME NEW o \in Offer, Deliver(o) PROVE UNCHANGED <<clip, outcome, announcers, session, pc, work>>
      BY <1>5 DEF Deliver, MaySend, Acknowledge, clipVars, workerVars
<1>6. ASSUME NEW l \in Lease, StartStream(l) \/ CompleteStream(l)
      PROVE  UNCHANGED <<clip, outcome, announcers, session, pc, work>>
      BY <1>6 DEF StartStream, CompleteStream, clipVars, workerVars
<1>7. ASSUME NEW c \in Command, SendCommand(c)
      PROVE  UNCHANGED <<clip, outcome, announcers, session, pc, work>>
      BY <1>7 DEF SendCommand, clipVars, workerVars
<1>8. CASE UNCHANGED vars
      BY <1>8 DEF vars, clipVars, workerVars
<1>9. QED
      BY NextCases, <1>1, <1>2, <1>3, <1>4, <1>5, <1>6, <1>7, <1>8

\* Where nothing is captured or published and the servers stay, all stays.
LEMMA AnnouncingKept ==
    ASSUME AnnouncingOK, UNCHANGED outcome, announcers' \subseteq announcers,
           session'.sources = session.sources, pc' # "publish", pc' # "stopped",
           clip' = clip \/ clip'.kind # "files"
    PROVE  AnnouncingOK'
  BY DEF AnnouncingOK, NewestOK, SourcesOK, AnnouncersOK, Served, Newer, Published, Increasing

\* Published copies stay published.
LEMMA PublishGrows ==
    ASSUME CountsOK, OutcomeOK, Publish
    PROVE  /\ work \in Copy
           /\ Published \ {work} = Published' \ {work}
           /\ Published \subseteq Published'
           /\ PublishFails => Published' = Published
           /\ PublishSucceeds => work \in Published'
<1>1. work \in Copy
      BY ProductAssumption DEF Publish, OutcomeOK, CountsOK, Copy, ProductAssumption
<1>2. outcome' \in {[outcome EXCEPT ![work].reported = TRUE], [outcome EXCEPT ![work].published = @ + 1]}
      BY DEF Publish, PublishFails, PublishSucceeds
<1>3. PublishSucceeds => outcome'[work].published = outcome[work].published + 1
      BY <1>1 DEF PublishSucceeds, OutcomeOK
<1>4. PublishFails => outcome'[work].published = outcome[work].published
      BY <1>1 DEF PublishFails, OutcomeOK
<1>5. outcome'[work].published \in {outcome[work].published, outcome[work].published + 1}
      BY <1>3, <1>4 DEF Publish
<1>6. \A d \in Copy : outcome[d].published \in Nat
      BY DEF OutcomeOK
<1>7. \A d \in Copy \ {work} : outcome'[d] = outcome[d]
      BY <1>2 DEF OutcomeOK
<1>8. QED
      BY <1>1, <1>3, <1>4, <1>5, <1>6, <1>7 DEF Published

LEMMA NewestStep ==
    CountsOK /\ ControlOK /\ SessionOK /\ ClipOK /\ OutcomeOK /\ OnceOK /\ NewestOK /\ [Next]_vars => NewestOK'
<1> SUFFICES ASSUME CountsOK, ControlOK, SessionOK, ClipOK, OutcomeOK, OnceOK, NewestOK, [Next]_vars
             PROVE  NewestOK'
    OBVIOUS
<1>0. copies \in Nat /\ \A c \in 1 .. copies : c \in Copy
      BY ProductAssumption DEF CountsOK, Copy, ProductAssumption
<1>1. ASSUME UNCHANGED outcome, pc' # "publish", clip' = clip \/ clip'.kind # "files"
      PROVE  NewestOK'
      BY <1>1 DEF NewestOK, Published
<1>2. CASE CopyElsewhere
  <2>1. UNCHANGED <<outcome, pc, work>> /\ (clip'.kind = "files" => clip'.id = copies + 1)
        BY <1>2 DEF CopyElsewhere, WriteClipboard, workerVars
  <2>2. \A d \in Published : d <= copies + 1
        BY <1>0 DEF OutcomeOK, Published, Copy
  <2>3. pc = "publish" => work <= copies + 1
        BY <1>0 DEF OutcomeOK
  <2>4. Published' = Published
        BY <2>1 DEF Published
  <2>5. QED
        BY <2>1, <2>2, <2>3, <2>4 DEF NewestOK
<1>3. CASE Capture
  <2>1. CASE CaptureCandidates
    <3>1. /\ pc = "claimed" /\ clip.kind = "files" /\ clip.id \in 1 .. copies
          /\ UNCHANGED <<clip, outcome>> /\ work' = clip.id
          BY <1>3, <2>1 DEF Capture, CaptureCandidates, ClipOK
    <3>2. outcome[clip.id].published = 0
          BY <3>1 DEF OnceOK
    <3>3. ASSUME NEW d \in Published PROVE d < clip.id
      <4>1. d <= clip.id
            BY <3>1, <3>3 DEF NewestOK
      <4>2. d \in Nat /\ clip.id \in Nat /\ d # clip.id
            BY <1>0, <3>1, <3>2, <3>3 DEF Published, Copy
      <4>3. QED
            BY <4>1, <4>2
    <3>4. clip.id <= clip.id
          BY <3>1
    <3>5. QED
          BY <3>1, <3>3, <3>4 DEF NewestOK, Published
  <2>2. CASE CaptureNothing
        BY <1>1, <1>3, <2>2 DEF Capture, CaptureNothing
  <2>3. CASE CaptureFails
    <3>1. \A c \in Copy : outcome'[c].published = outcome[c].published
          BY <1>0, <2>3 DEF CaptureFails, OutcomeOK, ClipOK
    <3>2. pc' = "loop" /\ UNCHANGED clip
          BY <1>3, <2>3 DEF Capture, CaptureFails
    <3>3. QED
          BY <3>1, <3>2 DEF NewestOK, Published
  <2>4. QED
        BY <1>3, <2>1, <2>2, <2>3 DEF Capture
<1>4. CASE Publish
  <2>1. pc = "publish" /\ pc' = "loop" /\ UNCHANGED clip
        BY <1>4 DEF Publish, clipVars
  <2>2. Published \ {work} = Published' \ {work}
        BY <1>4, PublishGrows
  <2>3. ASSUME NEW d \in Published', clip.kind = "files" PROVE d <= clip.id
    <3>1. CASE d = work
          BY <2>1, <2>3, <3>1 DEF NewestOK
    <3>2. CASE d # work
          BY <2>2, <2>3, <3>2 DEF NewestOK
    <3>3. QED
          BY <3>1, <3>2
  <2>4. QED
        BY <2>1, <2>3 DEF NewestOK
<1>5. CASE Accept
  <2>1. UNCHANGED outcome /\ pc' # "publish"
        BY <1>5 DEF Accept, ControlOK
  <2>2. clip' = clip \/ clip'.kind # "files"
        BY <1>5 DEF Accept, AcceptFails, AcceptSucceeds, WriteClipboard, clipVars
  <2>3. QED
        BY <1>1, <2>1, <2>2
<1>6. CASE FinishCancel
      BY <1>1, <1>6 DEF FinishCancel, ClearClipboard, WriteClipboard, EmptyClip, clipVars
<1>7. CASE FinishStop
      BY <1>1, <1>7 DEF FinishStop, EmptyClip
<1>8. CASE Start
      BY <1>1, <1>8 DEF Start, clipVars
<1>9. ASSUME NEW c \in Copy, Announced(c) PROVE NewestOK'
      BY <1>9 DEF Announced, clipVars, workerVars, NewestOK, Published
<1>10. CASE UNCHANGED <<clip, outcome, pc, work>>
       BY <1>10 DEF NewestOK, Published
<1>11. QED
       BY AnnouncingFrame, <1>1, <1>2, <1>3, <1>4, <1>5, <1>6, <1>7, <1>8, <1>9, <1>10

\* A published copy is put last; the others keep their order, and one that is
\* missing is older than all of a full list.
PutLast(sources, c, pushed) ==
    /\ Len(pushed) \in 1 .. MaxLiveSourceOffers
    /\ pushed[Len(pushed)] = c
    /\ Increasing(pushed)
    /\ \A i \in 1 .. Len(pushed) - 1 : \E j \in 1 .. Len(sources) : pushed[i] = sources[j]
    /\ \A j \in 1 .. Len(sources) :
          \/ \E i \in 1 .. Len(pushed) : pushed[i] = sources[j]
          \/ /\ Len(pushed) = MaxLiveSourceOffers
             /\ \A i \in 1 .. Len(pushed) : sources[j] < pushed[i]

LEMMA PushOrder ==
    ASSUME NEW sources \in Seq(Copy), NEW c \in Copy, Len(sources) <= MaxLiveSourceOffers,
           Increasing(sources), \A i \in 1 .. Len(sources) : sources[i] < c,
           NEW pushed \in Seq(Copy), pushed = PushSource(sources, c)
    PROVE  PutLast(sources, c, pushed)
<1>1. /\ Len(sources) \in Nat /\ MaxLiveSourceOffers \in Nat \ {0}
      /\ \A i \in 1 .. Len(sources) : sources[i] \in Nat
      BY ProductAssumption, LenProperties, ElementOfSeq DEF ProductAssumption, Copy
<1>2. CASE Len(sources) = MaxLiveSourceOffers
  <2>1. sources # <<>> /\ pushed = Append(Tail(sources), c)
        BY <1>1, <1>2 DEF PushSource
  <2>2. /\ Tail(sources) \in Seq(Copy) /\ Len(Tail(sources)) = Len(sources) - 1
        /\ \A i \in 1 .. Len(sources) - 1 : Tail(sources)[i] = sources[i + 1]
        BY <2>1, HeadTailProperties
  <2>3. /\ Len(pushed) = Len(sources) /\ pushed[Len(sources)] = c
        /\ \A i \in 1 .. Len(sources) - 1 : pushed[i] = sources[i + 1]
    <3>1. /\ Len(pushed) = Len(Tail(sources)) + 1 /\ pushed[Len(Tail(sources)) + 1] = c
          /\ \A i \in 1 .. Len(Tail(sources)) : pushed[i] = Tail(sources)[i]
          BY <2>1, <2>2, AppendProperties
    <3>2. Len(Tail(sources)) + 1 = Len(sources)
          BY <1>1, <2>2
    <3>3. QED
          BY <2>2, <3>1, <3>2
  <2>4. Increasing(pushed)
    <3> SUFFICES ASSUME NEW i \in 1 .. Len(pushed), NEW j \in 1 .. Len(pushed), i < j
                 PROVE  pushed[i] < pushed[j]
        BY DEF Increasing
    <3>1. i + 1 \in 1 .. Len(sources) /\ pushed[i] = sources[i + 1]
          BY <1>1, <2>3
    <3>2. CASE j = Len(sources)
          BY <2>3, <3>1, <3>2
    <3>3. CASE j # Len(sources)
      <4>1. j + 1 \in 1 .. Len(sources) /\ pushed[j] = sources[j + 1] /\ i + 1 < j + 1
            BY <1>1, <2>3, <3>3
      <4>2. QED
            BY <3>1, <4>1 DEF Increasing
    <3>4. QED
          BY <3>2, <3>3
  <2>5. \A i \in 1 .. Len(pushed) - 1 : i + 1 \in 1 .. Len(sources) /\ pushed[i] = sources[i + 1]
        BY <1>1, <2>3
  <2>6. ASSUME NEW j \in 1 .. Len(sources), j # 1
        PROVE  j - 1 \in 1 .. Len(pushed) /\ pushed[j - 1] = sources[j]
        BY <1>1, <2>3, <2>6
  <2>7. ASSUME NEW i \in 1 .. Len(pushed) PROVE sources[1] < pushed[i]
    <3>1. CASE i = Len(sources)
          BY <1>1, <2>3, <3>1
    <3>2. CASE i # Len(sources)
      <4>1. i + 1 \in 1 .. Len(sources) /\ pushed[i] = sources[i + 1] /\ 1 < i + 1 /\ 1 \in 1 .. Len(sources)
            BY <1>1, <2>3, <2>7, <3>2
      <4>2. QED
            BY <4>1 DEF Increasing
    <3>3. QED
          BY <3>1, <3>2
  <2>8. Len(pushed) \in 1 .. MaxLiveSourceOffers /\ pushed[Len(pushed)] = c /\ Len(pushed) = MaxLiveSourceOffers
        BY <1>1, <1>2, <2>3
  <2>9. QED
        BY <2>4, <2>5, <2>6, <2>7, <2>8 DEF PutLast
<1>3. CASE Len(sources) # MaxLiveSourceOffers
  <2>1. pushed = Append(sources, c)
        BY <1>3 DEF PushSource
  <2>2. /\ Len(pushed) = Len(sources) + 1 /\ pushed[Len(sources) + 1] = c
        /\ \A i \in 1 .. Len(sources) : pushed[i] = sources[i]
        BY <1>1, <2>1, AppendProperties
  <2>3. Increasing(pushed)
        BY <1>1, <2>2 DEF Increasing
  <2>4. Len(pushed) \in 1 .. MaxLiveSourceOffers /\ pushed[Len(pushed)] = c
        BY <1>1, <1>3, <2>2
  <2>5. \A i \in 1 .. Len(pushed) - 1 : i \in 1 .. Len(sources) /\ pushed[i] = sources[i]
        BY <1>1, <2>2
  <2>6. \A j \in 1 .. Len(sources) : j \in 1 .. Len(pushed) /\ pushed[j] = sources[j]
        BY <1>1, <2>2
  <2>7. QED
        BY <2>3, <2>4, <2>5, <2>6 DEF PutLast
<1>4. QED
      BY <1>2, <1>3

LEMMA CopiesAreFinite == IsFiniteSet(Copy)
<1>1. 1 \in Int /\ MaxInputs \in Int
      BY ProductAssumption DEF ProductAssumption
<1>2. QED
      BY <1>1, FS_Interval DEF Copy

\* A set that holds an increasing list of copies has as many as the list is long.
LEMMA NewerCount ==
    ASSUME NEW sources \in Seq(Copy), Increasing(sources), NEW T \in SUBSET Copy,
           \A i \in 1 .. Len(sources) : sources[i] \in T
    PROVE  Cardinality(T) >= Len(sources)
<1>1. Len(sources) \in Nat /\ sources \in [1 .. Len(sources) -> Copy] /\ DOMAIN sources = 1 .. Len(sources)
      BY LenProperties
<1>2. sources \in [1 .. Len(sources) -> T]
      BY <1>1
<1>3. ASSUME NEW i \in 1 .. Len(sources), NEW j \in 1 .. Len(sources), sources[i] = sources[j] PROVE i = j
  <2>1. sources[i] \in Nat /\ i \in Nat /\ j \in Nat
        BY <1>1 DEF Copy
  <2>2. ~(i < j) /\ ~(j < i)
        BY <1>3, <2>1 DEF Increasing
  <2>3. QED
        BY <2>1, <2>2
<1>4. sources \in Injection(1 .. Len(sources), T)
      BY <1>1, <1>2, <1>3 DEF Injection, IsInjective
<1>5. IsFiniteSet(T)
      BY CopiesAreFinite, FS_Subset
<1>6. Cardinality(1 .. Len(sources)) <= Cardinality(T)
      BY <1>4, <1>5, FS_Injection
<1>7. Cardinality(1 .. Len(sources)) = Len(sources) /\ Cardinality(T) \in Nat
  <2>1. 1 \in Int /\ Len(sources) \in Int
        BY <1>1
  <2>2. Cardinality(1 .. Len(sources)) = IF 1 > Len(sources) THEN 0 ELSE Len(sources) - 1 + 1
        BY <2>1, FS_Interval
  <2>3. Cardinality(T) \in Nat
        BY <1>5, FS_CardinalityType
  <2>4. QED
        BY <1>1, <2>2, <2>3
<1>8. QED
      BY <1>1, <1>6, <1>7

\* The newer copies do not become fewer.
LEMMA NewerGrows ==
    ASSUME NEW c \in Copy, Published \subseteq Published',
           Cardinality(Newer(c)) >= MaxLiveSourceOffers
    PROVE  Cardinality(Newer(c)') >= MaxLiveSourceOffers
<1>1. IsFiniteSet(Copy) /\ MaxLiveSourceOffers \in Nat
      BY CopiesAreFinite, ProductAssumption DEF ProductAssumption
<1>2. Newer(c) \subseteq Newer(c)' /\ Newer(c)' \subseteq Copy
      BY DEF Newer, Published
<1>3. IsFiniteSet(Newer(c)') /\ IsFiniteSet(Newer(c))
      BY <1>1, <1>2, FS_Subset
<1>4. Cardinality(Newer(c)) <= Cardinality(Newer(c)')
      BY <1>2, <1>3, FS_Subset
<1>5. Cardinality(Newer(c)) \in Nat /\ Cardinality(Newer(c)') \in Nat
      BY <1>3, FS_CardinalityType
<1>6. QED
      BY <1>1, <1>4, <1>5

LEMMA AnnouncingPublished ==
    ASSUME CountsOK, SessionOK, OutcomeOK, AnnouncingOK, Publish
    PROVE  SourcesOK' /\ AnnouncersOK'
<1>1. /\ work \in Copy /\ pc = "publish" /\ pc' = "loop"
      /\ Published \subseteq Published'
      BY PublishGrows DEF Publish
<1>2. /\ session.sources \in Seq(Copy) /\ Len(session.sources) <= MaxLiveSourceOffers
      /\ \A i \in 1 .. Len(session.sources) : session.sources[i] \in Copy
      BY ElementOfSeq DEF SessionOK, SessionTypeOK
<1>3. CASE PublishFails
  <2>1. UNCHANGED <<session, announcers>>
        BY <1>3 DEF PublishFails
  <2>2. SourcesOK'
        BY <1>1, <1>2, <2>1 DEF AnnouncingOK, SourcesOK
  <2>3. \A c \in announcers : Served(c)' = Served(c)
        BY <2>1 DEF Served
  <2>4. AnnouncersOK'
        BY <1>1, <2>1, <2>3, NewerGrows DEF AnnouncingOK, AnnouncersOK
  <2>5. QED
        BY <2>2, <2>4
<1>4. CASE PublishSucceeds
  <2> DEFINE old == session.sources
             new == session'.sources
  <2>1. new = PushSource(old, work) /\ announcers' \subseteq announcers \cup {work} /\ work \in Published'
        BY <1>4, PublishGrows DEF PublishSucceeds, SessionOK, SessionTypeOK
  <2>2. \A i \in 1 .. Len(old) : old[i] < work /\ old[i] \in Published'
        BY <1>1, <1>2 DEF AnnouncingOK, NewestOK, SourcesOK
  <2>4. new \in Seq(Copy)
        BY <1>1, <1>2, <2>1, PushKeeps
  <2> HIDE DEF old, new
  <2>3. /\ Len(new) \in 1 .. MaxLiveSourceOffers /\ new[Len(new)] = work /\ Increasing(new)
        /\ \A i \in 1 .. Len(new) - 1 : \E j \in 1 .. Len(old) : new[i] = old[j]
        /\ \A j \in 1 .. Len(old) :
              \/ \E i \in 1 .. Len(new) : new[i] = old[j]
              \/ /\ Len(new) = MaxLiveSourceOffers
                 /\ \A i \in 1 .. Len(new) : old[j] < new[i]
    <3>1. old \in Seq(Copy) /\ Len(old) <= MaxLiveSourceOffers /\ Increasing(old)
          BY <1>2 DEF old, AnnouncingOK, SourcesOK
    <3>2. \A i \in 1 .. Len(old) : old[i] < work
          BY <2>2
    <3>3. QED
      <4>1. PutLast(old, work, new)
            BY <1>1, <2>1, <2>4, <3>1, <3>2, PushOrder
      <4>2. QED
            BY <4>1 DEF PutLast
  <2> USE DEF old, new
  <2>5. ASSUME NEW i \in 1 .. Len(new) PROVE new[i] \in Published' /\ new[i] \in Copy
    <3>1. CASE i = Len(new)
          BY <1>1, <2>1, <2>3, <3>1
    <3>2. CASE i # Len(new)
      <4>1. i \in 1 .. Len(new) - 1
            BY <2>3, <2>5, <3>2
      <4>2. PICK j \in 1 .. Len(old) : new[i] = old[j]
            BY <2>3, <4>1
      <4>3. QED
            BY <1>2, <2>2, <4>2
    <3>3. QED
          BY <3>1, <3>2
  <2>6. SourcesOK'
    <3>1. Increasing(session.sources)'
          BY <2>3 DEF Increasing
    <3>2. QED
          BY <2>5, <3>1 DEF SourcesOK, Published
  <2>7. ASSUME NEW c, NEW j \in 1 .. Len(old), c = old[j], ~Served(c)'
        PROVE  Cardinality(Newer(c)') >= MaxLiveSourceOffers
    <3>1. Len(new) = MaxLiveSourceOffers /\ \A i \in 1 .. Len(new) : c < new[i]
          BY <2>3, <2>7 DEF Served
    <3>2. \A i \in 1 .. Len(new) : new[i] > c
      <4>1. \A i \in 1 .. Len(new) : new[i] \in Nat /\ c \in Nat
            BY <1>2, <2>5, <2>7 DEF Copy
      <4>2. QED
            BY <3>1, <4>1
    <3>3. \A i \in 1 .. Len(new) : new[i] \in Newer(c)'
          BY <2>5, <3>2 DEF Newer
    <3>4. Newer(c)' \in SUBSET Copy
          BY DEF Newer, Published
    <3>5. QED
          BY <2>3, <2>4, <3>1, <3>3, <3>4, NewerCount
  <2>8. ASSUME NEW c \in announcers' PROVE c \in Copy /\ (Served(c)' \/ Cardinality(Newer(c)') >= MaxLiveSourceOffers)
    <3>1. CASE c = work
          BY <1>1, <2>3, <3>1 DEF Served
    <3>2. CASE c \in announcers /\ Served(c)
      <4>1. PICK j \in 1 .. Len(old) : old[j] = c
            BY <3>2 DEF Served
      <4>2. QED
            BY <1>2, <2>7, <4>1
    <3>3. CASE c \in announcers /\ Cardinality(Newer(c)) >= MaxLiveSourceOffers
          BY <1>1, <3>3, NewerGrows DEF AnnouncingOK, AnnouncersOK
    <3>4. QED
          BY <2>1, <2>8, <3>1, <3>2, <3>3 DEF AnnouncingOK, AnnouncersOK
  <2>9. QED
        BY <1>1, <2>6, <2>8 DEF AnnouncersOK
<1>5. QED
      BY <1>3, <1>4 DEF Publish

LEMMA AnnouncingStep ==
    CountsOK /\ ControlOK /\ SessionOK /\ ClipOK /\ OutcomeOK /\ OnceOK /\ AnnouncingOK /\ [Next]_vars
        => AnnouncingOK'
<1> SUFFICES ASSUME CountsOK, ControlOK, SessionOK, ClipOK, OutcomeOK, OnceOK, AnnouncingOK, [Next]_vars
             PROVE  AnnouncingOK'
    OBVIOUS
<1>1. NewestOK'
      BY NewestStep DEF AnnouncingOK
<1>2. ASSUME announcers' \subseteq announcers, session'.sources = session.sources,
             Published' = Published, pc' = "stopped" => pc = "stopped"
      PROVE  AnnouncingOK'
  <2>1. SourcesOK'
    <3>1. \A i \in 1 .. Len(session.sources) : session.sources[i] \in Copy
          BY ElementOfSeq DEF SessionOK, SessionTypeOK
    <3>2. QED
          BY <1>2, <3>1 DEF AnnouncingOK, SourcesOK, Increasing
  <2>2. \A c \in announcers : Served(c)' = Served(c) /\ Newer(c)' = Newer(c)
        BY <1>2 DEF Served, Newer
  <2>3. AnnouncersOK'
        BY <1>2, <2>2 DEF AnnouncingOK, AnnouncersOK
  <2>4. QED
        BY <1>1, <2>1, <2>3 DEF AnnouncingOK
<1>3. ASSUME UNCHANGED outcome PROVE Published' = Published
      BY <1>3 DEF Published
<1>4. CASE CopyElsewhere
      BY <1>2, <1>3, <1>4 DEF CopyElsewhere, workerVars
<1>5. CASE Capture
  <2>1. Published' = Published
    <3>1. CASE CaptureCandidates \/ CaptureNothing
          BY <1>3, <3>1 DEF CaptureCandidates, CaptureNothing
    <3>2. CASE CaptureFails
      <4>1. copies \in Nat /\ (clip.kind = "files" => clip.id \in Copy)
            BY ProductAssumption DEF CountsOK, ClipOK, Copy, ProductAssumption
      <4>2. \A d \in Copy : outcome'[d].published = outcome[d].published
            BY <3>2, <4>1 DEF CaptureFails, OutcomeOK
      <4>3. QED
            BY <4>2 DEF Published
    <3>3. QED
          BY <1>5, <3>1, <3>2 DEF Capture
  <2>2. pc' # "stopped"
        BY <1>5 DEF Capture, CaptureCandidates, CaptureNothing, CaptureFails
  <2>3. QED
        BY <1>2, <1>5, <2>1, <2>2 DEF Capture
<1>6. CASE Publish
      BY <1>1, <1>6, AnnouncingPublished DEF AnnouncingOK
<1>7. CASE Accept
  <2>1. session'.sources = session.sources
        BY <1>7 DEF Accept, AcceptFails, AcceptSucceeds, SessionOK, SessionTypeOK
  <2>2. pc' # "stopped"
        BY <1>7 DEF Accept, ControlOK
  <2>3. QED
        BY <1>2, <1>3, <1>7, <2>1, <2>2 DEF Accept
<1>8. CASE FinishCancel
  <2>1. session'.sources = session.sources
        BY <1>8 DEF FinishCancel, SessionOK, SessionTypeOK
  <2>2. QED
        BY <1>2, <1>3, <1>8, <2>1 DEF FinishCancel
<1>9. ASSUME announcers' = {}, session'.sources = <<>> PROVE AnnouncingOK'
  <2>1. Len(<<>>) = 0
        BY EmptySeq
  <2>2. SourcesOK'
        BY <1>9, <2>1 DEF SourcesOK, Increasing
  <2>3. AnnouncersOK'
        BY <1>9 DEF AnnouncersOK
  <2>4. QED
        BY <1>1, <2>2, <2>3 DEF AnnouncingOK
<1>10. CASE FinishStop
       BY <1>9, <1>10 DEF FinishStop, FreshSession
<1>11. CASE Start
       BY <1>9, <1>11 DEF Start, FreshSession, Running, AnnouncingOK, AnnouncersOK
<1>12. ASSUME NEW c \in Copy, Announced(c) PROVE AnnouncingOK'
       BY <1>2, <1>3, <1>12 DEF Announced, workerVars
<1>13. CASE /\ UNCHANGED <<outcome, announcers>> /\ session'.sources = session.sources
            /\ pc' = "stopped" => pc = "stopped"
       BY <1>2, <1>3, <1>13
<1>14. QED
       BY AnnouncingFrame, <1>4, <1>5, <1>6, <1>7, <1>8, <1>10, <1>11, <1>12, <1>13

LEMMA AnnouncingInitially == Init => AnnouncingOK
<1> SUFFICES ASSUME Init PROVE AnnouncingOK
    OBVIOUS
<1>1. Len(<<>>) = 0
      BY EmptySeq
<1>2. NewestOK
      BY DEF Init, NewestOK, EmptyClip
<1>3. SourcesOK /\ AnnouncersOK
      BY <1>1 DEF Init, SourcesOK, Increasing, AnnouncersOK, FreshSession
<1>4. QED
      BY <1>2, <1>3 DEF AnnouncingOK

\* An offer that is being announced to the peer has a live server unless as many
\* newer copies as there may be servers were published since: the oldest server is
\* the one that goes, whatever the notifications and the announcements' delays.
THEOREM AnnouncedOffersAreLive == Spec => []AnnouncedOfferIsLive
<1>1. Inv /\ AnnouncingOK /\ [Next]_vars => AnnouncingOK'
      BY AnnouncingStep DEF Inv
<1>2. Inv /\ AnnouncingOK => AnnouncedOfferIsLive
  <2> SUFFICES ASSUME Inv, AnnouncingOK, NEW c \in announcers,
                      c \notin {session.sources[i] : i \in DOMAIN session.sources}
               PROVE  Cardinality({d \in Copy : d > c /\ outcome[d].published > 0}) >= MaxLiveSourceOffers
      BY DEF AnnouncedOfferIsLive
  <2>1. DOMAIN session.sources = 1 .. Len(session.sources)
        BY LenProperties DEF Inv, SessionOK, SessionTypeOK
  <2>2. ~Served(c)
        BY <2>1 DEF Served
  <2>3. Cardinality(Newer(c)) >= MaxLiveSourceOffers
        BY <2>2 DEF AnnouncingOK, AnnouncersOK
  <2>4. QED
        BY <2>3 DEF Newer, Published
<1>3. QED
      BY AnnouncingInitially, InvHolds, <1>1, <1>2, PTL DEF Spec
=============================================================================
