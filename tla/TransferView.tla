----------------------------- MODULE TransferView -----------------------------
(***************************************************************************)
(* What the snapshot of a ProductRuntime (src/clipboard/product.rs)        *)
(* promises to the tray, which reads it under a lock once a second and     *)
(* never sees the session behind it: a generation number identifies one    *)
(* publication or acceptance, and within a generation the state follows a  *)
(* life cycle in which Cancelled is final.  Product implements this        *)
(* specification, and TransferWindow is driven by it.                      *)
(***************************************************************************)
EXTENDS Naturals

CONSTANT Subject  \* the copies and leases a view may be about

VARIABLE view  \* ProductSnapshot: [pending, manifest, subject, state, generation]

State == {"AwaitingPaste", "Running", "Paused", "Cancelled", "Completed"}

FreshView == [pending |-> FALSE, manifest |-> "None", subject |-> 0, state |-> "None",
              generation |-> 0]

\* What a successful publication or acceptance shows: a new generation.
Shown(v, direction, subject) ==
    [v EXCEPT !.manifest = direction, !.subject = subject, !.state = "AwaitingPaste",
              !.generation = v.generation + 1]

\* The states a refresh may show after st.  A second paste of the same object
\* takes a completed transfer back to Running: the count of completed streams
\* is compared for equality with the files of the manifest.
Successors(st) ==
    CASE st = "AwaitingPaste" -> State
      [] st = "Cancelled"     -> {"Cancelled"}
      [] st = "None"          -> {"None"}
      [] OTHER                -> State \ {"AwaitingPaste"}

Init == view = FreshView

\* A runtime starts.
Restart == view' = FreshView

\* An announcement arrives, or the pending one is accepted or not.
SetPending == \E pending \in BOOLEAN : view' = [view EXCEPT !.pending = pending]

\* A copy is published or a remote offer is put on the clipboard.
ShowTransfer ==
    \E direction \in {"Source", "Remote"}, subject \in Subject, pending \in BOOLEAN :
        view' = Shown([view EXCEPT !.pending = pending], direction, subject)

\* A control or a timer refreshes the state.
Progress == \E st \in Successors(view.state) : view' = [view EXCEPT !.state = st]

Next == Restart \/ SetPending \/ ShowTransfer \/ Progress

Spec == Init /\ [][Next]_view
=============================================================================
