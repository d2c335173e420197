---------------------------- MODULE TransferWindow ----------------------------
(***************************************************************************)
(* The tray's thread and the window that shows a reception                 *)
(* (src/transfer_window.rs and refresh_ui, show_menu and handle_command of *)
(* src/tray.rs).  Once a second it reads the snapshot of the product       *)
(* runtime, of which it knows only what TransferView promises; a reload of *)
(* the settings replaces the runtime, and the window stays.  Progress,     *)
(* speeds, names and layout are left out, and so are the menu's other      *)
(* commands.  What the user sees of it is WindowPromise.                   *)
(***************************************************************************)
EXTENDS Naturals, WindowPromise

CONSTANTS
    Subject,        \* what the snapshots may be about
    MaxGenerations, \* bound on the publications and acceptances of a runtime
    MaxReloads      \* bound on the reloads

VARIABLES
    view,    \* the snapshot of the runtime
    runs,    \* the runtime exists
    posted   \* commands posted by the window's buttons

vars == <<view, runs, window, menu, posted, epoch>>

View == INSTANCE TransferView

NoWindow == [made |-> FALSE, visible |-> FALSE, hidden |-> FALSE, generation |-> 0,
             state |-> "None", close |-> FALSE, epoch |-> 0]

Init ==
    /\ view = View!FreshView
    /\ runs = TRUE
    /\ window = NoWindow
    /\ menu = {}
    /\ posted = {}
    /\ epoch = 0

\* has_receiver_transfer
HasReception == runs /\ view.state # "None" /\ view.manifest = "Remote"

Active == {"Running", "Paused"}
Terminal == {"Completed", "Cancelled"}

-----------------------------------------------------------------------------
(* TransferWindow::update *)

PresentsAnything(w, v) == TRUE  \* mutant: an offer that nobody pasted is presented

\* should_present_generation: an offer that nobody pasted yet does not replace
\* what is displayed.
Presents(w, v) ==
    \/ ~w.made
    \/ w.generation = v.generation
    \/ v.state # "AwaitingPaste"

\* A generation that was not displayed before is presented again.
HiddenAfter(w, v) == w.hidden /\ w.made /\ w.generation = v.generation

Updated(w, v) ==
    IF ~Presents(w, v) THEN [w EXCEPT !.made = TRUE]
    ELSE LET hidden == HiddenAfter(w, v) IN
         [made |-> TRUE, visible |-> w.visible \/ (v.state \in Active /\ ~hidden),
          hidden |-> hidden, generation |-> v.generation, state |-> v.state,
          close |-> v.state \in Terminal, epoch |-> epoch]

\* WM_TIMER: refresh_ui
Refresh ==
    /\ HasReception
    /\ window' = Updated(window, view)
    /\ UNCHANGED <<view, runs, menu, posted, epoch>>

-----------------------------------------------------------------------------
(* The window procedure. *)

Hidden(w) == [w EXCEPT !.visible = FALSE, !.hidden = TRUE]

\* The pause and resume buttons are enabled by the state displayed.
PressControl ==
    /\ window.visible
    /\ window.state \in Active
    /\ posted' = posted \cup {IF window.state = "Running" THEN "Pause" ELSE "Resume"}
    /\ UNCHANGED <<view, runs, window, menu, epoch>>

\* The button below closes the window of a transfer that ended, and cancels
\* any other.
PressCancel ==
    /\ window.visible
    /\ posted' = IF window.close THEN posted ELSE posted \cup {"Cancel"}
    /\ window' = Hidden(window)
    /\ UNCHANGED <<view, runs, menu, epoch>>

\* WM_CLOSE, or the window is minimised.
CloseWindow ==
    /\ window.visible
    /\ window' = Hidden(window)
    /\ UNCHANGED <<view, runs, menu, posted, epoch>>

-----------------------------------------------------------------------------
(* The menu and the commands. *)

\* show_menu enables what the snapshot allows at this moment ...
OpenMenu ==
    /\ menu = {}
    /\ menu' = {"Settings"} \cup
               (IF runs /\ view.pending THEN {"AcceptPending"} ELSE {}) \cup
               (IF HasReception THEN {"ShowWindow"} ELSE {}) \cup
               (IF runs /\ view.state = "Running" THEN {"Pause"} ELSE {}) \cup
               (IF runs /\ view.state = "Paused" THEN {"Resume"} ELSE {}) \cup
               (IF runs /\ view.state \in Active \cup {"AwaitingPaste"} THEN {"Cancel"} ELSE {})
    /\ UNCHANGED <<view, runs, window, posted, epoch>>

\* ... and the command is handled when it is chosen.
\* show_transfer_window shows the window whatever it displays.
ShowWindow ==
    /\ "ShowWindow" \in menu
    /\ menu' = {}
    /\ window' = IF HasReception THEN [Updated(window, view) EXCEPT !.visible = TRUE, !.hidden = FALSE]
                 ELSE window
    /\ UNCHANGED <<view, runs, posted, epoch>>

\* Any other command, or none: what the runtime does with it is its own matter.
ChooseOther ==
    /\ menu # {}
    /\ menu' = {}
    /\ UNCHANGED <<view, runs, window, posted, epoch>>

HandlePosted ==
    /\ \E command \in posted : posted' = posted \ {command}
    /\ UNCHANGED <<view, runs, window, menu, epoch>>

\* reload_runtime, also while the menu is open.  The new runtime may not start.
ReloadRuntime ==
    /\ epoch < MaxReloads
    /\ epoch' = epoch + 1
    /\ runs' \in BOOLEAN
    /\ View!Restart
    /\ UNCHANGED <<window, menu, posted>>

\* The runtime goes on.
Product ==
    /\ runs
    /\ \/ View!SetPending \/ View!Progress
       \/ view.generation < MaxGenerations /\ View!ShowTransfer
    /\ UNCHANGED <<runs, window, menu, posted, epoch>>

-----------------------------------------------------------------------------

Next ==
    \/ Refresh \/ PressControl \/ PressCancel \/ CloseWindow
    \/ OpenMenu \/ ShowWindow \/ ChooseOther \/ HandlePosted
    \/ ReloadRuntime \/ Product

Spec == Init /\ [][Next]_vars
=============================================================================
