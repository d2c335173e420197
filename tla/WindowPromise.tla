---------------------------- MODULE WindowPromise ----------------------------
(***************************************************************************)
(* What the window of a reception (src/transfer_window.rs) promises to     *)
(* the user who looks at it and closes it.  TransferWindow says how the    *)
(* window changes.                                                         *)
(***************************************************************************)

VARIABLES
    window,  \* the window: [made, visible, hidden, generation, state, close, epoch]
    menu,    \* the commands the open menu offers
    epoch    \* runtimes started

\* A window the user hid comes back only if the user asks for it or another
\* transfer is displayed in it.
StaysHidden ==
    window.hidden /\ window'.visible => menu' # menu \/ window'.generation # window.generation

\* Within one runtime, an offer that nobody pasted never takes the place of a
\* transfer that is displayed.
KeepsTheResult ==
    window.made /\ window.epoch = epoch /\ window.state # "AwaitingPaste"
        => window'.state # "AwaitingPaste"

\* What the user sees and has hidden stays as the user left it.
WindowObeysTheUser == [][StaysHidden /\ KeepsTheResult]_<<window, menu, epoch>>
=============================================================================
