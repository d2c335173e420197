------------------------------- MODULE Desktop -------------------------------
(***************************************************************************)
(* The parts of the tray process that do not touch the clipboard: the      *)
(* account's files and whoever uses them (Registry), the pairing of two    *)
(* machines (Pairing) and the window of a reception (TransferWindow).      *)
(* They meet in few places, and each takes the others at their word: a     *)
(* pairing ends in trust_peer, which Registry has step by step, and a      *)
(* reload of Registry is a new runtime for the window.  A behaviour here   *)
(* is one of one part, while the others stay as they are.                  *)
(***************************************************************************)
EXTENDS Registry, TrustPromise, WindowPromise

CONSTANTS
    MaxSessions,                         \* Pairing
    Subject, MaxGenerations, MaxReloads  \* TransferWindow

VARIABLES
    part,  \* the part that runs
    made, busy, thread, seen,
    view, runs, posted

pairVars    == <<session, made, busy, thread, trusted, seen>>
windowVars  == <<view, runs, window, menu, posted, epoch>>
desktopVars == <<vars, pairVars, windowVars, part>>

Pairs == INSTANCE Pairing
Shows == INSTANCE TransferWindow

ASSUME DesktopAssumption == Pairs!PairingAssumption

DesktopInit ==
    /\ part \in {"registry", "pairing", "window"}
    /\ Init /\ Pairs!Init /\ Shows!Init

DesktopNext ==
    /\ UNCHANGED part
    /\ \/ part = "registry" /\ Next /\ UNCHANGED <<pairVars, windowVars>>
       \/ part = "pairing" /\ Pairs!Next /\ UNCHANGED <<vars, windowVars>>
       \/ part = "window" /\ Shows!Next /\ UNCHANGED <<vars, pairVars>>

DesktopSpec == DesktopInit /\ [][DesktopNext]_desktopVars
=============================================================================
