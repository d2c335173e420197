----------------------------- MODULE ProbeProcess -----------------------------
(***************************************************************************)
(* A diagnostic process that puts a virtual file on the clipboard and      *)
(* waits for its end (src/clipboard/runtime.rs): the clipboard probe, the  *)
(* pause probe, the loopback probe and the secure receiver.  Three parts   *)
(* run beside each other: the main thread with its message loop, the       *)
(* thread that reads commands from the standard input, and the calls of    *)
(* Explorer, which wait in a read while the transfer is paused.  As the    *)
(* code says of the pause probe, the main thread can release its object    *)
(* only when Explorer's calls have returned: it hangs while one of them    *)
(* waits for a user.                                                       *)
(***************************************************************************)
EXTENDS FiniteSets

CONSTANT Caller  \* calls of Explorer into the process

VARIABLES
    mode,     \* the probe
    phase,    \* the main thread
    input,    \* the control thread, "reading" or what ended it
    messages, \* messages to the main thread: "quit", "timer"
    transfer,  \* TransferControl, or the flags of the RemoteTransferRegistry
    started,  \* a stream has begun its transfer
    calls     \* the calls of Explorer: "none", "reading"

vars == <<mode, phase, input, messages, transfer, started, calls>>

Mode == {"clipboard", "pause", "loopback", "secure-receiver"}

Reading == {c \in Caller : calls[c] = "reading"}

Init ==
    /\ mode \in Mode
    /\ phase = "register"
    /\ input = "none"
    /\ messages = {}
    /\ transfer = "Running"
    /\ started = FALSE
    /\ calls = [c \in Caller |-> "none"]

-----------------------------------------------------------------------------
(* The main thread. *)

\* The object is put on the clipboard, or the probe ends without a lease: a failure,
\* or a consumer that read the object of a ClipboardLease before it was checked.
Registered ==
    /\ phase = "register"
    /\ phase' \in {"leased", "failed"}
    /\ UNCHANGED <<mode, input, messages, transfer, started, calls>>

\* ClipboardLease::register
Register == mode # "secure-receiver" /\ Registered

RegisterReceiver == mode = "secure-receiver" /\ Registered

\* From here on whatever fails drops the lease, and cancels nothing before it.
GiveUp == phase' = "giving up"

StartControl ==
    /\ phase = "leased"
    /\ \/ phase' = "starting" /\ input' = IF mode = "clipboard" THEN "none" ELSE "reading"
       \/ GiveUp /\ mode # "clipboard" /\ UNCHANGED input
    /\ UNCHANGED <<mode, messages, transfer, started, calls>>

\* set_exit_timer of a probe with a lifetime, while commands are already obeyed
SetTimer ==
    /\ phase = "starting"
    /\ phase' = "pumping" \/ GiveUp
    /\ UNCHANGED <<mode, input, messages, transfer, started, calls>>

\* The exit timer of a probe with a lifetime.
TimerFires ==
    /\ phase = "pumping"
    /\ messages' = messages \cup {"timer"}
    /\ UNCHANGED <<mode, phase, input, transfer, started, calls>>

\* Another program posts WM_QUIT to the main thread.
PostQuit ==
    /\ phase = "pumping"
    /\ messages' = messages \cup {"quit"}
    /\ UNCHANGED <<mode, phase, input, transfer, started, calls>>

\* Either message ends the loop.
LoopReturns ==
    /\ phase = "pumping" /\ messages # {}
    /\ phase' = "cancelling"
    /\ UNCHANGED <<mode, input, messages, transfer, started, calls>>

MessageLoop == mode # "secure-receiver" /\ LoopReturns

RemoteMessageLoop == mode = "secure-receiver" /\ LoopReturns

\* What each probe does before it drops its lease.  The receiver relies on the
\* command that ended it; the clipboard probe has nothing to cancel.
ClipboardEnds == mode = "clipboard" /\ UNCHANGED transfer

PauseEndsUncancelled == mode = "pause" /\ UNCHANGED transfer  \* mutant: the loop just returns

PauseEnds == mode = "pause" /\ transfer' = "Cancelled"

LoopbackEnds == mode = "loopback" /\ transfer' = "Cancelled"

ReceiverEnds == mode = "secure-receiver" /\ UNCHANGED transfer

AfterLoop ==
    /\ phase = "cancelling"
    /\ ClipboardEnds \/ PauseEnds \/ LoopbackEnds \/ ReceiverEnds
    /\ phase' = "releasing"
    /\ UNCHANGED <<mode, input, messages, started, calls>>

Releasing == {"releasing", "giving up"}

\* Drop of the lease
ReleaseObject ==
    /\ phase \in Releasing /\ Reading = {}
    /\ phase' = "ended"
    /\ UNCHANGED <<mode, input, messages, transfer, started, calls>>

-----------------------------------------------------------------------------
(* The control thread. *)

\* TransferControl never leaves Cancelled.
Controlled(state) == IF transfer = "Cancelled" THEN transfer ELSE state

\* pause_all and resume_all need a stream that has started.
Reaches == mode = "secure-receiver" => started

Pause ==
    /\ input = "reading" /\ Reaches
    /\ transfer' = Controlled("Paused")
    /\ UNCHANGED <<mode, phase, input, messages, started, calls>>

Resume ==
    /\ input = "reading" /\ Reaches
    /\ transfer' = Controlled("Running")
    /\ UNCHANGED <<mode, phase, input, messages, started, calls>>

Cancel ==
    /\ input = "reading" /\ Reaches
    /\ transfer' = "Cancelled"
    /\ UNCHANGED <<mode, phase, input, messages, started, calls>>

\* quit cancels and then posts WM_QUIT.
QuitPosted ==
    /\ input = "reading"
    /\ input' = "quit"
    /\ messages' = messages \cup {"quit"}
    /\ UNCHANGED <<mode, phase, started, calls>>

QuitPause == mode = "pause" /\ transfer' = "Cancelled" /\ QuitPosted

\* The command of the loopback probe goes through its server, which may refuse it.
QuitLoopback == mode = "loopback" /\ transfer' \in {transfer, "Cancelled"} /\ QuitPosted

\* A receiver without a stream has nothing to cancel.
QuitReceiver ==
    /\ mode = "secure-receiver"
    /\ transfer' = IF started THEN "Cancelled" ELSE transfer
    /\ QuitPosted

\* stop posts WM_QUIT and leaves the transfer as it is.
Stop ==
    /\ input = "reading" /\ mode \in {"pause", "loopback"}
    /\ input' = "stop"
    /\ messages' = messages \cup {"quit"}
    /\ UNCHANGED <<mode, phase, transfer, started, calls>>

\* The end of the standard input ends the thread, not the probe.
InputEnds ==
    /\ input = "reading"
    /\ input' = "eof"
    /\ UNCHANGED <<mode, phase, messages, transfer, started, calls>>

-----------------------------------------------------------------------------
(* Explorer. *)

BeginCall(c) ==
    /\ phase \notin {"failed", "ended"}
    /\ calls[c] = "none"
    /\ calls' = [calls EXCEPT ![c] = "reading"]
    /\ UNCHANGED <<mode, phase, input, messages, transfer, started>>

\* SecureRemoteSource::credentials
BeginTransfer(c) ==
    /\ calls[c] = "reading" /\ transfer = "Running"
    /\ started' = TRUE
    /\ UNCHANGED <<mode, phase, input, messages, transfer, calls>>

\* A read returns its bytes or an error, but not while the transfer is paused;
\* the exchange of the loopback source ends by its timeout.
MayReturn == transfer # "Paused" \/ mode = "loopback"

EndCall(c) ==
    /\ calls[c] = "reading" /\ MayReturn
    /\ calls' = [calls EXCEPT ![c] = "none"]
    /\ UNCHANGED <<mode, phase, input, messages, transfer, started>>

Next ==
    \/ Register \/ RegisterReceiver \/ StartControl \/ SetTimer
    \/ TimerFires \/ PostQuit \/ MessageLoop \/ RemoteMessageLoop \/ AfterLoop \/ ReleaseObject
    \/ Pause \/ Resume \/ Cancel \/ QuitPause \/ QuitLoopback \/ QuitReceiver \/ Stop \/ InputEnds
    \/ \E c \in Caller : BeginCall(c) \/ BeginTransfer(c) \/ EndCall(c)

-----------------------------------------------------------------------------
(* Properties. *)

Hangs == phase \in Releasing /\ Reading # {} /\ ~MayReturn

\* Who hangs in the release of its object, behind a reader of a paused transfer:
\* never a process that was told to quit, and of the others only a receiver whose
\* loop was ended by its lifetime or by another program, or a probe that gives up
\* since its timer could not be set.  Neither cancels the transfer, and only its
\* user can then wake the reader.  The pause and the loopback probe cancel
\* whatever ended their loop.
ReleaseIsNotBlocked ==
    Hangs => /\ input # "quit"
             /\ mode = "secure-receiver" \/ (mode = "pause" /\ phase = "giving up")
=============================================================================
