------------------------------- MODULE Registry -------------------------------
(***************************************************************************)
(* The files of one user account and everybody who reads and writes them:  *)
(* the device identity and the records of trusted peers                    *)
(* (src/device_store.rs), the connection settings (src/app_settings.rs),   *)
(* the tray process that runs the product with them (src/tray.rs), its     *)
(* discovery thread, which corrects the settings when a trusted peer moves *)
(* (src/discovery.rs), and the commands of the user (src/main.rs).         *)
(*                                                                         *)
(* A thread makes one call at a time and may be killed between any two     *)
(* steps of it; each step is one access to a file.  A file is created by a *)
(* link to a complete temporary file, so that it appears with its contents *)
(* or not at all; the settings are truncated and written in place.  The    *)
(* tray learns of a change by a message posted to its window.  Labels,     *)
(* certificates and the encryption of the identity are left out; a local   *)
(* address is determined by the peer's.                                    *)
(***************************************************************************)
EXTENDS Naturals, FiniteSets

CONSTANTS
    Command,     \* the processes of the command line and the pairing thread
    Tray,        \* the main thread of the tray
    Discovery,   \* its discovery thread
    Peer,        \* fingerprints of other devices
    Address,     \* addresses in the local network
    Limit,       \* TRUSTED_PEER_LIMIT
    NoIdentity,
    MaxCalls     \* bound on the calls, packets and starts of the tray

Thread == Command \cup {Tray, Discovery}

ASSUME RegistryAssumption ==
    /\ Limit \in Nat /\ MaxCalls \in Nat
    /\ Tray # Discovery /\ {Tray, Discovery} \cap Command = {}
    /\ NoIdentity \notin Thread
    /\ IsFiniteSet(Peer) /\ IsFiniteSet(Thread)
    /\ Peer # {} /\ Address # {}

VARIABLES
    identity,  \* the identity file: the thread that generated it, or NoIdentity
    known,     \* the identity a thread loaded
    records,   \* the trust registry
    orphans,   \* records a thread left although trust_peer did not succeed
    settings,  \* the settings file: [kind, peer, address, auto]
    task,      \* what a thread is about to do: [pc, peer, new]
    desk,      \* the tray: [window, runtime, reload]
    missed,    \* a change was reported to no window since the tray last loaded
    calls

fileVars == <<identity, records, orphans, settings>>
vars     == <<fileVars, known, task, desk, missed, calls>>

Settings   == [kind : {"complete"}, peer : Peer, address : Address, auto : BOOLEAN]
NoPeer     == CHOOSE r \in Peer : TRUE
NoAddress  == CHOOSE a \in Address : TRUE
Unreadable == [kind |-> "unreadable", peer |-> NoPeer, address |-> NoAddress, auto |-> FALSE]
Absent     == [Unreadable EXCEPT !.kind = "absent"]

Idle == [pc |-> "idle", peer |-> NoPeer, new |-> Absent]
Closed == [window |-> FALSE, runtime |-> Absent, reload |-> FALSE]

Init ==
    /\ identity = NoIdentity
    /\ known = [t \in Thread |-> NoIdentity]
    /\ records = {}
    /\ orphans = {}
    /\ settings = Absent
    /\ task = [t \in Thread |-> Idle]
    /\ desk = Closed
    /\ missed = FALSE
    /\ calls = 0

Goto(t, pc) == task' = [task EXCEPT ![t].pc = pc]
Finish(t)   == task' = [task EXCEPT ![t] = Idle]

Begin(t, activity) ==
    /\ task[t].pc = "idle"
    /\ calls < MaxCalls
    /\ calls' = calls + 1
    /\ task' = [task EXCEPT ![t] = activity]

-----------------------------------------------------------------------------
(* The identity. *)

\* load_or_create_identity finds the identity, or generates one that it will
\* link unless there is a file by then.  Every program begins with it.
FindIdentity(t) ==
    /\ t # Discovery /\ known[t] = NoIdentity
    /\ IF identity # NoIdentity
       THEN known' = [known EXCEPT ![t] = identity] /\ UNCHANGED <<task, calls>>
       ELSE Begin(t, [Idle EXCEPT !.pc = "link identity"]) /\ UNCHANGED known
    /\ UNCHANGED <<fileVars, desk, missed>>

LinkIdentityOver(t) == identity' = t  \* mutant: the link replaces a file that exists

\* write_new_atomic
LinkIdentity(t) == identity' = IF identity = NoIdentity THEN t ELSE identity

\* Whoever created the file, the identity used is the one read from it.
CreateIdentity(t) ==
    /\ task[t].pc = "link identity"
    /\ LinkIdentity(t)
    /\ known' = [known EXCEPT ![t] = identity']
    /\ Finish(t)
    /\ UNCHANGED <<records, orphans, settings, desk, missed, calls>>

-----------------------------------------------------------------------------
(* The records. *)

\* trust_peer, called by the trust command and by both ends of a pairing.
StartTrust(t, r) ==
    /\ t \in Command /\ known[t] # NoIdentity
    /\ Begin(t, [Idle EXCEPT !.pc = "count", !.peer = r])
    /\ UNCHANGED <<fileVars, known, desk, missed>>

CountRecords(t) ==
    /\ task[t].pc = "count"
    /\ IF Cardinality(records) >= Limit THEN Finish(t) ELSE Goto(t, "record")
    /\ UNCHANGED <<fileVars, known, desk, missed, calls>>

\* The record exists already, or cannot be written.
RecordFails(t) ==
    /\ task[t].pc = "record"
    /\ Finish(t)
    /\ UNCHANGED <<fileVars, known, desk, missed, calls>>

RecordPeer(t) ==
    /\ task[t].pc = "record"
    /\ task[t].peer \notin records
    /\ records' = records \cup {task[t].peer}
    /\ Goto(t, "verify")
    /\ UNCHANGED <<identity, orphans, settings, known, desk, missed, calls>>

VerifiesAnything == TRUE  \* mutant: the records are not counted again

\* list_peers refuses more records than the limit.
Verifies == Cardinality(records) <= Limit

\* The pairing of the command line reports the new record to the tray, ...
PairedByCommand(t) == Goto(t, "notify")

\* ... that of the tray selects the peer and saves its address, ...
PairedByTray(t) ==
    \E a \in Address :
        task' = [task EXCEPT ![t].pc = "truncate",
                             ![t].new = [kind |-> "complete", peer |-> task[t].peer,
                                         address |-> a, auto |-> TRUE]]

\* ... and the command trust-import does neither.
Imported(t) == Finish(t)

VerifySucceeds(t) ==
    /\ task[t].pc = "verify"
    /\ Verifies
    /\ PairedByCommand(t) \/ PairedByTray(t) \/ Imported(t)
    /\ UNCHANGED <<fileVars, known, desk, missed, calls>>

\* There are too many, or a record cannot be read, as when another thread
\* removes it meanwhile.
VerifyFails(t) ==
    /\ task[t].pc = "verify"
    /\ Goto(t, "withdraw")
    /\ UNCHANGED <<fileVars, known, desk, missed, calls>>

\* The record is removed again, or the error of that is ignored; nobody is told.
Withdraw(t) ==
    /\ task[t].pc = "withdraw"
    /\ \/ records' = records \ {task[t].peer} /\ orphans' = orphans \ {task[t].peer}
       \/ orphans' = orphans \cup ({task[t].peer} \cap records) /\ UNCHANGED records
    /\ missed' = TRUE
    /\ Finish(t)
    /\ UNCHANGED <<identity, settings, known, desk, calls>>

Remove(r) ==
    /\ records' = records \ {r}
    /\ orphans' = orphans \ {r}

\* The trust wizard lists the records before it removes one ...
RevokeInWizard(t, r) ==
    /\ t \in Command
    /\ r \in records /\ Cardinality(records) <= Limit
    /\ Begin(t, [Idle EXCEPT !.pc = "notify"])
    /\ Remove(r)
    /\ UNCHANGED <<identity, settings, known, desk, missed>>

\* ... the trust-revoke command does not, and does not tell the tray.
RevokeByCommand(t, r) ==
    /\ t \in Command
    /\ r \in records
    /\ Begin(t, Idle)
    /\ Remove(r)
    /\ missed' = TRUE
    /\ UNCHANGED <<identity, settings, known, desk>>

-----------------------------------------------------------------------------
(* The settings. *)

\* AppSettings::load: what is unreadable or names a peer that is not trusted
\* any more is an error.
Loads(file) == file.kind = "complete" /\ file.peer \in records

Loaded == IF Loads(settings) THEN settings ELSE Absent

\* The settings wizard.
ChooseSettings(t, s) ==
    /\ t \in Command /\ known[t] # NoIdentity
    /\ s.peer \in records /\ Cardinality(records) <= Limit
    /\ Begin(t, [Idle EXCEPT !.pc = "truncate", !.new = s])
    /\ UNCHANGED <<fileVars, known, desk, missed>>

\* reconcile_trusted_endpoint: the peer r was seen at address a.  Settings that
\* do not load are taken for absent.
SeePeer(r, a) ==
    LET new == [kind |-> "complete", peer |-> r, address |-> a,
                auto |-> IF Loads(settings) THEN settings.auto ELSE TRUE]
    IN  /\ known[Tray] # NoIdentity
        /\ r \in records
        /\ Loads(settings) => settings.peer = r
        /\ settings # new
        /\ Begin(Discovery, [Idle EXCEPT !.pc = "truncate", !.new = new])
        /\ UNCHANGED <<fileVars, known, desk, missed>>

\* save validates the peer and then opens the file, which truncates it.
TruncateSettings(t) ==
    /\ task[t].pc = "truncate"
    /\ IF task[t].new.peer \in records
       THEN settings' = Unreadable /\ Goto(t, "write")
       ELSE UNCHANGED settings /\ Finish(t)
    /\ UNCHANGED <<identity, records, orphans, known, desk, missed, calls>>

FinishWriteUntold(t) == Finish(t)  \* mutant: the tray is not told

FinishWrite(t) == Goto(t, "notify")

\* Over what another thread wrote meanwhile the end of the longer text may remain.
WriteSettings(t) ==
    /\ task[t].pc = "write"
    /\ settings' \in {task[t].new} \cup (IF settings = Unreadable THEN {} ELSE {Unreadable})
    /\ FinishWrite(t)
    /\ UNCHANGED <<identity, records, orphans, known, desk, missed, calls>>

\* The disk is full: the caller gives up and leaves the file empty.
WriteFails(t) ==
    /\ task[t].pc = "write"
    /\ missed' = TRUE
    /\ Finish(t)
    /\ UNCHANGED <<fileVars, known, desk, calls>>

\* reload_existing posts to the window of the tray, if there is one.
Notify(t) ==
    /\ task[t].pc = "notify"
    /\ IF desk.window THEN desk' = [desk EXCEPT !.reload = TRUE] /\ UNCHANGED missed
       ELSE missed' = TRUE /\ UNCHANGED desk
    /\ Finish(t)
    /\ UNCHANGED <<fileVars, known, calls>>

-----------------------------------------------------------------------------
(* The tray. *)

\* start_product_runtime: without usable settings, or when the runtime does not
\* start, there is none.
StartRuntime(reload, window) ==
    /\ desk' \in {[window |-> window, runtime |-> r, reload |-> reload] : r \in {Loaded, Absent}}
    /\ missed' = FALSE

\* TrayState::new, which runs before the window exists.
StartTray ==
    /\ known[Tray] # NoIdentity
    /\ ~desk.window
    /\ Begin(Tray, [Idle EXCEPT !.pc = "open window"])
    /\ StartRuntime(FALSE, FALSE)
    /\ UNCHANGED <<fileVars, known>>

OpenWindow ==
    /\ task[Tray].pc = "open window"
    /\ desk' = [desk EXCEPT !.window = TRUE]
    /\ Finish(Tray)
    /\ UNCHANGED <<fileVars, known, missed, calls>>

\* reload_runtime drops the runtime and starts another one.
Reload ==
    /\ desk.reload
    /\ StartRuntime(FALSE, TRUE)
    /\ UNCHANGED <<fileVars, known, task, calls>>

\* The tray ends and waits for its discovery thread.
ExitTray ==
    /\ desk.window
    /\ task[Discovery].pc = "idle"
    /\ desk' = Closed
    /\ known' = [known EXCEPT ![Tray] = NoIdentity]
    /\ UNCHANGED <<fileVars, task, missed, calls>>

-----------------------------------------------------------------------------
(* Crashes. *)

\* What killed threads leave: records that nobody verified, and changes nobody
\* was told of.
Abandoned(T) ==
    /\ orphans' = orphans \cup ({task[t].peer : t \in {u \in T : task[u].pc \in {"verify", "withdraw"}}}
                                \cap records)
    /\ missed' = (missed \/ \E t \in T : task[t].pc \in {"write", "notify", "withdraw"})
    /\ task' = [t \in Thread |-> IF t \in T THEN Idle ELSE task[t]]
    /\ known' = [t \in Thread |-> IF t \in T THEN NoIdentity ELSE known[t]]

KillCommand(t) ==
    /\ t \in Command
    /\ Abandoned({t})
    /\ UNCHANGED <<identity, records, settings, desk, calls>>

KillTray ==
    /\ Abandoned({Tray, Discovery})
    /\ desk' = Closed
    /\ UNCHANGED <<identity, records, settings, calls>>

-----------------------------------------------------------------------------

Trust(t) ==
    \/ \E r \in Peer : StartTrust(t, r) \/ RevokeInWizard(t, r) \/ RevokeByCommand(t, r)
    \/ CountRecords(t) \/ RecordFails(t) \/ RecordPeer(t)
    \/ VerifySucceeds(t) \/ VerifyFails(t) \/ Withdraw(t)

Save(t) ==
    \/ \E s \in Settings : ChooseSettings(t, s)
    \/ TruncateSettings(t) \/ WriteSettings(t) \/ WriteFails(t) \/ Notify(t)

TrayStep == StartTray \/ OpenWindow \/ Reload \/ ExitTray \/ KillTray

Next ==
    \/ \E t \in Thread : FindIdentity(t) \/ CreateIdentity(t) \/ Trust(t) \/ Save(t)
    \/ \E t \in Command : KillCommand(t)
    \/ \E r \in Peer, a \in Address : SeePeer(r, a)
    \/ TrayStep

Spec == Init /\ [][Next]_vars

-----------------------------------------------------------------------------
(* Properties. *)

\* Records whose trust_peer is under way or was cut short.
Unsettled ==
    orphans \cup {task[t].peer : t \in {u \in Thread : task[u].pc \in {"verify", "withdraw"}}}

\* Concurrent calls of trust_peer never take the registry past its limit with
\* records that were reported as trusted.
TrustLimitHolds == Cardinality(records \ Unsettled) <= Limit

Step == {"idle", "link identity", "count", "record", "verify", "withdraw",
         "truncate", "write", "notify", "open window"}

Activity == [pc : Step, peer : Peer, new : Settings \cup {Absent}]

StoreTypeOK ==
    /\ identity \in Thread \cup {NoIdentity}
    /\ known \in [Thread -> Thread \cup {NoIdentity}]
    /\ records \subseteq Peer /\ orphans \subseteq records
    /\ settings \in Settings \cup {Absent, Unreadable}
    /\ task \in [Thread -> Activity]
    /\ desk \in [window : BOOLEAN, runtime : Settings \cup {Absent}, reload : BOOLEAN]
    /\ missed \in BOOLEAN

\* Besides the types: the limit of the trust registry.
TypeOK == StoreTypeOK /\ TrustLimitHolds

\* However many programs create the identity at the same time, all use the one
\* in the file, and it is never replaced.
OneIdentity == \A t \in Thread : known[t] \in {NoIdentity, identity}

Changing == {"write", "notify", "withdraw"}

\* Once every change was reported and every report handled, the product runs
\* with the settings in the file and a peer that is still trusted, or not at
\* all.  Changes that no window was told of are the exception.
TrayFollowsTheStore ==
    (/\ desk.window /\ ~desk.reload /\ ~missed
     /\ \A t \in Thread : task[t].pc \notin Changing
     /\ desk.runtime # Absent)
        => desk.runtime = settings /\ settings.peer \in records
=============================================================================
