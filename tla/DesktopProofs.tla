----------------------------- MODULE DesktopProofs -----------------------------
(***************************************************************************)
(* Theorems about the parts of the tray process (Desktop).                 *)
(*                                                                         *)
(* The account's files (Registry), for any number of programs, peers and   *)
(* addresses.  TypeOK with the limit of the registry, OneIdentity and      *)
(* Followed are each inductive over the types; Followed is                 *)
(* TrayFollowsTheStore without its condition that there is a window, which *)
(* it has to hold without: the runtime is loaded before the window exists. *)
(*                                                                         *)
(* The pairing of two machines (Pairing), for any number of connections.   *)
(* A machine trusts by the answers of its own thread and by what the other *)
(* one sent, so the invariant relates both to what the users were asked,   *)
(* and keeps the two threads of a machine on different connections.        *)
(*                                                                         *)
(* The window of a reception (TransferWindow), for every runtime that      *)
(* keeps TransferView; and at the end the theorems that a tray keeps.      *)
(***************************************************************************)
EXTENDS Desktop, FiniteSetTheorems, SequenceTheorems, TLAPS

-----------------------------------------------------------------------------
(* The types. *)

LEMMA Constants ==
    /\ Tray \in Thread /\ Discovery \in Thread /\ Tray # Discovery
    /\ \A t \in Command : t \in Thread /\ t # Tray /\ t # Discovery
    /\ NoIdentity \notin Thread
    /\ NoPeer \in Peer /\ NoAddress \in Address
  BY RegistryAssumption DEF RegistryAssumption, Thread, NoPeer, NoAddress

LEMMA Defaults ==
    /\ Idle \in Activity /\ Idle.pc = "idle"
    /\ Absent.kind = "absent" /\ Unreadable.kind = "unreadable"
    /\ Absent \notin Settings /\ Unreadable \notin Settings /\ Absent # Unreadable
  BY Constants DEF Idle, Activity, Step, Absent, Unreadable, Settings

\* What is loaded is a complete file or nothing.
LEMMA LoadedType ==
    ASSUME StoreTypeOK
    PROVE  Loaded \in Settings \cup {Absent}
  BY Defaults DEF StoreTypeOK, Loaded, Loads

LEMMA BeginType ==
    ASSUME StoreTypeOK, NEW t \in Thread, NEW a \in Activity, Begin(t, a)
    PROVE  task' \in [Thread -> Activity]
  BY DEF StoreTypeOK, Begin

LEMMA GotoType ==
    ASSUME StoreTypeOK, NEW t \in Thread, NEW step \in Step, Goto(t, step)
    PROVE  task' \in [Thread -> Activity]
  <1> DEFINE a == [task[t] EXCEPT !.pc = step]
  <1>1. task \in [Thread -> Activity] /\ task[t] \in Activity
        BY DEF StoreTypeOK
  <1>2. a \in Activity
        BY <1>1, SMT DEF Activity
  <1>3. task' = [task EXCEPT ![t] = a]
        BY <1>1 DEF Goto
  <1>4. QED
        BY <1>1, <1>2, <1>3

LEMMA FinishType ==
    ASSUME StoreTypeOK, NEW t \in Thread, Finish(t)
    PROVE  task' \in [Thread -> Activity]
  BY Defaults DEF StoreTypeOK, Finish

LEMMA RuntimeType ==
    ASSUME StoreTypeOK, NEW w \in BOOLEAN, StartRuntime(FALSE, w)
    PROVE  /\ desk' \in [window : BOOLEAN, runtime : Settings \cup {Absent}, reload : BOOLEAN]
           /\ missed' \in BOOLEAN
  <1>1. PICK r \in {Loaded, Absent} : desk' = [window |-> w, runtime |-> r, reload |-> FALSE]
        BY DEF StartRuntime
  <1>2. r \in Settings \cup {Absent}
        BY LoadedType
  <1>3. QED
        BY <1>1, <1>2 DEF StartRuntime

LEMMA InitTypes == Init => StoreTypeOK
<1> SUFFICES ASSUME Init PROVE StoreTypeOK
    OBVIOUS
<1>1. /\ known \in [Thread -> Thread \cup {NoIdentity}]
      /\ task \in [Thread -> Activity]
      BY Defaults DEF Init
<1>2. desk \in [window : BOOLEAN, runtime : Settings \cup {Absent}, reload : BOOLEAN]
      BY DEF Init, Closed
<1>3. QED
      BY <1>1, <1>2 DEF Init, StoreTypeOK

LEMMA StutterTypes ==
    ASSUME StoreTypeOK, UNCHANGED vars
    PROVE  StoreTypeOK'
  BY DEF StoreTypeOK, vars, fileVars

LEMMA IdentityTypes ==
    ASSUME StoreTypeOK, NEW t \in Thread, FindIdentity(t) \/ CreateIdentity(t)
    PROVE  StoreTypeOK'
<1>1. CASE FindIdentity(t)
  <2>1. [Idle EXCEPT !.pc = "link identity"] \in Activity
        BY Defaults DEF Activity, Step
  <2>2. task' \in [Thread -> Activity]
        BY <1>1, <2>1, BeginType DEF FindIdentity, StoreTypeOK
  <2>3. QED
        BY <1>1, <2>2 DEF FindIdentity, StoreTypeOK, fileVars
<1>2. CASE CreateIdentity(t)
  <2>1. task' \in [Thread -> Activity] /\ identity' \in Thread \cup {NoIdentity}
        BY <1>2, FinishType DEF CreateIdentity, StoreTypeOK, LinkIdentity
  <2>2. QED
        BY <1>2, <2>1 DEF CreateIdentity, StoreTypeOK
<1>3. QED
      BY <1>1, <1>2

LEMMA TrustTypes ==
    ASSUME StoreTypeOK, NEW t \in Thread, Trust(t)
    PROVE  StoreTypeOK'
<1>1. ASSUME NEW r \in Peer, StartTrust(t, r) PROVE StoreTypeOK'
  <2>1. [Idle EXCEPT !.pc = "count", !.peer = r] \in Activity
        BY Defaults DEF Activity, Step
  <2>2. QED
        BY <1>1, <2>1, BeginType DEF StartTrust, StoreTypeOK, fileVars
<1>2. ASSUME NEW r \in Peer, RevokeInWizard(t, r) PROVE StoreTypeOK'
  <2>1. [Idle EXCEPT !.pc = "notify"] \in Activity
        BY Defaults DEF Activity, Step
  <2>2. QED
        BY <1>2, <2>1, BeginType DEF RevokeInWizard, Remove, StoreTypeOK
<1>3. ASSUME NEW r \in Peer, RevokeByCommand(t, r) PROVE StoreTypeOK'
      BY <1>3, BeginType, Defaults DEF RevokeByCommand, Remove, StoreTypeOK
<1>4. CASE CountRecords(t)
      BY <1>4, FinishType, GotoType DEF CountRecords, Step, StoreTypeOK, fileVars
<1>5. CASE RecordFails(t)
      BY <1>5, FinishType DEF RecordFails, StoreTypeOK, fileVars
<1>6. CASE RecordPeer(t)
  <2>1. task[t].peer \in Peer
        BY DEF StoreTypeOK, Activity
  <2>2. QED
        BY <1>6, <2>1, GotoType DEF RecordPeer, Step, StoreTypeOK
<1>7. CASE VerifySucceeds(t)
  <2>1. ASSUME NEW a \in Address,
               task' = [task EXCEPT ![t].pc = "truncate",
                                    ![t].new = [kind |-> "complete", peer |-> task[t].peer,
                                                address |-> a, auto |-> TRUE]]
        PROVE  task' \in [Thread -> Activity]
    <3> DEFINE new == [kind |-> "complete", peer |-> task[t].peer, address |-> a, auto |-> TRUE]
               act == [task[t] EXCEPT !.pc = "truncate", !.new = new]
    <3>1. task \in [Thread -> Activity] /\ task[t] \in Activity /\ task[t].peer \in Peer
          BY DEF StoreTypeOK, Activity
    <3>2. new \in Settings
          BY <3>1 DEF Settings
    <3>3. act \in Activity
          BY <3>1, <3>2 DEF Activity, Step
    <3>4. task' = [task EXCEPT ![t] = act]
          BY <2>1, <3>1
    <3>5. QED
          BY <3>1, <3>3, <3>4
  <2>2. task' \in [Thread -> Activity]
        BY <1>7, <2>1, FinishType, GotoType DEF VerifySucceeds, PairedByCommand, PairedByTray, Imported, Step
  <2>3. QED
        BY <1>7, <2>2 DEF VerifySucceeds, PairedByCommand, PairedByTray, Imported, StoreTypeOK, fileVars
<1>8. CASE VerifyFails(t)
      BY <1>8, GotoType DEF VerifyFails, Step, StoreTypeOK, fileVars
<1>9. CASE Withdraw(t)
      BY <1>9, FinishType DEF Withdraw, StoreTypeOK
<1>10. QED
      BY <1>1, <1>2, <1>3, <1>4, <1>5, <1>6, <1>7, <1>8, <1>9 DEF Trust

LEMMA SaveTypes ==
    ASSUME StoreTypeOK, NEW t \in Thread, Save(t)
    PROVE  StoreTypeOK'
<1>1. ASSUME NEW s \in Settings, ChooseSettings(t, s) PROVE StoreTypeOK'
  <2>1. [Idle EXCEPT !.pc = "truncate", !.new = s] \in Activity
        BY Defaults DEF Activity, Step
  <2>2. QED
        BY <1>1, <2>1, BeginType DEF ChooseSettings, StoreTypeOK, fileVars
<1>2. CASE TruncateSettings(t)
      BY <1>2, FinishType, GotoType DEF TruncateSettings, Step, StoreTypeOK
<1>3. CASE WriteSettings(t)
  <2>1. settings' \in Settings \cup {Absent, Unreadable}
        BY <1>3 DEF WriteSettings, StoreTypeOK, Activity
  <2>2. QED
        BY <1>3, <2>1, GotoType DEF WriteSettings, FinishWrite, Step, StoreTypeOK
<1>4. CASE WriteFails(t)
      BY <1>4, FinishType DEF WriteFails, StoreTypeOK, fileVars
<1>5. CASE Notify(t)
      BY <1>5, FinishType DEF Notify, StoreTypeOK, fileVars
<1>6. QED
      BY <1>1, <1>2, <1>3, <1>4, <1>5 DEF Save

LEMMA SeeTypes ==
    ASSUME StoreTypeOK, NEW r \in Peer, NEW a \in Address, SeePeer(r, a)
    PROVE  StoreTypeOK'
<1> DEFINE auto == IF Loads(settings) THEN settings.auto ELSE TRUE
           new  == [kind |-> "complete", peer |-> r, address |-> a, auto |-> auto]
<1>1. auto \in BOOLEAN
  <2>1. CASE Loads(settings)
        BY <2>1, Defaults DEF StoreTypeOK, Loads, Settings
  <2>2. QED
        BY <2>1
<1>2. new \in Settings
      BY <1>1 DEF Settings
<1>3. [Idle EXCEPT !.pc = "truncate", !.new = new] \in Activity
      BY <1>2, Defaults DEF Activity, Step
<1>4. Begin(Discovery, [Idle EXCEPT !.pc = "truncate", !.new = new]) /\ UNCHANGED <<fileVars, known, desk, missed>>
      BY DEF SeePeer
<1>5. QED
      BY <1>3, <1>4, BeginType, Constants DEF StoreTypeOK, fileVars

LEMMA TrayTypes ==
    ASSUME StoreTypeOK, TrayStep
    PROVE  StoreTypeOK'
<1>1. CASE StartTray
  <2>1. [Idle EXCEPT !.pc = "open window"] \in Activity
        BY Defaults DEF Activity, Step
  <2>2. QED
        BY <1>1, <2>1, BeginType, RuntimeType, Constants DEF StartTray, StoreTypeOK, fileVars
<1>2. CASE OpenWindow
      BY <1>2, FinishType, Constants DEF OpenWindow, StoreTypeOK, fileVars
<1>3. CASE Reload
      BY <1>3, RuntimeType DEF Reload, StoreTypeOK, fileVars
<1>4. CASE ExitTray
      BY <1>4 DEF ExitTray, Closed, StoreTypeOK, fileVars
<1>5. CASE KillTray
  <2>1. orphans' \subseteq records
        BY <1>5 DEF KillTray, Abandoned, StoreTypeOK
  <2>2. task' \in [Thread -> Activity] /\ known' \in [Thread -> Thread \cup {NoIdentity}]
        BY <1>5, Defaults DEF KillTray, Abandoned, StoreTypeOK
  <2>3. QED
        BY <1>5, <2>1, <2>2 DEF KillTray, Abandoned, Closed, StoreTypeOK
<1>6. QED
      BY <1>1, <1>2, <1>3, <1>4, <1>5 DEF TrayStep

LEMMA KillTypes ==
    ASSUME StoreTypeOK, NEW t \in Command, KillCommand(t)
    PROVE  StoreTypeOK'
<1>1. orphans' \subseteq records
      BY DEF KillCommand, Abandoned, StoreTypeOK
<1>2. task' \in [Thread -> Activity] /\ known' \in [Thread -> Thread \cup {NoIdentity}]
      BY Defaults DEF KillCommand, Abandoned, StoreTypeOK
<1>3. QED
      BY <1>1, <1>2 DEF KillCommand, Abandoned, StoreTypeOK

\* Every step, by the action it belongs to.
LEMMA NextTypes == StoreTypeOK /\ [Next]_vars => StoreTypeOK'
  BY StutterTypes, IdentityTypes, TrustTypes, SaveTypes, SeeTypes, TrayTypes, KillTypes DEF Next

-----------------------------------------------------------------------------
(* One identity. *)

LEMMA IdentityStep == StoreTypeOK /\ OneIdentity /\ [Next]_vars => OneIdentity'
<1> SUFFICES ASSUME StoreTypeOK, OneIdentity, [Next]_vars PROVE OneIdentity'
    OBVIOUS
<1>1. ASSUME NEW t \in Thread, FindIdentity(t) PROVE OneIdentity'
      BY <1>1 DEF FindIdentity, fileVars, OneIdentity, StoreTypeOK
<1>2. ASSUME NEW t \in Thread, CreateIdentity(t) PROVE OneIdentity'
      BY <1>2 DEF CreateIdentity, LinkIdentity, OneIdentity, StoreTypeOK
<1>3. ASSUME NEW t \in Thread, Trust(t) PROVE OneIdentity'
  <2>1. UNCHANGED <<identity, known>>
        BY <1>3 DEF Trust, StartTrust, RevokeInWizard, RevokeByCommand, CountRecords, RecordFails,
                    RecordPeer, VerifySucceeds, PairedByCommand, PairedByTray, Imported, VerifyFails,
                    Withdraw, fileVars
  <2>2. QED
        BY <2>1 DEF OneIdentity
<1>4. ASSUME NEW t \in Thread, Save(t) PROVE OneIdentity'
  <2>1. UNCHANGED <<identity, known>>
        BY <1>4 DEF Save, ChooseSettings, TruncateSettings, WriteSettings, WriteFails, Notify,
                    fileVars
  <2>2. QED
        BY <2>1 DEF OneIdentity
<1>5. ASSUME NEW t \in Command, KillCommand(t) PROVE OneIdentity'
      BY <1>5 DEF KillCommand, Abandoned, OneIdentity
<1>6. ASSUME NEW r \in Peer, NEW a \in Address, SeePeer(r, a) PROVE OneIdentity'
      BY <1>6 DEF SeePeer, fileVars, OneIdentity
<1>7. CASE TrayStep
      BY <1>7 DEF TrayStep, StartTray, OpenWindow, Reload, ExitTray, KillTray, Abandoned, fileVars,
                  OneIdentity, StoreTypeOK
<1>8. CASE UNCHANGED vars
      BY <1>8 DEF vars, fileVars, OneIdentity
<1>9. QED
      BY <1>1, <1>2, <1>3, <1>4, <1>5, <1>6, <1>7, <1>8 DEF Next

-----------------------------------------------------------------------------
(* The limit. *)

LEMMA RecordsAreFinite == StoreTypeOK => IsFiniteSet(records)
  BY RegistryAssumption, FS_Subset DEF RegistryAssumption, StoreTypeOK

\* Fewer settled records, or no more records than the limit.
LEMMA FewerSettled ==
    ASSUME StoreTypeOK, TrustLimitHolds,
           (records \ Unsettled)' \subseteq records \ Unsettled
    PROVE  TrustLimitHolds'
<1>1. IsFiniteSet(records \ Unsettled)
      BY RecordsAreFinite, FS_Subset
<1>2. /\ Cardinality((records \ Unsettled)') <= Cardinality(records \ Unsettled)
      /\ IsFiniteSet((records \ Unsettled)')
      BY <1>1, FS_Subset
<1>3. Cardinality(records \ Unsettled) \in Nat /\ Cardinality((records \ Unsettled)') \in Nat
      BY <1>1, <1>2, FS_CardinalityType
<1>4. QED
      BY <1>2, <1>3, RegistryAssumption DEF TrustLimitHolds, RegistryAssumption

LEMMA FewRecords ==
    ASSUME StoreTypeOK, Verifies, UNCHANGED records
    PROVE  TrustLimitHolds'
<1>1. records' \ Unsettled' \subseteq records
      OBVIOUS
<1>2. /\ IsFiniteSet(records) /\ IsFiniteSet(records' \ Unsettled')
      /\ Cardinality(records' \ Unsettled') <= Cardinality(records)
      BY <1>1, RecordsAreFinite, FS_Subset
<1>3. Cardinality(records) \in Nat /\ Cardinality(records' \ Unsettled') \in Nat
      BY <1>2, FS_CardinalityType
<1>4. QED
      BY <1>2, <1>3, RegistryAssumption DEF TrustLimitHolds, Verifies, RegistryAssumption

\* A step that neither adds a record nor lets an unsettled one be forgotten.
LEMMA QuietStep ==
    ASSUME StoreTypeOK, TrustLimitHolds, records' \subseteq records,
           \A r \in orphans : r \in orphans' \/ r \notin records',
           \A t \in Thread : task[t].pc \in {"verify", "withdraw"} =>
               task'[t].pc \in {"verify", "withdraw"} /\ task'[t].peer = task[t].peer
    PROVE  TrustLimitHolds'
  BY FewerSettled DEF Unsettled

LEMMA LimitStep == StoreTypeOK /\ TrustLimitHolds /\ [Next]_vars => TrustLimitHolds'
<1> SUFFICES ASSUME StoreTypeOK, TrustLimitHolds, [Next]_vars PROVE TrustLimitHolds'
    OBVIOUS
<1>0. task \in [Thread -> Activity] /\ records \subseteq Peer /\ orphans \subseteq records
      BY DEF StoreTypeOK
<1>1. ASSUME NEW t \in Thread, FindIdentity(t) \/ CreateIdentity(t) PROVE TrustLimitHolds'
      BY <1>0, <1>1, QuietStep DEF FindIdentity, CreateIdentity, Begin, Finish, fileVars
<1>2. ASSUME NEW t \in Thread, NEW r \in Peer,
             StartTrust(t, r) \/ RevokeInWizard(t, r) \/ RevokeByCommand(t, r)
      PROVE  TrustLimitHolds'
      BY <1>0, <1>2, QuietStep DEF StartTrust, RevokeInWizard, RevokeByCommand, Begin, Remove, fileVars
<1>3. ASSUME NEW t \in Thread, CountRecords(t) \/ RecordFails(t) PROVE TrustLimitHolds'
      BY <1>0, <1>3, QuietStep DEF CountRecords, RecordFails, Goto, Finish, fileVars
<1>4. ASSUME NEW t \in Thread, RecordPeer(t) PROVE TrustLimitHolds'
  <2>1. task'[t].pc = "verify" /\ task'[t].peer = task[t].peer
        BY <1>0, <1>4 DEF RecordPeer, Goto, Activity
  <2>2. \A u \in Thread \ {t} : task'[u] = task[u]
        BY <1>0, <1>4 DEF RecordPeer, Goto
  <2>3. records' = records \cup {task[t].peer} /\ UNCHANGED orphans /\ task[t].pc = "record"
        BY <1>4 DEF RecordPeer
  <2>4. Unsettled' = Unsettled \cup {task[t].peer}
        BY <2>1, <2>2, <2>3 DEF Unsettled
  <2>5. QED
        BY <2>3, <2>4, FewerSettled
<1>5. ASSUME NEW t \in Thread, VerifySucceeds(t) PROVE TrustLimitHolds'
      BY <1>5, FewRecords DEF VerifySucceeds, PairedByCommand, PairedByTray, Imported, fileVars
<1>6. ASSUME NEW t \in Thread, VerifyFails(t) PROVE TrustLimitHolds'
      BY <1>0, <1>6, QuietStep DEF VerifyFails, Goto, Activity, fileVars
<1>7. ASSUME NEW t \in Thread, Withdraw(t) PROVE TrustLimitHolds'
  <2>1. \A u \in Thread \ {t} : task'[u] = task[u]
        BY <1>0, <1>7 DEF Withdraw, Finish
  <2>2. \A r \in records' : r \in records /\ (r \in Unsettled => r \in Unsettled')
        BY <1>0, <1>7, <2>1 DEF Withdraw, Unsettled
  <2>3. QED
        BY <2>2, FewerSettled
<1>8. ASSUME NEW t \in Thread, Save(t) PROVE TrustLimitHolds'
      BY <1>0, <1>8, QuietStep DEF Save, ChooseSettings, TruncateSettings, WriteSettings, FinishWrite,
                                   WriteFails, Notify, Begin, Goto, Finish, fileVars
<1>9. ASSUME NEW T \in SUBSET Thread, Abandoned(T), UNCHANGED records PROVE TrustLimitHolds'
  <2>1. \A u \in Thread : u \notin T => task'[u] = task[u]
        BY <1>9 DEF Abandoned
  <2>2. \A r \in records : r \in Unsettled => r \in Unsettled'
        BY <1>9, <2>1 DEF Abandoned, Unsettled
  <2>3. QED
        BY <1>9, <2>2, FewerSettled
<1>10. ASSUME NEW t \in Command, KillCommand(t) PROVE TrustLimitHolds'
       BY <1>9, <1>10, Constants DEF KillCommand
<1>11. ASSUME NEW r \in Peer, NEW a \in Address, SeePeer(r, a) PROVE TrustLimitHolds'
       BY <1>0, <1>11, QuietStep DEF SeePeer, Begin, fileVars
<1>12. CASE TrayStep
       BY <1>0, <1>9, <1>12, QuietStep, Constants
          DEF TrayStep, StartTray, OpenWindow, Reload, ExitTray, KillTray, Begin, Finish, fileVars
<1>13. CASE UNCHANGED vars
       BY <1>13, QuietStep DEF vars, fileVars
<1>14. QED
       BY <1>1, <1>2, <1>3, <1>4, <1>5, <1>6, <1>7, <1>8, <1>10, <1>11, <1>12, <1>13
          DEF Next, Trust

-----------------------------------------------------------------------------
(* The tray. *)

\* TrayFollowsTheStore, whether there is a window or not.
Followed ==
    (/\ ~desk.reload /\ ~missed
     /\ \A t \in Thread : task[t].pc \notin Changing
     /\ desk.runtime # Absent)
        => desk.runtime = settings /\ settings.peer \in records

\* Nothing the runtime depends on changes, and nobody who has changed something
\* is done.
LEMMA FollowedFrame ==
    ASSUME Followed, UNCHANGED <<settings, missed>>, records \subseteq records',
           desk'.reload = desk.reload, desk'.runtime = desk.runtime,
           \A t \in Thread : task[t].pc \in Changing => task'[t].pc \in Changing
    PROVE  Followed'
  BY DEF Followed

\* Somebody has changed something and not told yet.
LEMMA ChangeStep ==
    ASSUME NEW t \in Thread, task'[t].pc \in Changing
    PROVE  Followed'
  BY DEF Followed

LEMMA RuntimeStep ==
    ASSUME StoreTypeOK, NEW w \in BOOLEAN, StartRuntime(FALSE, w), UNCHANGED <<settings, records>>
    PROVE  Followed'
<1>1. PICK r \in {Loaded, Absent} : desk' = [window |-> w, runtime |-> r, reload |-> FALSE]
      BY DEF StartRuntime
<1>2. CASE r = Absent
      BY <1>1, <1>2 DEF Followed
<1>3. CASE r = Loaded
      BY <1>1, <1>3 DEF Followed, Loaded, Loads
<1>4. QED
      BY <1>1, <1>2, <1>3

LEMMA FollowedStep == StoreTypeOK /\ Followed /\ [Next]_vars => Followed'
<1> SUFFICES ASSUME StoreTypeOK, Followed, [Next]_vars PROVE Followed'
    OBVIOUS
<1>0. task \in [Thread -> Activity]
      BY DEF StoreTypeOK
<1>1. ASSUME NEW t \in Thread, FindIdentity(t) \/ CreateIdentity(t) PROVE Followed'
      BY <1>0, <1>1, FollowedFrame DEF FindIdentity, CreateIdentity, Begin, Finish, Changing, fileVars
<1>2. ASSUME NEW t \in Thread, NEW r \in Peer, StartTrust(t, r) PROVE Followed'
      BY <1>0, <1>2, FollowedFrame DEF StartTrust, Begin, Changing, fileVars
<1>3. ASSUME NEW t \in Thread, NEW r \in Peer, RevokeInWizard(t, r) PROVE Followed'
      BY <1>0, <1>3, ChangeStep DEF RevokeInWizard, Begin, Changing, Idle
<1>4. ASSUME NEW t \in Thread, NEW r \in Peer, RevokeByCommand(t, r) PROVE Followed'
      BY <1>4 DEF RevokeByCommand, Followed
<1>5. ASSUME NEW t \in Thread, CountRecords(t) \/ RecordFails(t) \/ RecordPeer(t) PROVE Followed'
      BY <1>0, <1>5, FollowedFrame DEF CountRecords, RecordFails, RecordPeer, Goto, Finish, Changing,
                                       fileVars
<1>6. ASSUME NEW t \in Thread, VerifySucceeds(t) PROVE Followed'
  <2>1. task[t].pc \notin Changing
        BY <1>6 DEF VerifySucceeds, PairedByCommand, PairedByTray, Imported, Changing
  <2>2. \A u \in Thread \ {t} : task'[u] = task[u]
        BY <1>0, <1>6 DEF VerifySucceeds, PairedByCommand, PairedByTray, Imported, Goto, Finish
  <2>3. QED
        BY <1>6, <2>1, <2>2, FollowedFrame DEF VerifySucceeds, PairedByCommand, PairedByTray, Imported, fileVars
<1>7. ASSUME NEW t \in Thread, VerifyFails(t) PROVE Followed'
      BY <1>0, <1>7, ChangeStep DEF VerifyFails, Goto, Activity, Changing
<1>8. ASSUME NEW t \in Thread, Withdraw(t) \/ WriteFails(t) PROVE Followed'
      BY <1>8 DEF Withdraw, WriteFails, Followed
<1>9. ASSUME NEW t \in Thread, NEW s \in Settings, ChooseSettings(t, s) PROVE Followed'
      BY <1>0, <1>9, FollowedFrame DEF ChooseSettings, Begin, Changing, fileVars
<1>10. ASSUME NEW t \in Thread, TruncateSettings(t) PROVE Followed'
  <2>1. CASE task[t].new.peer \in records
        BY <1>0, <1>10, <2>1, ChangeStep DEF TruncateSettings, Goto, Activity, Changing
  <2>2. CASE task[t].new.peer \notin records
        BY <1>0, <1>10, <2>2, FollowedFrame DEF TruncateSettings, Finish, Changing
  <2>3. QED
        BY <2>1, <2>2
<1>11. ASSUME NEW t \in Thread, WriteSettings(t) PROVE Followed'
       BY <1>0, <1>11, ChangeStep DEF WriteSettings, FinishWrite, Goto, Activity, Changing
<1>12. ASSUME NEW t \in Thread, Notify(t) PROVE Followed'
       BY <1>12 DEF Notify, Followed, StoreTypeOK
<1>13. ASSUME NEW t \in Command, KillCommand(t) PROVE Followed'
  <2>1. CASE task[t].pc \in {"write", "notify", "withdraw"}
        BY <1>13, <2>1 DEF KillCommand, Abandoned, Followed
  <2>2. CASE task[t].pc \notin {"write", "notify", "withdraw"}
    <3>1. UNCHANGED <<missed, settings, records, desk>>
          BY <1>13, <2>2 DEF KillCommand, Abandoned, StoreTypeOK
    <3>2. \A u \in Thread : task[u].pc \in Changing => task'[u].pc \in Changing
          BY <1>13, <2>2 DEF KillCommand, Abandoned, Changing
    <3>3. QED
          BY <3>1, <3>2, FollowedFrame
  <2>3. QED
        BY <2>1, <2>2
<1>14. ASSUME NEW r \in Peer, NEW a \in Address, SeePeer(r, a) PROVE Followed'
       BY <1>0, <1>14, FollowedFrame, Constants DEF SeePeer, Begin, Changing, fileVars
<1>15. CASE StartTray \/ Reload
       BY <1>15, RuntimeStep DEF StartTray, Reload, fileVars
<1>16. CASE OpenWindow
       BY <1>0, <1>16, FollowedFrame, Constants DEF OpenWindow, Finish, Changing, fileVars, StoreTypeOK
<1>17. CASE ExitTray \/ KillTray
       BY <1>17 DEF ExitTray, KillTray, Closed, Followed
<1>18. CASE UNCHANGED vars
       BY <1>18, FollowedFrame DEF vars, fileVars
<1>19. QED
       BY <1>1, <1>2, <1>3, <1>4, <1>5, <1>6, <1>7, <1>8, <1>9, <1>10, <1>11, <1>12, <1>13, <1>14,
          <1>15, <1>16, <1>17, <1>18 DEF Next, Trust, Save, TrayStep

-----------------------------------------------------------------------------
(* The theorems. *)

LEMMA InitLimit == Init => TrustLimitHolds
<1> SUFFICES ASSUME Init PROVE TrustLimitHolds
    OBVIOUS
<1>1. records \ Unsettled = {}
      BY DEF Init
<1>2. QED
      BY <1>1, FS_EmptySet, RegistryAssumption DEF TrustLimitHolds, RegistryAssumption

\* The inductive invariant.
RegistryInv == StoreTypeOK /\ TrustLimitHolds /\ OneIdentity /\ Followed

LEMMA InvHolds == Spec => []RegistryInv
<1>1. Init => RegistryInv
      BY InitTypes, InitLimit DEF RegistryInv, OneIdentity, Followed, Init, Closed
<1>2. RegistryInv /\ [Next]_vars => RegistryInv'
      BY NextTypes, LimitStep, IdentityStep, FollowedStep DEF RegistryInv
<1>3. QED
      BY <1>1, <1>2, PTL DEF Spec

\* The files, the threads and the tray have their types, whatever programs trust,
\* revoke, save and die.
THEOREM StoreIsBounded == Spec => []TypeOK
<1>1. RegistryInv => TypeOK
      BY DEF RegistryInv, TypeOK
<1>2. QED
      BY <1>1, InvHolds, PTL

\* Concurrent calls of trust_peer never report more peers as trusted than
\* TRUSTED_PEER_LIMIT, for any number of programs and any limit.
THEOREM TrustIsBounded == Spec => []TrustLimitHolds
<1>1. RegistryInv => TrustLimitHolds
      BY DEF RegistryInv
<1>2. QED
      BY <1>1, InvHolds, PTL

\* However many programs create the identity, all use the one in the file.
THEOREM IdentityIsUnique == Spec => []OneIdentity
<1>1. RegistryInv => OneIdentity
      BY DEF RegistryInv
<1>2. QED
      BY <1>1, InvHolds, PTL

\* A tray that was told of all changes runs with the settings in the file.
THEOREM TrayIsCurrent == Spec => []TrayFollowsTheStore
<1>1. RegistryInv => TrayFollowsTheStore
      BY DEF RegistryInv, Followed, TrayFollowsTheStore
<1>2. QED
      BY <1>1, InvHolds, PTL

\* The identity in the file is never replaced or removed.
THEOREM IdentityIsKept == Spec => [][identity # NoIdentity => identity' = identity]_identity
<1>1. [Next]_vars => [identity # NoIdentity => identity' = identity]_identity
  <2> SUFFICES ASSUME [Next]_vars, identity # NoIdentity PROVE identity' = identity
      OBVIOUS
  <2>1. ASSUME NEW t \in Thread, Trust(t) PROVE identity' = identity
        BY <2>1 DEF Trust, StartTrust, RevokeInWizard, RevokeByCommand, CountRecords, RecordFails,
                    RecordPeer, VerifySucceeds, PairedByCommand, PairedByTray, Imported, VerifyFails,
                    Withdraw, fileVars
  <2>2. ASSUME NEW t \in Thread, Save(t) PROVE identity' = identity
        BY <2>2 DEF Save, ChooseSettings, TruncateSettings, WriteSettings, WriteFails, Notify, fileVars
  <2>3. ASSUME NEW t \in Thread, FindIdentity(t) \/ CreateIdentity(t) PROVE identity' = identity
        BY <2>3 DEF FindIdentity, CreateIdentity, LinkIdentity, fileVars
  <2>4. CASE TrayStep
        BY <2>4 DEF TrayStep, StartTray, OpenWindow, Reload, ExitTray, KillTray, fileVars
  <2>5. QED
        BY <2>1, <2>2, <2>3, <2>4 DEF Next, KillCommand, SeePeer, vars, fileVars
<1>2. QED
      BY <1>1, PTL DEF Spec

-----------------------------------------------------------------------------
(* The pairing of two machines. *)

PairStep == {"listening", "idle", "connect", "proven", "failed", "ask", "decide", "confirm"}
Decision == {"nothing", "yes", "no"}

\* A thread with a connection.
Connected == {"proven", "failed", "ask", "decide", "confirm"}

TypesOK ==
    /\ session \in [Pairs!Session -> [sent : [Machine -> Decision], asked : [Machine -> Decision]]]
    /\ made \in 0 .. MaxSessions
    /\ busy \in [Machine -> BOOLEAN] /\ seen \in [Machine -> BOOLEAN]
    /\ trusted \in [Machine -> 0 .. made]
    /\ thread \in [Machine -> [Pairs!Role -> [pc : PairStep, session : 0 .. made, owner : BOOLEAN,
                                              answer : BOOLEAN]]]

\* The thread of a machine that may ask has taken busy, and there is one at most.
BusyOK ==
    \A m \in Machine :
        /\ \A role \in Pairs!Role :
              /\ thread[m][role].owner => busy[m]
              /\ thread[m][role].pc = "ask" => thread[m][role].owner
        /\ ~(thread[m]["listener"].owner /\ thread[m]["connector"].owner)
        /\ thread[m]["connector"].pc # "idle" => thread[m]["connector"].owner
        /\ thread[m]["listener"].pc \in {"listening", "proven", "failed"}
              => ~thread[m]["listener"].owner

\* The connections of the threads.
ConnectionsOK ==
    \A m \in Machine :
        /\ \A role \in Pairs!Role : thread[m][role].pc \in Connected => thread[m][role].session # 0
        /\ (/\ thread[m]["listener"].pc \in Connected /\ thread[m]["connector"].pc \in Connected)
              => thread[m]["listener"].session # thread[m]["connector"].session

\* What was decided on a connection.
DecisionsOK ==
    /\ \A n \in Pairs!Session, m \in Machine :
          /\ n > made => session[n].asked[m] = "nothing" /\ session[n].sent[m] = "nothing"
          /\ session[n].sent[m] = "yes" => session[n].asked[m] = "yes"
    /\ \A m \in Machine, role \in Pairs!Role :
          LET th == thread[m][role] IN
          /\ th.pc \in {"proven", "failed", "ask"} => session[th.session].asked[m] = "nothing"
          /\ th.pc \notin {"decide", "confirm"} => ~th.answer
          /\ th.pc \in {"decide", "confirm"} /\ th.answer => session[th.session].asked[m] = "yes"

PairingInv == TypesOK /\ BusyOK /\ ConnectionsOK /\ DecisionsOK /\ TrustNeedsBothApprovals

-----------------------------------------------------------------------------

\* What DecisionsOK says of a thread t whose user was asked what asked says.
ThreadDecision(t, asked) ==
    /\ t.pc \in {"proven", "failed", "ask"} => asked = "nothing"
    /\ t.pc \notin {"decide", "confirm"} => ~t.answer
    /\ t.pc \in {"decide", "confirm"} /\ t.answer => asked = "yes"

LEMMA DecidedThreads ==
    ASSUME DecisionsOK, NEW m \in Machine, NEW role \in Pairs!Role
    PROVE  ThreadDecision(thread[m][role], session[thread[m][role].session].asked[m])
  BY DEF DecisionsOK, ThreadDecision

LEMMA SameDecision ==
    ASSUME NEW t, NEW a, NEW b, ThreadDecision(t, a), t.pc \in Connected => a = b
    PROVE  ThreadDecision(t, b)
  BY DEF ThreadDecision, Connected

LEMMA OtherMachine ==
    ASSUME Pairs!PairingAssumption, NEW m \in Machine
    PROVE  Pairs!Other(m) \in Machine /\ Pairs!Other(m) # m /\ \A o \in Machine : o = m \/ o = Pairs!Other(m)
  BY DEF Pairs!PairingAssumption, Pairs!Other

LEMMA Roles == Pairs!Role = {"listener", "connector"} /\ "listener" \in Pairs!Role /\ "connector" \in Pairs!Role
  BY DEF Pairs!Role

LEMMA Initially == Pairs!PairingAssumption /\ Pairs!Init => PairingInv
<1> SUFFICES ASSUME Pairs!PairingAssumption, Pairs!Init PROVE PairingInv
    OBVIOUS
<1>1. TypesOK
      BY DEF Pairs!Init, TypesOK, Pairs!PairingAssumption, Decision, Pairs!IdleThread, PairStep
<1>2. BusyOK /\ ConnectionsOK /\ DecisionsOK /\ TrustNeedsBothApprovals
      BY Roles DEF Pairs!Init, BusyOK, ConnectionsOK, DecisionsOK, TrustNeedsBothApprovals,
                   Pairs!IdleThread, Connected
<1>3. QED
      BY <1>1, <1>2 DEF PairingInv

-----------------------------------------------------------------------------
(* Changing one thread. *)

Records(S) == [pc : PairStep, session : S, owner : BOOLEAN, answer : BOOLEAN]

LEMMA PcChange ==
    ASSUME NEW S, NEW x \in Records(S), NEW p \in PairStep
    PROVE  LET y == [x EXCEPT !.pc = p] IN
           /\ y \in Records(S) /\ y.pc = p /\ y.session = x.session
           /\ y.owner = x.owner /\ y.answer = x.answer
  BY DEF Records

LEMMA SessionChange ==
    ASSUME NEW S, NEW T, S \subseteq T, NEW x \in Records(S), NEW n \in T
    PROVE  LET y == [x EXCEPT !.session = n] IN
           /\ y \in Records(T) /\ y.session = n /\ y.pc = x.pc
           /\ y.owner = x.owner /\ y.answer = x.answer
  BY DEF Records

LEMMA OwnerChange ==
    ASSUME NEW S, NEW x \in Records(S), NEW w \in BOOLEAN
    PROVE  LET y == [x EXCEPT !.owner = w] IN
           /\ y \in Records(S) /\ y.owner = w /\ y.pc = x.pc /\ y.session = x.session
           /\ y.answer = x.answer
  BY DEF Records

LEMMA AnswerChange ==
    ASSUME NEW S, NEW x \in Records(S), NEW w \in BOOLEAN
    PROVE  LET y == [x EXCEPT !.answer = w] IN
           /\ y \in Records(S) /\ y.answer = w /\ y.pc = x.pc /\ y.session = x.session
           /\ y.owner = x.owner
  BY DEF Records

ThreadRecord == Records(0 .. made)

LEMMA NestedChange ==
    ASSUME NEW D, NEW E, NEW S, NEW f \in [D -> [E -> S]], NEW a \in D, NEW b \in E, NEW v \in S,
           NEW h, h = [f EXCEPT ![a][b] = v]
    PROVE  /\ h \in [D -> [E -> S]]
           /\ h[a][b] = v
           /\ \A x \in D, y \in E : x # a \/ y # b => h[x][y] = f[x][y]
<1> DEFINE row == [f[a] EXCEPT ![b] = v]
<1>1. f[a] \in [E -> S]
      OBVIOUS
<1>2. row \in [E -> S] /\ row[b] = v /\ \A y \in E : y # b => row[y] = f[a][y]
      BY <1>1
<1>3. h = [f EXCEPT ![a] = row]
      OBVIOUS
<1> HIDE DEF row
<1>4. h \in [D -> [E -> S]] /\ h[a] = row /\ \A x \in D : x # a => h[x] = f[x]
      BY ONLY <1>2, <1>3, f \in [D -> [E -> S]], a \in D
<1>5. QED
      BY ONLY <1>2, <1>4

ThreadBecomes(m, role, g) == thread' = [thread EXCEPT ![m][role] = g]

LEMMA ThreadChange ==
    ASSUME TypesOK, NEW m \in Machine, NEW role \in Pairs!Role, NEW g \in ThreadRecord,
           ThreadBecomes(m, role, g), UNCHANGED made
    PROVE  /\ thread' \in [Machine -> [Pairs!Role -> ThreadRecord']]
           /\ thread'[m][role] = g
           /\ \A x \in Machine, y \in Pairs!Role : x # m \/ y # role => thread'[x][y] = thread[x][y]
<1>1. thread \in [Machine -> [Pairs!Role -> ThreadRecord]]
      BY DEF TypesOK, ThreadRecord, Records
<1>2. ThreadRecord' = ThreadRecord
      BY DEF ThreadRecord, Records
<1>3. /\ thread' \in [Machine -> [Pairs!Role -> ThreadRecord]]
      /\ thread'[m][role] = g
      /\ \A x \in Machine, y \in Pairs!Role : x # m \/ y # role => thread'[x][y] = thread[x][y]
      BY ONLY <1>1, NestedChange, m \in Machine, role \in Pairs!Role, g \in ThreadRecord,
              ThreadBecomes(m, role, g) DEF ThreadBecomes
<1>4. QED
      BY <1>2, <1>3

LEMMA ThreadIsRecord ==
    ASSUME TypesOK, NEW m \in Machine, NEW role \in Pairs!Role
    PROVE  thread[m][role] \in ThreadRecord
  BY DEF TypesOK, ThreadRecord, Records

LEMMA ConnectedSession ==
    ASSUME Pairs!PairingAssumption, TypesOK, ConnectionsOK, NEW m \in Machine, NEW role \in Pairs!Role,
           thread[m][role].pc \in Connected
    PROVE  thread[m][role].session \in Pairs!Session /\ thread[m][role].session \in 1 .. made
<1>1. thread[m][role].session # 0
      BY DEF ConnectionsOK
<1>2. thread[m][role].session \in 0 .. made /\ made \in 0 .. MaxSessions /\ MaxSessions \in Nat
      BY DEF TypesOK, Pairs!PairingAssumption
<1>3. QED
      BY ONLY <1>1, <1>2 DEF Pairs!Session

\* A thread that ends leaves nothing of what the parts speak about.
LEMMA EndStep ==
    ASSUME Pairs!PairingAssumption, PairingInv, NEW m \in Machine, NEW role \in Pairs!Role, Pairs!EndThread(m, role),
           UNCHANGED <<session, made, seen>>, trusted' \in [Machine -> 0 .. made],
           TrustNeedsBothApprovals'
    PROVE  PairingInv'
<1> USE Roles
<1> DEFINE th == thread[m][role]
<1>1. /\ TypesOK /\ BusyOK /\ ConnectionsOK /\ DecisionsOK /\ th \in ThreadRecord
      /\ busy \in [Machine -> BOOLEAN]
      BY DEF PairingInv, TypesOK, ThreadRecord, Records
<1>2. Pairs!IdleThread(role) \in ThreadRecord
      BY <1>1 DEF Pairs!IdleThread, ThreadRecord, Records, PairStep, TypesOK
<1>3. /\ thread' \in [Machine -> [Pairs!Role -> ThreadRecord']]
      /\ thread'[m][role] = Pairs!IdleThread(role)
      /\ \A x \in Machine, y \in Pairs!Role : x # m \/ y # role => thread'[x][y] = thread[x][y]
  <2> DEFINE g == Pairs!IdleThread(role)
  <2>1. ThreadBecomes(m, role, g)
        BY DEF Pairs!EndThread, ThreadBecomes
  <2>2. TypesOK /\ g \in ThreadRecord
        BY <1>1, <1>2
  <2> HIDE DEF g
  <2>3. /\ thread' \in [Machine -> [Pairs!Role -> ThreadRecord']]
        /\ thread'[m][role] = g
        /\ \A x \in Machine, y \in Pairs!Role : x # m \/ y # role => thread'[x][y] = thread[x][y]
        BY ONLY <2>1, <2>2, ThreadChange, m \in Machine, role \in Pairs!Role, UNCHANGED made
  <2>4. QED
        BY ONLY <2>3 DEF g
<1>4. /\ busy' \in [Machine -> BOOLEAN]
      /\ busy'[m] = (busy[m] /\ ~th.owner)
      /\ \A x \in Machine \ {m} : busy'[x] = busy[x]
      BY <1>1 DEF Pairs!EndThread, ThreadRecord, Records
<1>5. /\ ~Pairs!IdleThread(role).owner /\ ~Pairs!IdleThread(role).answer
      /\ Pairs!IdleThread(role).pc \in {"listening", "idle"}
      /\ role = "connector" => Pairs!IdleThread(role).pc = "idle"
      BY DEF Pairs!IdleThread
<1>6. TypesOK'
      BY <1>1, <1>3, <1>4 DEF TypesOK, ThreadRecord, Records
<1>7. BusyOK'
      BY <1>1, <1>3, <1>4, <1>5 DEF BusyOK
<1>8. ConnectionsOK'
      BY <1>1, <1>3, <1>5 DEF ConnectionsOK, Connected
<1>9. DecisionsOK'
      BY <1>1, <1>3, <1>5 DEF DecisionsOK
<1>10. QED
       BY <1>6, <1>7, <1>8, <1>9 DEF PairingInv

\* A thread becomes g: it goes on with its connection, and as the owner of
\* busy if it was.
Continues(m, role, g) ==
    /\ ThreadBecomes(m, role, g)
    /\ thread[m][role].pc \in Connected /\ g.pc \in {"ask", "decide", "confirm"}
    /\ g.session = thread[m][role].session
    /\ thread[m][role].owner => g.owner
    /\ g.owner /\ ~thread[m][role].owner => ~busy[m]
    /\ g.pc = "ask" => g.owner
    /\ g.owner \/ busy[m] => busy'[m]
    /\ \A x \in Machine \ {m} : busy'[x] = busy[x]

SharedTypesOK ==
    /\ busy' \in [Machine -> BOOLEAN]
    /\ session' \in [Pairs!Session -> [sent : [Machine -> Decision], asked : [Machine -> Decision]]]

LEMMA ThreadStep ==
    ASSUME Pairs!PairingAssumption, PairingInv, NEW m \in Machine, NEW role \in Pairs!Role, NEW g \in ThreadRecord,
           Continues(m, role, g), SharedTypesOK,
           UNCHANGED <<made, seen, trusted>>,
           DecisionsOK', TrustNeedsBothApprovals'
    PROVE  PairingInv'
<1> USE Roles
<1>1. TypesOK /\ BusyOK /\ ConnectionsOK
      BY DEF PairingInv
<1>2. /\ thread' \in [Machine -> [Pairs!Role -> ThreadRecord']]
      /\ thread'[m][role] = g
      /\ \A x \in Machine, y \in Pairs!Role : x # m \/ y # role => thread'[x][y] = thread[x][y]
      BY <1>1, ThreadChange DEF Continues
<1>a. /\ made' \in 0 .. MaxSessions /\ made' = made
      /\ seen' \in [Machine -> BOOLEAN]
      /\ trusted' \in [Machine -> 0 .. made']
      BY <1>1 DEF TypesOK
<1>3. TypesOK'
      BY <1>a, <1>2 DEF TypesOK, ThreadRecord, Records, SharedTypesOK
<1>4. BusyOK'
      BY <1>1, <1>2 DEF BusyOK, Connected, Continues
<1>5. ConnectionsOK'
      BY <1>1, <1>2 DEF ConnectionsOK, Connected, Continues
<1>6. QED
      BY <1>3, <1>4, <1>5 DEF PairingInv

\* The parts that do not depend on threads and connections.
LEMMA TrustUnchanged ==
    ASSUME TrustNeedsBothApprovals, UNCHANGED <<session, trusted>>
    PROVE  TrustNeedsBothApprovals'
  BY DEF TrustNeedsBothApprovals

-----------------------------------------------------------------------------
(* Starting. *)

LEMMA StartPairingKeeps ==
    ASSUME Pairs!PairingAssumption, PairingInv, NEW m \in Machine, Pairs!StartPairing(m) PROVE PairingInv'
<1> USE Roles
<1> DEFINE th == thread[m]["connector"]
           g  == [[th EXCEPT !.pc = "connect"] EXCEPT !.owner = TRUE]
<1>1. /\ TypesOK /\ BusyOK /\ ConnectionsOK /\ DecisionsOK /\ TrustNeedsBothApprovals
      /\ th \in ThreadRecord /\ th.pc = "idle" /\ ~busy[m]
      /\ busy' = [busy EXCEPT ![m] = TRUE]
      /\ UNCHANGED <<session, made, trusted, seen>>
      BY DEF PairingInv, TypesOK, ThreadRecord, Records, Pairs!StartPairing
<1>2. /\ busy' \in [Machine -> BOOLEAN] /\ busy'[m]
      /\ \A x \in Machine \ {m} : busy'[x] = busy[x]
      BY <1>1 DEF TypesOK
<1>3. CASE UNCHANGED thread
  <2>1. TypesOK'
        BY <1>1, <1>2, <1>3 DEF TypesOK
  <2>2. BusyOK'
        BY <1>1, <1>2, <1>3 DEF BusyOK
  <2>3. ConnectionsOK' /\ DecisionsOK'
        BY <1>1, <1>3 DEF ConnectionsOK, DecisionsOK
  <2>4. QED
        BY <1>1, <2>1, <2>2, <2>3, TrustUnchanged DEF PairingInv
<1>4. CASE thread' = [thread EXCEPT ![m]["connector"].pc = "connect",
                                    ![m]["connector"].owner = TRUE]
  <2>1. "connect" \in PairStep /\ TRUE \in BOOLEAN
        BY DEF PairStep
  <2> DEFINE f == [th EXCEPT !.pc = "connect"]
  <2>2. f \in ThreadRecord /\ f.pc = "connect" /\ f.answer = th.answer /\ f.session = th.session
        BY <1>1, <2>1, PcChange DEF ThreadRecord
  <2>3. g \in ThreadRecord /\ g.pc = "connect" /\ g.owner = TRUE /\ g.answer = th.answer
    <3>1. g = [f EXCEPT !.owner = TRUE]
          OBVIOUS
    <3> HIDE DEF f, g
    <3>2. QED
          BY ONLY <2>1, <2>2, <3>1, OwnerChange DEF ThreadRecord
  <2>4. ThreadBecomes(m, "connector", g)
    <3>1. thread \in [Machine -> [Pairs!Role -> ThreadRecord]]
          BY <1>1 DEF TypesOK, ThreadRecord, Records
    <3>2. QED
          BY ONLY <1>4, <3>1, m \in Machine, "connector" \in Pairs!Role DEF ThreadBecomes
  <2>5. /\ thread' \in [Machine -> [Pairs!Role -> ThreadRecord']]
        /\ thread'[m]["connector"] = g
        /\ \A x \in Machine, y \in Pairs!Role : x # m \/ y # "connector" => thread'[x][y] = thread[x][y]
        BY <1>1, <2>3, <2>4, ThreadChange
  <2> HIDE DEF g
  <2>6. g.pc = "connect" /\ g.owner /\ g.answer = th.answer
        BY <2>3
  <2>7. TypesOK'
        BY <1>1, <1>2, <2>5 DEF TypesOK, ThreadRecord, Records
  <2>8. BusyOK'
        BY <1>1, <1>2, <2>5, <2>6 DEF BusyOK
  <2>9. ConnectionsOK'
        BY <1>1, <2>5, <2>6 DEF ConnectionsOK, Connected
  <2>10. DecisionsOK'
        BY <1>1, <2>5, <2>6 DEF DecisionsOK
  <2>11. QED
        BY <1>1, <2>7, <2>8, <2>9, <2>10, TrustUnchanged DEF PairingInv
<1>5. QED
      BY <1>3, <1>4 DEF Pairs!StartPairing

\* A thread ends without a change of the trust.
LEMMA EndKeeps ==
    ASSUME Pairs!PairingAssumption, PairingInv, NEW m \in Machine, NEW role \in Pairs!Role, Pairs!EndThread(m, role),
           UNCHANGED <<session, made, trusted, seen>>
    PROVE  PairingInv'
<1>1. TrustNeedsBothApprovals'
      BY TrustUnchanged DEF PairingInv
<1>2. trusted' \in [Machine -> 0 .. made]
      BY DEF PairingInv, TypesOK
<1>3. QED
      BY <1>1, <1>2, EndStep

LEMMA FailuresKeep ==
    ASSUME Pairs!PairingAssumption, PairingInv, NEW m \in Machine, NEW role \in Pairs!Role,
           Pairs!ConnectFails(m) \/ Pairs!HandshakeFails(m, role) \/ Pairs!SessionFails(m, role)
    PROVE  PairingInv'
  BY EndKeeps, Roles DEF Pairs!ConnectFails, Pairs!HandshakeFails, Pairs!SessionFails

-----------------------------------------------------------------------------
(* The connection. *)

LEMMA ConnectKeeps ==
    ASSUME Pairs!PairingAssumption, PairingInv, NEW m \in Machine, Pairs!Connect(m) PROVE PairingInv'
<1> USE Roles
<1> DEFINE o == Pairs!Other(m)
           n == made + 1
           ready(x, proven) == [[x EXCEPT !.pc = IF proven THEN "proven" ELSE "failed"]
                                   EXCEPT !.session = n]
           c == thread[m]["connector"]
           l == thread[o]["listener"]
<1>1. /\ TypesOK /\ BusyOK /\ ConnectionsOK /\ DecisionsOK /\ TrustNeedsBothApprovals
      /\ o \in Machine /\ o # m
      BY OtherMachine DEF PairingInv
<1>2. /\ c \in ThreadRecord /\ c.pc = "connect"
      /\ l \in ThreadRecord /\ l.pc = "listening"
      /\ made \in Nat /\ n \in 1 .. MaxSessions /\ made' = n
      /\ UNCHANGED <<session, busy, trusted, seen>>
      BY <1>1 DEF Pairs!Connect, TypesOK, ThreadRecord, Records, Pairs!PairingAssumption
<1>3. PICK a \in BOOLEAN, b \in BOOLEAN :
          thread' = [thread EXCEPT ![m]["connector"] = ready(c, a), ![o]["listener"] = ready(l, b)]
      BY <1>1 DEF Pairs!Connect, TypesOK
<1> DEFINE gc == ready(c, a)
           gl == ready(l, b)
<1>4. ASSUME NEW x \in ThreadRecord, NEW p \in BOOLEAN
      PROVE  /\ ready(x, p) \in ThreadRecord'
             /\ ready(x, p).pc \in {"proven", "failed"} /\ ready(x, p).session = n
             /\ ready(x, p).owner = x.owner /\ ready(x, p).answer = x.answer
  <2> DEFINE pc == IF p THEN "proven" ELSE "failed"
             y  == [x EXCEPT !.pc = pc]
  <2>1. pc \in PairStep /\ pc \in {"proven", "failed"}
        BY DEF PairStep
  <2>2. n \in 0 .. made' /\ 0 .. made \subseteq 0 .. made'
        BY <1>2
  <2> HIDE DEF n, pc
  <2>3. /\ y \in Records(0 .. made) /\ y.pc = pc /\ y.owner = x.owner /\ y.answer = x.answer
        BY <2>1, PcChange DEF ThreadRecord
  <2> HIDE DEF y
  <2>4. LET z == [y EXCEPT !.session = n] IN
        /\ z \in Records(0 .. made') /\ z.session = n /\ z.pc = pc
        /\ z.owner = x.owner /\ z.answer = x.answer
    <3> DEFINE S == 0 .. made
               T == 0 .. made'
    <3>1. S \subseteq T /\ y \in Records(S) /\ n \in T
          BY <2>2, <2>3
    <3> HIDE DEF S, T
    <3>2. LET z == [y EXCEPT !.session = n] IN
          /\ z \in Records(T) /\ z.session = n /\ z.pc = y.pc
          /\ z.owner = y.owner /\ z.answer = y.answer
          BY <3>1, SessionChange
    <3>3. QED
          BY <2>3, <3>2 DEF T
  <2>5. ready(x, p) = [y EXCEPT !.session = n]
        BY DEF y, pc
  <2>6. QED
        BY <2>1, <2>4, <2>5 DEF ThreadRecord
<1> HIDE DEF ready
<1>5. /\ gc \in ThreadRecord' /\ gc.pc \in {"proven", "failed"} /\ gc.session = n
      /\ gc.owner = c.owner /\ gc.answer = c.answer
      BY <1>2, <1>4
<1>6. /\ gl \in ThreadRecord' /\ gl.pc \in {"proven", "failed"} /\ gl.session = n
      /\ gl.owner = l.owner /\ gl.answer = l.answer
      BY <1>2, <1>4
<1>7. thread' = [thread EXCEPT ![m]["connector"] = gc, ![o]["listener"] = gl]
      BY <1>3
<1>8. thread \in [Machine -> [Pairs!Role -> ThreadRecord']]
  <2>1. 0 .. made \subseteq 0 .. made'
        BY <1>2
  <2>2. ThreadRecord \subseteq ThreadRecord'
        BY <2>1 DEF ThreadRecord, Records
  <2>3. QED
        BY <1>1, <2>2 DEF TypesOK, ThreadRecord, Records
<1> HIDE DEF gc, gl
<1>9. /\ thread' \in [Machine -> [Pairs!Role -> ThreadRecord']]
      /\ thread'[m]["connector"] = gc /\ thread'[o]["listener"] = gl
      /\ \A x \in Machine, y \in Pairs!Role :
            ~(x = m /\ y = "connector") /\ ~(x = o /\ y = "listener") => thread'[x][y] = thread[x][y]
      BY <1>1, <1>5, <1>6, <1>7, <1>8
<1>10. ~c.answer /\ ~l.answer
      BY <1>1, <1>2 DEF DecisionsOK
<1>11. TypesOK'
  <2>1. trusted' \in [Machine -> 0 .. made']
        BY <1>1, <1>2 DEF TypesOK
  <2>2. made' \in 0 .. MaxSessions /\ seen' \in [Machine -> BOOLEAN] /\ busy' \in [Machine -> BOOLEAN]
        BY <1>1, <1>2 DEF TypesOK
  <2>3. session' \in [Pairs!Session -> [sent : [Machine -> Decision], asked : [Machine -> Decision]]]
        BY <1>1, <1>2 DEF TypesOK
  <2>4. thread' \in [Machine -> [Pairs!Role -> [pc : PairStep, session : 0 .. made', owner : BOOLEAN,
                                          answer : BOOLEAN]]]
        BY <1>9 DEF ThreadRecord, Records
  <2> HIDE DEF n
  <2>5. QED
        BY <2>1, <2>2, <2>3, <2>4 DEF TypesOK
<1>12. BusyOK'
  <2>1. ASSUME NEW x \in Machine, NEW y \in Pairs!Role
        PROVE  /\ thread'[x][y].owner = thread[x][y].owner
               /\ \/ thread'[x][y].pc = thread[x][y].pc
                  \/ /\ thread'[x][y].pc \in {"proven", "failed"}
                     /\ thread[x][y].pc = IF y = "listener" THEN "listening" ELSE "connect"
        BY <1>1, <1>2, <1>5, <1>6, <1>9
  <2>2. \A x \in Machine : busy'[x] = busy[x]
        BY <1>2
  <2>3. QED
        BY ONLY <1>1, <2>1, <2>2, Roles DEF BusyOK
<1>13. ConnectionsOK'
  <2>1. \A x \in Machine, y \in Pairs!Role : thread[x][y].session \in 0 .. made
        BY <1>1 DEF TypesOK
  <2>2. \A x \in Machine, y \in Pairs!Role : thread[x][y].session # n
        BY <2>1, <1>2
  <2>3. n # 0
        BY <1>2
  <2> HIDE DEF n
  <2>4. QED
        BY <1>1, <1>5, <1>6, <1>9, <2>2, <2>3 DEF ConnectionsOK
<1>14. DecisionsOK'
  <2>1. \A k \in Pairs!Session, x \in Machine :
           /\ k > made' => session'[k].asked[x] = "nothing" /\ session'[k].sent[x] = "nothing"
           /\ session'[k].sent[x] = "yes" => session'[k].asked[x] = "yes"
        BY <1>1, <1>2 DEF DecisionsOK, Pairs!Session
  <2>2. \A x \in Machine : session[n].asked[x] = "nothing"
        BY <1>1, <1>2 DEF DecisionsOK, Pairs!Session
  <2> HIDE DEF n
  <2>3. QED
        BY <1>1, <1>2, <1>5, <1>6, <1>9, <1>10, <2>1, <2>2 DEF DecisionsOK
<1>15. QED
       BY <1>1, <1>2, <1>11, <1>12, <1>13, <1>14, TrustUnchanged DEF PairingInv

-----------------------------------------------------------------------------
(* complete_native_pairing and PendingPairing::confirm. *)

LEMMA ExamineKeeps ==
    ASSUME Pairs!PairingAssumption, PairingInv, NEW m \in Machine, NEW role \in Pairs!Role, Pairs!Examine(m, role)
    PROVE  PairingInv'
<1> USE Roles
<1> DEFINE th == thread[m][role]
           takes == Pairs!Takes(m, role)
           acceptable == takes /\ (role = "connector" \/ seen[m]) /\ trusted[m] = 0
           pc == IF acceptable THEN "ask" ELSE "decide"
           f  == [th EXCEPT !.pc = pc]
           g  == [f EXCEPT !.owner = takes]
<1>1. /\ TypesOK /\ BusyOK /\ DecisionsOK /\ TrustNeedsBothApprovals
      /\ th.pc = "proven"
      /\ busy' = [busy EXCEPT ![m] = TRUE]
      /\ UNCHANGED <<session, made, trusted, seen>>
      BY DEF PairingInv, Pairs!Examine
<1>2. ThreadBecomes(m, role, g)
  <2>1. thread' = [thread EXCEPT ![m][role].pc = pc, ![m][role].owner = takes]
        BY DEF Pairs!Examine
  <2>2. thread \in [Machine -> [Pairs!Role -> ThreadRecord]]
        BY <1>1 DEF TypesOK, ThreadRecord, Records
  <2> HIDE DEF pc, takes
  <2>3. QED
        BY ONLY <2>1, <2>2, m \in Machine, role \in Pairs!Role DEF ThreadBecomes
<1>3. pc \in PairStep /\ pc \in {"ask", "decide"} /\ (pc = "ask" => takes)
      BY DEF PairStep, Pairs!Takes
<1>4. takes \in BOOLEAN /\ th \in ThreadRecord
      BY <1>1 DEF Pairs!Takes, TypesOK, ThreadRecord, Records
<1>5. (role = "connector" => takes) /\ (takes /\ role # "connector" => ~busy[m])
      BY DEF Pairs!Takes
<1> HIDE DEF pc, takes
<1>6. f \in ThreadRecord /\ f.pc = pc /\ f.session = th.session /\ f.answer = th.answer
      BY <1>3, <1>4, PcChange DEF ThreadRecord
<1> HIDE DEF f
<1>7. g \in ThreadRecord /\ g.pc = pc /\ g.session = th.session /\ g.answer = th.answer
      /\ g.owner = takes
      BY <1>4, <1>6, OwnerChange DEF ThreadRecord
<1> HIDE DEF g
<1>8. /\ thread'[m][role] = g
      /\ \A x \in Machine, y \in Pairs!Role : x # m \/ y # role => thread'[x][y] = thread[x][y]
      BY ONLY <1>1, <1>2, <1>7, ThreadChange, m \in Machine, role \in Pairs!Role
<1>9. DecisionsOK'
      BY <1>1, <1>3, <1>7, <1>8 DEF DecisionsOK
<1>10. TrustNeedsBothApprovals'
       BY <1>1, TrustUnchanged
<1>11. /\ busy' \in [Machine -> BOOLEAN] /\ busy'[m]
       /\ \A x \in Machine \ {m} : busy'[x] = busy[x]
       BY <1>1 DEF TypesOK
<1>12. th.owner => role = "connector"
       BY <1>1 DEF BusyOK
<1>13. role = "connector" => th.owner
       BY <1>1 DEF BusyOK
<1>14. Continues(m, role, g)
       BY <1>1, <1>2, <1>3, <1>5, <1>7, <1>11, <1>12, <1>13 DEF Continues, Connected
<1>15. SharedTypesOK
       BY <1>1, <1>11 DEF SharedTypesOK, TypesOK
<1>16. QED
       BY <1>1, <1>7, <1>9, <1>10, <1>14, <1>15, ThreadStep

LEMMA ExamineFailsKeeps ==
    ASSUME Pairs!PairingAssumption, PairingInv, NEW m \in Machine, Pairs!ExamineFails(m) PROVE PairingInv'
<1> USE Roles
<1> DEFINE th == thread[m]["connector"]
           g  == [th EXCEPT !.pc = "decide"]
<1>1. /\ TypesOK /\ BusyOK /\ DecisionsOK /\ TrustNeedsBothApprovals
      /\ th \in ThreadRecord /\ th.pc = "proven"
      /\ UNCHANGED <<session, made, busy, trusted, seen>>
      BY ThreadIsRecord DEF PairingInv, Pairs!ExamineFails
<1>2. ThreadBecomes(m, "connector", g)
      BY <1>1 DEF Pairs!ExamineFails, TypesOK, ThreadBecomes
<1>3. /\ g \in ThreadRecord /\ g.pc = "decide" /\ g.session = th.session /\ g.answer = th.answer
      /\ g.owner = th.owner
  <2>1. "decide" \in PairStep
        BY DEF PairStep
  <2>2. QED
        BY <1>1, <2>1, PcChange DEF ThreadRecord
<1> HIDE DEF g
<1>4. /\ thread'[m]["connector"] = g
      /\ \A x \in Machine, y \in Pairs!Role : x # m \/ y # "connector" => thread'[x][y] = thread[x][y]
      BY <1>1, <1>2, <1>3, ThreadChange
<1>5. DecisionsOK'
      BY <1>1, <1>3, <1>4 DEF DecisionsOK
<1>6. TrustNeedsBothApprovals'
      BY <1>1, TrustUnchanged
<1>7. Continues(m, "connector", g)
      BY <1>1, <1>2, <1>3 DEF Continues, Connected, BusyOK
<1>8. SharedTypesOK
      BY <1>1 DEF SharedTypesOK, TypesOK
<1>9. QED
      BY <1>1, <1>3, <1>5, <1>6, <1>7, <1>8, ThreadStep

\* What a machine writes into its own field of a connection.
Board == [sent : [Machine -> Decision], asked : [Machine -> Decision]]

SentBecomes(n, m, d) == session' = [session EXCEPT ![n].sent[m] = d]

LEMMA SentWrite ==
    ASSUME TypesOK, NEW n \in Pairs!Session, NEW m \in Machine, NEW d \in Decision,
           SentBecomes(n, m, d)
    PROVE  /\ session' \in [Pairs!Session -> Board]
           /\ \A k \in Pairs!Session, x \in Machine :
                 /\ session'[k].asked[x] = session[k].asked[x]
                 /\ k # n \/ x # m => session'[k].sent[x] = session[k].sent[x]
           /\ session'[n].sent[m] = d
<1> DEFINE b == [session[n] EXCEPT !.sent = [session[n].sent EXCEPT ![m] = d]]
<1>1. session \in [Pairs!Session -> Board] /\ session[n] \in Board
      BY DEF TypesOK, Board
<1>2. session' = [session EXCEPT ![n] = b]
      BY <1>1 DEF SentBecomes
<1>3. [session[n].sent EXCEPT ![m] = d] \in [Machine -> Decision]
      BY <1>1 DEF Board
<1>4. b \in Board /\ b.asked = session[n].asked /\ b.sent = [session[n].sent EXCEPT ![m] = d]
      BY <1>1, <1>3 DEF Board
<1>5. session[n].sent \in [Machine -> Decision]
      BY <1>1 DEF Board
<1> HIDE DEF b
<1>6. session' \in [Pairs!Session -> Board] /\ session'[n] = b
      /\ \A k \in Pairs!Session \ {n} : session'[k] = session[k]
      BY <1>1, <1>2, <1>4
<1>7. QED
      BY <1>4, <1>5, <1>6

AskedBecomes(n, m, d) == session' = [session EXCEPT ![n].asked[m] = d]

LEMMA AskedWrite ==
    ASSUME TypesOK, NEW n \in Pairs!Session, NEW m \in Machine, NEW d \in Decision,
           AskedBecomes(n, m, d)
    PROVE  /\ session' \in [Pairs!Session -> Board]
           /\ \A k \in Pairs!Session, x \in Machine :
                 /\ session'[k].sent[x] = session[k].sent[x]
                 /\ k # n \/ x # m => session'[k].asked[x] = session[k].asked[x]
           /\ session'[n].asked[m] = d
<1> DEFINE b == [session[n] EXCEPT !.asked = [session[n].asked EXCEPT ![m] = d]]
<1>1. session \in [Pairs!Session -> Board] /\ session[n] \in Board
      BY DEF TypesOK, Board
<1>2. session' = [session EXCEPT ![n] = b]
      BY <1>1 DEF AskedBecomes
<1>3. [session[n].asked EXCEPT ![m] = d] \in [Machine -> Decision]
      BY <1>1 DEF Board
<1>4. b \in Board /\ b.sent = session[n].sent /\ b.asked = [session[n].asked EXCEPT ![m] = d]
      BY <1>1, <1>3 DEF Board
<1>5. session[n].asked \in [Machine -> Decision]
      BY <1>1 DEF Board
<1> HIDE DEF b
<1>6. session' \in [Pairs!Session -> Board] /\ session'[n] = b
      /\ \A k \in Pairs!Session \ {n} : session'[k] = session[k]
      BY <1>1, <1>2, <1>4
<1>7. QED
      BY <1>4, <1>5, <1>6

LEMMA AnswerKeeps ==
    ASSUME Pairs!PairingAssumption, PairingInv, NEW m \in Machine, NEW role \in Pairs!Role, Pairs!Answer(m, role)
    PROVE  PairingInv'
<1> USE Roles
<1> DEFINE th == thread[m][role]
           n  == th.session
<1>1. /\ TypesOK /\ BusyOK /\ ConnectionsOK /\ DecisionsOK /\ TrustNeedsBothApprovals
      /\ th \in ThreadRecord /\ th.pc = "ask"
      /\ UNCHANGED <<made, busy, trusted, seen>>
      BY ThreadIsRecord DEF PairingInv, Pairs!Answer
<1>2. PICK yes \in BOOLEAN :
          /\ thread' = [thread EXCEPT ![m][role].pc = "decide", ![m][role].answer = yes]
          /\ session' = [session EXCEPT ![n].asked[m] = IF yes THEN "yes" ELSE "no"]
      BY DEF Pairs!Answer
<1> DEFINE d == IF yes THEN "yes" ELSE "no"
           f == [th EXCEPT !.pc = "decide"]
           g == [f EXCEPT !.answer = yes]
<1>3. n \in Pairs!Session /\ n \in 1 .. made
      BY <1>1, ConnectedSession DEF Connected
<1>4. ThreadBecomes(m, role, g)
      BY <1>1, <1>2 DEF TypesOK, ThreadBecomes
<1>5. f \in ThreadRecord /\ f.pc = "decide" /\ f.session = n /\ f.owner = th.owner
  <2>1. "decide" \in PairStep
        BY DEF PairStep
  <2>2. QED
        BY <1>1, <2>1, PcChange DEF ThreadRecord
<1> HIDE DEF f
<1>6. g \in ThreadRecord /\ g.pc = "decide" /\ g.session = n /\ g.owner = f.owner /\ g.answer = yes
      BY <1>5, AnswerChange DEF ThreadRecord
<1> HIDE DEF g
<1>7. /\ thread'[m][role] = g
      /\ \A x \in Machine, y \in Pairs!Role : x # m \/ y # role => thread'[x][y] = thread[x][y]
      BY <1>1, <1>4, <1>6, ThreadChange
<1>8. d \in Decision /\ d # "nothing" /\ (yes => d = "yes") /\ session' = [session EXCEPT ![n].asked[m] = d]
      BY <1>2 DEF Decision
<1> HIDE DEF d
<1>9. /\ session' \in [Pairs!Session -> Board]
      /\ \A k \in Pairs!Session, x \in Machine :
            /\ session'[k].sent[x] = session[k].sent[x]
            /\ k # n \/ x # m => session'[k].asked[x] = session[k].asked[x]
      /\ session'[n].asked[m] = d
  <2>1. d \in Decision /\ AskedBecomes(n, m, d) /\ TypesOK /\ n \in Pairs!Session
        BY <1>1, <1>3, <1>8 DEF AskedBecomes
  <2> HIDE DEF n, th
  <2>2. QED
        BY <2>1, AskedWrite
<1>10. session[n].asked[m] = "nothing" /\ session[n].sent[m] # "yes"
       BY <1>1, <1>3 DEF DecisionsOK
\* The other thread of the machine has another connection.
<1>11. \A y \in Pairs!Role \ {role} : thread[m][y].pc \in Connected => thread[m][y].session # n
  <2>1. th.pc \in Connected
        BY <1>1 DEF Connected
  <2>2. QED
        BY <1>1, <2>1, Roles DEF ConnectionsOK
<1>12. DecisionsOK'
  <2>1. ASSUME NEW k \in Pairs!Session, NEW x \in Machine
        PROVE  /\ k > made' => session'[k].asked[x] = "nothing" /\ session'[k].sent[x] = "nothing"
               /\ session'[k].sent[x] = "yes" => session'[k].asked[x] = "yes"
    <3>1. made \in Nat /\ made' = made
          BY <1>1 DEF TypesOK
    <3>2. k > made => k # n
          BY <1>3, <3>1 DEF Pairs!Session
    <3>3. CASE k = n /\ x = m
          BY <1>3, <1>9, <1>10, <3>1, <3>2, <3>3
    <3>4. CASE k # n \/ x # m
          BY <1>1, <1>9, <3>1, <3>4 DEF DecisionsOK
    <3>5. QED
          BY <3>3, <3>4
  <2>2. ASSUME NEW x \in Machine, NEW y \in Pairs!Role
        PROVE  ThreadDecision(thread'[x][y], session'[thread'[x][y].session].asked[x])
    <3>1. CASE x = m /\ y = role
          BY <1>6, <1>7, <1>8, <1>9, <3>1 DEF ThreadDecision
    <3>2. CASE ~(x = m /\ y = role)
      <4>1. thread'[x][y] = thread[x][y]
            BY <1>7, <3>2
      <4>2. thread[x][y].pc \in Connected => thread[x][y].session \in Pairs!Session
            BY <1>1, ConnectedSession
      <4>3. x = m /\ thread[x][y].pc \in Connected => thread[x][y].session # n
            BY <1>11, <3>2
      <4>4. thread[x][y].pc \in Connected
               => session'[thread[x][y].session].asked[x] = session[thread[x][y].session].asked[x]
            BY <1>9, <4>2, <4>3
      <4>5. QED
        <5> DecisionsOK
              BY <1>1
        <5>1. ThreadDecision(thread[x][y], session[thread[x][y].session].asked[x])
              BY ONLY DecidedThreads, DecisionsOK, x \in Machine, y \in Pairs!Role
        <5>2. ThreadDecision(thread[x][y], session'[thread[x][y].session].asked[x])
              BY ONLY <4>4, <5>1, SameDecision
        <5>3. QED
              BY ONLY <4>1, <5>2
    <3>3. QED
          BY <3>1, <3>2
  <2>3. QED
        BY ONLY <2>1, <2>2 DEF DecisionsOK, ThreadDecision
<1>13. TrustNeedsBothApprovals'
  <2>1. \A x \in Machine : trusted[x] # 0 => trusted[x] \in Pairs!Session
        BY <1>1 DEF TypesOK, Pairs!Session, Pairs!PairingAssumption
  <2>2. ASSUME NEW x \in Machine, trusted'[x] # 0, NEW o \in Machine
        PROVE  session'[trusted'[x]].asked[o] = "yes"
    <3>1. trusted'[x] \in Pairs!Session /\ session[trusted'[x]].asked[o] = "yes"
          BY <1>1, <2>1, <2>2 DEF TrustNeedsBothApprovals
    <3>2. ~(trusted'[x] = n /\ o = m)
          BY <1>10, <3>1
    <3>3. QED
          BY <1>9, <3>1, <3>2
  <2>3. QED
        BY <2>2 DEF TrustNeedsBothApprovals
<1>14. Continues(m, role, g)
       BY <1>1, <1>4, <1>5, <1>6 DEF Continues, Connected, BusyOK
<1>15. SharedTypesOK
       BY <1>1, <1>9 DEF SharedTypesOK, TypesOK, Board
<1>16. QED
       BY <1>1, <1>6, <1>12, <1>13, <1>14, <1>15, ThreadStep

LEMMA SendDecisionKeeps ==
    ASSUME Pairs!PairingAssumption, PairingInv, NEW m \in Machine, NEW role \in Pairs!Role,
           Pairs!SendDecision(m, role)
    PROVE  PairingInv'
<1> USE Roles
<1> DEFINE th == thread[m][role]
           n  == th.session
           d  == IF th.answer THEN "yes" ELSE "no"
           g  == [th EXCEPT !.pc = "confirm"]
<1>1. /\ TypesOK /\ BusyOK /\ ConnectionsOK /\ DecisionsOK /\ TrustNeedsBothApprovals
      /\ th \in ThreadRecord /\ th.pc = "decide"
      /\ UNCHANGED <<made, busy, trusted, seen>>
      BY ThreadIsRecord DEF PairingInv, Pairs!SendDecision
<1>2. n \in Pairs!Session /\ n \in 1 .. made
      BY <1>1, ConnectedSession DEF Connected
<1>3. ThreadBecomes(m, role, g)
      BY <1>1 DEF Pairs!SendDecision, TypesOK, ThreadBecomes
<1>4. g \in ThreadRecord /\ g.pc = "confirm" /\ g.session = n /\ g.owner = th.owner
      /\ g.answer = th.answer
  <2>1. "confirm" \in PairStep
        BY DEF PairStep
  <2>2. QED
        BY <1>1, <2>1, PcChange DEF ThreadRecord
<1> HIDE DEF g
<1>5. /\ thread'[m][role] = g
      /\ \A x \in Machine, y \in Pairs!Role : x # m \/ y # role => thread'[x][y] = thread[x][y]
      BY <1>1, <1>3, <1>4, ThreadChange
<1>6. d \in Decision /\ (d = "yes" => th.answer) /\ session' = [session EXCEPT ![n].sent[m] = d]
      BY <1>1 DEF Decision, Pairs!SendDecision
<1>7. d = "yes" => session[n].asked[m] = "yes"
      BY <1>1, <1>6 DEF DecisionsOK
<1> HIDE DEF d
<1>8. /\ session' \in [Pairs!Session -> Board]
      /\ \A k \in Pairs!Session, x \in Machine :
            /\ session'[k].asked[x] = session[k].asked[x]
            /\ k # n \/ x # m => session'[k].sent[x] = session[k].sent[x]
      /\ session'[n].sent[m] = d
  <2>1. d \in Decision /\ SentBecomes(n, m, d) /\ TypesOK /\ n \in Pairs!Session
        BY <1>1, <1>2, <1>6 DEF SentBecomes
  <2> HIDE DEF n, th
  <2>2. QED
        BY <2>1, SentWrite
<1>9. DecisionsOK'
  <2>1. ASSUME NEW k \in Pairs!Session, NEW x \in Machine
        PROVE  /\ k > made' => session'[k].asked[x] = "nothing" /\ session'[k].sent[x] = "nothing"
               /\ session'[k].sent[x] = "yes" => session'[k].asked[x] = "yes"
    <3>1. made \in Nat /\ made' = made
          BY <1>1 DEF TypesOK
    <3>2. k > made => k # n
          BY <1>2, <3>1 DEF Pairs!Session
    <3>3. CASE k = n /\ x = m
          BY <1>2, <1>7, <1>8, <3>1, <3>2, <3>3
    <3>4. CASE k # n \/ x # m
          BY <1>1, <1>8, <3>1, <3>4 DEF DecisionsOK
    <3>5. QED
          BY <3>3, <3>4
  <2>2. ASSUME NEW x \in Machine, NEW y \in Pairs!Role
        PROVE  ThreadDecision(thread'[x][y], session'[thread'[x][y].session].asked[x])
    <3>1. thread[x][y].pc \in Connected => thread[x][y].session \in Pairs!Session
          BY <1>1, ConnectedSession
    <3>2. thread[x][y].pc \in Connected
             => session'[thread[x][y].session].asked[x] = session[thread[x][y].session].asked[x]
          BY <1>8, <3>1
    <3>3. ThreadDecision(thread[x][y], session'[thread[x][y].session].asked[x])
          BY <1>1, <3>2, DecidedThreads, SameDecision
    <3>4. CASE x = m /\ y = role
      <4>1. thread'[x][y] = g /\ thread[x][y] = th
            BY <1>5, <3>4
      <4>2. g.session = thread[x][y].session
            BY <1>4, <4>1
      <4>3. QED
            BY <1>1, <1>4, <3>3, <4>1, <4>2 DEF ThreadDecision
    <3>5. CASE ~(x = m /\ y = role)
      <4>1. thread'[x][y] = thread[x][y]
            BY <1>5, <3>5
      <4>2. QED
            BY <3>3, <4>1
    <3>6. QED
          BY <3>4, <3>5
  <2>3. QED
        BY ONLY <2>1, <2>2 DEF DecisionsOK, ThreadDecision
<1>10. TrustNeedsBothApprovals'
  <2>1. \A x \in Machine : trusted[x] # 0 => trusted[x] \in Pairs!Session
        BY <1>1 DEF TypesOK, Pairs!Session, Pairs!PairingAssumption
  <2>2. QED
        BY <1>1, <1>8, <2>1 DEF TrustNeedsBothApprovals
<1>11. Continues(m, role, g)
       BY <1>1, <1>3, <1>4 DEF Continues, Connected, BusyOK
<1>12. SharedTypesOK
       BY <1>1, <1>8 DEF SharedTypesOK, TypesOK, Board
<1>13. QED
       BY <1>1, <1>4, <1>9, <1>10, <1>11, <1>12, ThreadStep

\* The trust is the work of a thread whose user said yes and read a yes, which
\* the other machine sends when its user said so.
LEMMA ReadDecisionKeeps ==
    ASSUME Pairs!PairingAssumption, PairingInv, NEW m \in Machine, NEW role \in Pairs!Role,
           Pairs!ReadDecision(m, role)
    PROVE  PairingInv'
<1> USE Roles
<1> DEFINE th == thread[m][role]
           n  == th.session
<1>1. /\ TypesOK /\ ConnectionsOK /\ DecisionsOK /\ TrustNeedsBothApprovals
      /\ th \in ThreadRecord /\ th.pc = "confirm"
      /\ Pairs!EndThread(m, role)
      /\ UNCHANGED <<session, made, seen>>
      BY ThreadIsRecord DEF PairingInv, Pairs!ReadDecision
<1>2. CASE UNCHANGED trusted
      BY <1>1, <1>2, EndKeeps
<1>3. CASE /\ ~Pairs!Refuses(th.answer, session[n].sent[Pairs!Other(m)])
           /\ session[n].sent[Pairs!Other(m)] # "nothing"
           /\ trusted' = [trusted EXCEPT ![m] = n]
  <2>1. n \in Pairs!Session /\ n \in 0 .. made
    <3>1. th.pc \in Connected
          BY <1>1 DEF Connected
    <3>2. n \in Pairs!Session /\ n \in 1 .. made
          BY ONLY <1>1, <3>1, ConnectedSession, Pairs!PairingAssumption, m \in Machine, role \in Pairs!Role
    <3>3. QED
          BY ONLY <3>2
  <2>2. Pairs!Other(m) \in Machine /\ \A o \in Machine : o = m \/ o = Pairs!Other(m)
        BY OtherMachine
  <2>3. session[n].sent[Pairs!Other(m)] = "yes"
        BY <1>1, <1>3, <2>1, <2>2 DEF TypesOK, Pairs!Refuses, Decision
  <2>4. session[n].asked[Pairs!Other(m)] = "yes"
        BY <1>1, <2>1, <2>2, <2>3 DEF DecisionsOK
  <2>5. session[n].asked[m] = "yes"
        BY <1>1, <1>3 DEF DecisionsOK, Pairs!Refuses
  <2>6. trusted' \in [Machine -> 0 .. made]
        BY <1>1, <1>3, <2>1 DEF TypesOK
  <2>7. trusted'[m] = n /\ \A x \in Machine \ {m} : trusted'[x] = trusted[x]
        BY <1>1, <1>3 DEF TypesOK
  <2>8. TrustNeedsBothApprovals'
        BY <1>1, <2>2, <2>4, <2>5, <2>7 DEF TrustNeedsBothApprovals
  <2>9. QED
        BY <1>1, <2>6, <2>8, EndStep
<1>4. QED
      BY <1>2, <1>3 DEF Pairs!ReadDecision

-----------------------------------------------------------------------------
(* The rest, and the theorems. *)

LEMMA OthersKeep ==
    ASSUME Pairs!PairingAssumption, PairingInv, NEW m \in Machine, Pairs!Discover(m) \/ Pairs!Revoke(m)
    PROVE  PairingInv'
<1>1. /\ TypesOK /\ BusyOK /\ ConnectionsOK /\ DecisionsOK /\ TrustNeedsBothApprovals
      /\ UNCHANGED <<session, made, busy, thread>>
      BY DEF PairingInv, Pairs!Discover, Pairs!HearPeer, Pairs!ForgetPeer, Pairs!Revoke
<1>2. seen' \in [Machine -> BOOLEAN] /\ trusted' \in [Machine -> 0 .. made]
  <2>1. CASE Pairs!Discover(m)
        BY <1>1, <2>1 DEF TypesOK, Pairs!Discover, Pairs!HearPeer, Pairs!ForgetPeer
  <2>2. CASE Pairs!Revoke(m)
        BY <1>1, <2>2 DEF TypesOK, Pairs!Revoke
  <2>3. QED
        BY <2>1, <2>2
<1>3. \A x \in Machine : trusted'[x] \in {0, trusted[x]}
      BY <1>1 DEF TypesOK, Pairs!Discover, Pairs!HearPeer, Pairs!ForgetPeer, Pairs!Revoke
<1>4. TypesOK'
      BY <1>1, <1>2 DEF TypesOK
<1>5. BusyOK' /\ ConnectionsOK' /\ DecisionsOK'
      BY <1>1 DEF BusyOK, ConnectionsOK, DecisionsOK
<1>6. TrustNeedsBothApprovals'
      BY <1>1, <1>3 DEF TrustNeedsBothApprovals
<1>7. QED
      BY <1>4, <1>5, <1>6 DEF PairingInv

LEMMA StepKeeps == Pairs!PairingAssumption /\ PairingInv /\ [Pairs!Next]_(Pairs!vars) => PairingInv'
<1> SUFFICES ASSUME Pairs!PairingAssumption, PairingInv, [Pairs!Next]_(Pairs!vars) PROVE PairingInv'
    OBVIOUS
<1>1. CASE Pairs!Next
  <2>1. PICK m \in Machine :
           \/ Pairs!StartPairing(m) \/ Pairs!ConnectFails(m) \/ Pairs!Connect(m) \/ Pairs!ExamineFails(m)
           \/ \E role \in Pairs!Role : Pairs!Pair(m, role)
           \/ Pairs!Discover(m) \/ Pairs!Revoke(m)
        BY <1>1 DEF Pairs!Next
  <2>2. CASE \E role \in Pairs!Role : Pairs!Pair(m, role)
    <3>1. PICK role \in Pairs!Role : Pairs!Pair(m, role)
          BY <2>2
    <3>2. QED
          BY <3>1, FailuresKeep, ExamineKeeps, AnswerKeeps, SendDecisionKeeps, ReadDecisionKeeps DEF Pairs!Pair
  <2>3. CASE ~(\E role \in Pairs!Role : Pairs!Pair(m, role))
        BY <2>1, <2>3, Roles, StartPairingKeeps, FailuresKeep, ConnectKeeps, ExamineFailsKeeps, OthersKeep
  <2>4. QED
        BY <2>2, <2>3
<1>2. CASE UNCHANGED Pairs!vars
  <2>1. TypesOK' /\ BusyOK'
        BY <1>2 DEF PairingInv, TypesOK, BusyOK, Pairs!vars
  <2>2. ConnectionsOK' /\ DecisionsOK' /\ TrustNeedsBothApprovals'
        BY <1>2 DEF PairingInv, ConnectionsOK, DecisionsOK, TrustNeedsBothApprovals, Pairs!vars
  <2>3. QED
        BY <2>1, <2>2 DEF PairingInv
<1>3. QED
      BY <1>1, <1>2

\* The pairing of the two machines, alone.
PairingSpec == Pairs!Init /\ [][Pairs!Next]_(Pairs!vars)

LEMMA PairInvHolds == Pairs!PairingAssumption => (PairingSpec => []PairingInv)
<1> SUFFICES ASSUME Pairs!PairingAssumption PROVE PairingSpec => []PairingInv
    OBVIOUS
<1>1. Pairs!Init => PairingInv
      BY Initially
<1>2. PairingInv /\ [Pairs!Next]_(Pairs!vars) => PairingInv'
      BY StepKeeps
<1>3. QED
      BY <1>1, <1>2, PTL DEF PairingSpec

\* The owner of busy is one thread at most, and only the owner asks.
LEMMA AsksOnce == Pairs!PairingAssumption /\ PairingInv => Pairs!TypeOK
<1> SUFFICES ASSUME Pairs!PairingAssumption, PairingInv PROVE Pairs!TypeOK
    OBVIOUS
<1>1. TypesOK /\ BusyOK
      BY DEF PairingInv
<1>2. ASSUME NEW m \in Machine
      PROVE  Cardinality({role \in Pairs!Role : thread[m][role].pc = "ask"}) <= 1
  <2> DEFINE A == {role \in Pairs!Role : thread[m][role].pc = "ask"}
  <2>1. A \subseteq {"listener"} \/ A \subseteq {"connector"}
        BY <1>1, Roles DEF BusyOK
  <2>2. ASSUME NEW r, A \subseteq {r} PROVE Cardinality(A) <= 1
    <3>1. IsFiniteSet({r}) /\ Cardinality({r}) = 1
          BY FS_Singleton
    <3>2. Cardinality(A) <= Cardinality({r})
          BY <2>2, <3>1, FS_Subset
    <3>3. QED
          BY <3>1, <3>2
  <2>3. QED
        BY <2>1, <2>2
<1>3. \A m \in Machine, role \in Pairs!Role :
          /\ thread[m][role].pc \in PairStep
          /\ thread[m][role].session \in 0 .. made
      BY <1>1 DEF TypesOK
<1>4. QED
      BY <1>1, <1>2, <1>3 DEF Pairs!TypeOK, TypesOK, PairStep, Pairs!Cardinality, Cardinality

\* A machine never asks its user about two pairings at once, whichever of its
\* two threads they reach.
THEOREM OneConfirmationAtATime == Pairs!PairingAssumption => (PairingSpec => []Pairs!TypeOK)
<1> SUFFICES ASSUME Pairs!PairingAssumption PROVE PairingSpec => []Pairs!TypeOK
    OBVIOUS
<1>1. PairingInv => Pairs!TypeOK
      BY AsksOnce
<1>2. PairingSpec => []PairingInv
      BY PairInvHolds
<1>3. QED
      BY <1>1, <1>2, PTL

\* A machine trusts the other one only by a connection on which both users
\* approved, whatever crosses, is late or is refused.
THEOREM TrustIsMutual == Pairs!PairingAssumption => (PairingSpec => []TrustNeedsBothApprovals)
<1> SUFFICES ASSUME Pairs!PairingAssumption PROVE PairingSpec => []TrustNeedsBothApprovals
    OBVIOUS
<1>1. PairingInv => TrustNeedsBothApprovals
      BY DEF PairingInv
<1>2. PairingSpec => []PairingInv
      BY PairInvHolds
<1>3. QED
      BY <1>1, <1>2, PTL

-----------------------------------------------------------------------------
(* The window of a reception. *)

ViewRecord ==
    [pending : BOOLEAN, manifest : {"None", "Source", "Remote"}, subject : Subject \cup {0},
     state : Shows!View!State \cup {"None"}, generation : Nat]

WindowRecord ==
    [made : BOOLEAN, visible : BOOLEAN, hidden : BOOLEAN, generation : Nat,
     state : Shows!View!State \cup {"None"}, close : BOOLEAN, epoch : Nat]

\* A window that displays a generation of the runtime that is there is not ahead
\* of it, and of the same generation it displays nothing the snapshot has left.
WindowInv ==
    /\ view \in ViewRecord /\ window \in WindowRecord
    /\ epoch \in Nat /\ window.epoch <= epoch
    /\ window.visible => window.made /\ ~window.hidden
    /\ window.hidden => window.made
    /\ window.made /\ window.epoch = epoch =>
          /\ window.generation <= view.generation
          /\ window.generation = view.generation /\ window.state # "AwaitingPaste" =>
                view.state # "AwaitingPaste"

\* Four fields of a record of five that are replaced.
LEMMA RecordOfFive ==
    ASSUME NEW A, NEW B, NEW C, NEW D, NEW E,
           NEW v \in [pending : A, manifest : B, subject : C, state : D, generation : E],
           NEW b \in B, NEW c \in C, NEW d \in D, NEW e \in E
    PROVE  LET r == [v EXCEPT !.manifest = b, !.subject = c, !.state = d, !.generation = e]
           IN  r \in [pending : A, manifest : B, subject : C, state : D, generation : E] /\ r.generation = e
OBVIOUS

\* What the runtime does to its snapshot.
LEMMA ViewGoesOn ==
    ASSUME view \in ViewRecord, Shows!View!SetPending \/ Shows!View!Progress \/ Shows!View!ShowTransfer
    PROVE  /\ view' \in ViewRecord
           /\ \/ view'.generation = view.generation + 1
              \/ /\ view'.generation = view.generation
                 /\ view.state # "AwaitingPaste" => view'.state # "AwaitingPaste"
<1>1. CASE Shows!View!SetPending
      BY <1>1 DEF Shows!View!SetPending, ViewRecord
<1>2. CASE Shows!View!ShowTransfer
  <2>1. PICK direction \in {"Source", "Remote"}, subject \in Subject, pending \in BOOLEAN :
            view' = Shows!View!Shown([view EXCEPT !.pending = pending], direction, subject)
        BY <1>2 DEF Shows!View!ShowTransfer
  <2>2. [view EXCEPT !.pending = pending] \in ViewRecord
        /\ [view EXCEPT !.pending = pending].generation = view.generation
        BY DEF ViewRecord
  <2>3. ASSUME NEW v \in ViewRecord
        PROVE  /\ Shows!View!Shown(v, direction, subject) \in ViewRecord
               /\ Shows!View!Shown(v, direction, subject).generation = v.generation + 1
    <3>1. v.generation + 1 \in Nat
          BY <2>3 DEF ViewRecord
    <3>2. direction \in {"Source", "Remote", "None"} /\ "AwaitingPaste" \in Shows!View!State \cup {"None"}
          BY DEF Shows!View!State
    <3>3. subject \in Subject \cup {0}
          OBVIOUS
    <3>4. QED
          BY <2>3, <3>1, <3>2, <3>3, RecordOfFive DEF ViewRecord, Shows!View!Shown
  <2>4. QED
        BY <2>1, <2>2, <2>3
<1>3. CASE Shows!View!Progress
  <2>1. PICK st \in Shows!View!Successors(view.state) : view' = [view EXCEPT !.state = st]
        BY <1>3 DEF Shows!View!Progress
  <2>2. view.state \in Shows!View!State \cup {"None"}
        BY DEF ViewRecord
  <2>3. /\ st \in Shows!View!State \cup {"None"}
        /\ view.state # "AwaitingPaste" => st # "AwaitingPaste"
        BY <2>2 DEF Shows!View!Successors, Shows!View!State
  <2>4. QED
        BY <2>1, <2>3 DEF ViewRecord
<1>4. QED
      BY <1>1, <1>2, <1>3

\* What the window shows after an update from the snapshot.
LEMMA UpdatedWindow ==
    ASSUME WindowInv
    PROVE  /\ Shows!Updated(window, view) \in WindowRecord
           /\ Shows!Updated(window, view).made
           /\ Shows!Updated(window, view).visible =>
                 window.visible \/ ~window.hidden \/ window.generation # view.generation
           /\ Shows!Updated(window, view).visible => ~Shows!Updated(window, view).hidden
           /\ \/ /\ Shows!Updated(window, view).epoch = window.epoch
                 /\ Shows!Updated(window, view).generation = window.generation
                 /\ Shows!Updated(window, view).state = window.state
                 /\ Shows!Updated(window, view).visible = window.visible
                 /\ window.made
              \/ /\ Shows!Updated(window, view).epoch = epoch
                 /\ Shows!Updated(window, view).generation = view.generation
                 /\ Shows!Updated(window, view).state = view.state
                 /\ \/ view.state # "AwaitingPaste" \/ ~window.made
                    \/ window.generation = view.generation
<1>0. window \in WindowRecord /\ view \in ViewRecord /\ epoch \in Nat
      BY DEF WindowInv
<1>1. CASE ~Shows!Presents(window, view)
  <2>1. Shows!Updated(window, view) = [window EXCEPT !.made = TRUE] /\ window.made
        BY <1>1 DEF Shows!Updated, Shows!Presents
  <2>2. QED
        BY <1>0, <2>1 DEF WindowInv, WindowRecord
<1>2. CASE Shows!Presents(window, view)
  <2> DEFINE hidden == Shows!HiddenAfter(window, view)
  <2>1. hidden \in BOOLEAN /\ (hidden <=> window.hidden /\ window.made /\ window.generation = view.generation)
        BY <1>0 DEF Shows!HiddenAfter, WindowRecord
  <2>2. Shows!Updated(window, view) =
            [made |-> TRUE, visible |-> window.visible \/ (view.state \in Shows!Active /\ ~hidden),
             hidden |-> hidden, generation |-> view.generation, state |-> view.state,
             close |-> view.state \in Shows!Terminal, epoch |-> epoch]
        BY <1>2 DEF Shows!Updated
  <2> HIDE DEF hidden
  <2>3. (window.visible \/ (view.state \in Shows!Active /\ ~hidden)) \in BOOLEAN
        OBVIOUS
  <2>4. (view.state \in Shows!Terminal) \in BOOLEAN
        OBVIOUS
  <2>5. Shows!Updated(window, view) \in WindowRecord
        BY <1>0, <2>1, <2>2, <2>3, <2>4 DEF WindowRecord, ViewRecord
  <2>6. view.state # "AwaitingPaste" \/ ~window.made \/ window.generation = view.generation
        BY <1>2 DEF Shows!Presents
  <2>7. Shows!Updated(window, view).visible =>
            /\ window.visible \/ ~window.hidden \/ window.generation # view.generation
            /\ ~hidden
    <3>1. (window.visible => ~window.hidden) /\ (window.hidden => window.made)
          BY DEF WindowInv
    <3>2. CASE window.visible
          BY <2>1, <3>1, <3>2
    <3>3. CASE ~hidden
          BY <2>1, <3>1, <3>3
    <3>4. Shows!Updated(window, view).visible = (window.visible \/ (view.state \in Shows!Active /\ ~hidden))
          BY <2>2
    <3>5. QED
          BY <3>2, <3>3, <3>4
  <2>8. QED
        BY <2>1, <2>2, <2>5, <2>6, <2>7
<1>3. QED
      BY <1>1, <1>2

\* What a step of the window itself may change.
WindowKept ==
    /\ window' \in WindowRecord
    /\ window'.epoch = window.epoch /\ window'.made = window.made
    /\ window'.generation = window.generation /\ window'.state = window.state
    /\ window'.visible => window.visible /\ ~window'.hidden
    /\ window'.hidden => window.made

LEMMA WindowMoves ==
    ASSUME WindowInv, Shows!PressControl \/ Shows!PressCancel \/ Shows!CloseWindow \/ Shows!OpenMenu
                      \/ Shows!ChooseOther \/ Shows!HandlePosted \/ Shows!Product \/ UNCHANGED Shows!vars
    PROVE  WindowKept /\ UNCHANGED epoch /\ view' \in ViewRecord
           /\ (view' = view \/ Shows!View!SetPending \/ Shows!View!Progress \/ Shows!View!ShowTransfer)
<1>0. window \in WindowRecord /\ view \in ViewRecord
      BY DEF WindowInv
<1>1. UNCHANGED window => WindowKept
      BY <1>0 DEF WindowKept, WindowInv
<1>2. window.visible /\ window' = Shows!Hidden(window) => WindowKept
      BY <1>0 DEF WindowKept, Shows!Hidden, WindowInv, WindowRecord
<1>3. CASE Shows!PressCancel \/ Shows!CloseWindow
      BY <1>0, <1>2, <1>3 DEF Shows!PressCancel, Shows!CloseWindow
<1>4. CASE Shows!PressControl \/ Shows!OpenMenu \/ Shows!ChooseOther \/ Shows!HandlePosted
           \/ UNCHANGED Shows!vars
      BY <1>0, <1>1, <1>4 DEF Shows!PressControl, Shows!OpenMenu, Shows!ChooseOther, Shows!HandlePosted, Shows!vars
<1>5. CASE Shows!Product
      BY <1>0, <1>1, <1>5, ViewGoesOn DEF Shows!Product
<1>6. QED
      BY <1>3, <1>4, <1>5

\* What each step does to the window and its invariant.
LEMMA WindowStep ==
    ASSUME WindowInv, [Shows!Next]_(Shows!vars)
    PROVE  /\ WindowInv'
           /\ [StaysHidden /\ KeepsTheResult]_<<window, menu, epoch>>
<1>0. /\ window \in WindowRecord /\ view \in ViewRecord /\ epoch \in Nat /\ window.epoch \in Nat
      /\ view.generation \in Nat /\ window.generation \in Nat
      BY DEF WindowInv, WindowRecord, ViewRecord
<1>1. CASE \/ Shows!PressControl \/ Shows!PressCancel \/ Shows!CloseWindow \/ Shows!OpenMenu
           \/ Shows!ChooseOther \/ Shows!HandlePosted \/ Shows!Product \/ UNCHANGED Shows!vars
  <2>1. WindowKept /\ UNCHANGED epoch /\ view' \in ViewRecord
        /\ (view' = view \/ Shows!View!SetPending \/ Shows!View!Progress \/ Shows!View!ShowTransfer)
        BY <1>1, WindowMoves
  <2>2. \/ view'.generation = view.generation + 1
        \/ /\ view'.generation = view.generation
           /\ view.state # "AwaitingPaste" => view'.state # "AwaitingPaste"
        BY <1>0, <2>1, ViewGoesOn
  <2>3. window.made /\ window.epoch = epoch =>
          /\ window.generation <= view'.generation
          /\ window.generation = view'.generation /\ window.state # "AwaitingPaste" =>
                view'.state # "AwaitingPaste"
        BY <1>0, <2>2 DEF WindowInv
  <2>4. WindowInv'
        BY <2>1, <2>3 DEF WindowInv, WindowKept
  <2>5. StaysHidden /\ KeepsTheResult
        BY <2>1 DEF StaysHidden, KeepsTheResult, WindowInv, WindowKept
  <2>6. QED
        BY <2>4, <2>5
<1>2. CASE Shows!ReloadRuntime
  <2>1. /\ epoch' = epoch + 1 /\ view' = Shows!View!FreshView /\ UNCHANGED window
        BY <1>2 DEF Shows!ReloadRuntime, Shows!View!Restart
  <2>2. view' \in ViewRecord
        BY <2>1 DEF Shows!View!FreshView, ViewRecord
  <2>3. epoch' \in Nat /\ window.epoch <= epoch' /\ window.epoch # epoch'
        BY <1>0, <2>1 DEF WindowInv
  <2>4. WindowInv'
        BY <2>1, <2>2, <2>3 DEF WindowInv
  <2>5. StaysHidden /\ KeepsTheResult
        BY <2>1 DEF StaysHidden, KeepsTheResult, WindowInv
  <2>6. QED
        BY <2>4, <2>5
<1> DEFINE w == Shows!Updated(window, view)
<1>3. CASE /\ UNCHANGED <<view, epoch>>
           /\ window' \in WindowRecord /\ window'.made
           /\ window'.visible => ~window'.hidden
           /\ window'.epoch = w.epoch /\ window'.generation = w.generation /\ window'.state = w.state
           /\ window.hidden /\ window'.visible => menu' # menu \/ window.generation # w.generation
  <2>1. \/ w.epoch = window.epoch /\ w.generation = window.generation /\ w.state = window.state /\ window.made
        \/ /\ w.epoch = epoch /\ w.generation = view.generation /\ w.state = view.state
           /\ view.state # "AwaitingPaste" \/ ~window.made \/ window.generation = view.generation
        BY UpdatedWindow
  <2> HIDE DEF w
  <2>2. /\ window'.epoch <= epoch
        /\ window'.epoch = epoch =>
              /\ window'.generation <= view.generation
              /\ window'.generation = view.generation /\ window'.state # "AwaitingPaste" =>
                    view.state # "AwaitingPaste"
        BY <1>0, <1>3, <2>1 DEF WindowInv
  <2>3. WindowInv'
        BY <1>0, <1>3, <2>2 DEF WindowInv
  <2>4. StaysHidden
        BY <1>3 DEF StaysHidden
  <2>5. KeepsTheResult
        BY <1>3, <2>1 DEF KeepsTheResult, WindowInv
  <2>6. QED
        BY <2>3, <2>4, <2>5
<1>4. CASE Shows!Refresh
  <2>1. window' = w /\ UNCHANGED <<view, epoch>>
        BY <1>4 DEF Shows!Refresh
  <2>2. window.hidden /\ w.visible => window.generation # w.generation
        BY UpdatedWindow DEF WindowInv
  <2>3. w \in WindowRecord /\ w.made /\ (w.visible => ~w.hidden)
        BY UpdatedWindow
  <2> HIDE DEF w
  <2>4. QED
        BY <1>3, <2>1, <2>2, <2>3
<1>5. CASE Shows!ShowWindow
  <2>1. menu' # menu /\ UNCHANGED <<view, epoch>>
        BY <1>5 DEF Shows!ShowWindow
  <2>2. CASE window' = [w EXCEPT !.visible = TRUE, !.hidden = FALSE]
    <3>1. w \in WindowRecord /\ w.made
          BY UpdatedWindow
    <3> HIDE DEF w
    <3>2. /\ window' \in WindowRecord /\ window'.made /\ window'.epoch = w.epoch
          /\ window'.generation = w.generation /\ window'.state = w.state /\ ~window'.hidden
          BY <2>2, <3>1 DEF WindowRecord
    <3>3. QED
          BY <1>3, <2>1, <3>2
  <2>3. CASE window' = window
    <3>1. WindowInv'
          BY <2>1, <2>3 DEF WindowInv
    <3>2. StaysHidden /\ KeepsTheResult
          BY <2>1, <2>3 DEF StaysHidden, KeepsTheResult
    <3>3. QED
          BY <3>1, <3>2
  <2>4. QED
        BY <1>5, <2>2, <2>3 DEF Shows!ShowWindow
<1>6. QED
      BY <1>1, <1>2, <1>4, <1>5 DEF Shows!Next

\* A window the user has hidden, and what it displays, stay as the user left them,
\* whatever snapshots TransferView allows and however often the runtime is replaced.
THEOREM WindowIsTheUsers == Shows!Spec => WindowObeysTheUser
<1>1. Shows!Init => WindowInv
  <2> SUFFICES ASSUME Shows!Init PROVE WindowInv
      OBVIOUS
  <2>1. view \in ViewRecord
        BY DEF Shows!Init, Shows!View!FreshView, ViewRecord
  <2>2. window \in WindowRecord /\ window.epoch = 0 /\ ~window.made /\ ~window.visible /\ ~window.hidden
        BY DEF Shows!Init, Shows!NoWindow, WindowRecord
  <2>3. QED
        BY <2>1, <2>2 DEF Shows!Init, WindowInv
<1>2. WindowInv /\ [Shows!Next]_(Shows!vars) =>
          WindowInv' /\ [StaysHidden /\ KeepsTheResult]_<<window, menu, epoch>>
      BY WindowStep
<1>3. QED
      BY <1>1, <1>2, PTL DEF Shows!Spec, WindowObeysTheUser

-----------------------------------------------------------------------------
(* The tray, whichever part of it a behaviour is of. *)

\* A step of the tray is a step of each part or leaves the part as it is.
LEMMA StepsOfTheParts ==
    ASSUME [DesktopNext]_desktopVars
    PROVE  [Next]_vars /\ [Pairs!Next]_(Pairs!vars) /\ [Shows!Next]_(Shows!vars)
<1>1. CASE UNCHANGED desktopVars
      BY <1>1 DEF desktopVars, pairVars, windowVars, Pairs!vars, Shows!vars
<1>2. CASE Next /\ UNCHANGED <<pairVars, windowVars>>
      BY <1>2 DEF pairVars, windowVars, Pairs!vars, Shows!vars
<1>3. CASE Pairs!Next /\ UNCHANGED <<vars, windowVars>>
      BY <1>3 DEF windowVars, Shows!vars
<1>4. CASE Shows!Next /\ UNCHANGED <<vars, pairVars>>
      BY <1>4 DEF pairVars, Pairs!vars
<1>5. QED
      BY <1>1, <1>2, <1>3, <1>4 DEF DesktopNext

LEMMA BehavioursOfTheParts == DesktopSpec => Spec /\ PairingSpec /\ Shows!Spec
<1>1. DesktopInit => Init /\ Pairs!Init /\ Shows!Init
      BY DEF DesktopInit
<1>2. QED
      BY <1>1, StepsOfTheParts, PTL DEF DesktopSpec, Spec, PairingSpec, Shows!Spec

\* What concurrent programs do to the files keeps the limit of trust, one identity
\* and a tray that follows them.
THEOREM TraysKeepTheStore == DesktopSpec => [](TrustLimitHolds /\ OneIdentity /\ TrayFollowsTheStore)
  BY BehavioursOfTheParts, TrustIsBounded, IdentityIsUnique, TrayIsCurrent, PTL

\* A tray trusts another machine only if the users of both approved.
THEOREM TraysTrustMutually == DesktopSpec => []TrustNeedsBothApprovals
<1>1. Pairs!PairingAssumption
      BY DesktopAssumption
<1>2. QED
      BY <1>1, BehavioursOfTheParts, TrustIsMutual, PTL

\* The window obeys its user in every tray.
THEOREM TraysObeyTheUser == DesktopSpec => WindowObeysTheUser
  BY BehavioursOfTheParts, WindowIsTheUsers, PTL

=============================================================================
