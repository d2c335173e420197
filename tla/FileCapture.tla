----------------------------- MODULE FileCapture -----------------------------
(***************************************************************************)
(* The capture session (FileCaptureSession, src/clipboard/runtime.rs): it  *)
(* replaces copied files on the clipboard by an object of its own that     *)
(* reads them when Explorer pastes.  Below it are LocalOfferRegistry and   *)
(* StableFileSource (src/clipboard/local_file.rs) and the data object      *)
(* (src/clipboard/data_object.rs); around it other applications write the  *)
(* clipboard and the files.                                                *)
(*                                                                         *)
(* A file has an identity, a size and a version of its content.  A stream  *)
(* of Explorer is read unit by unit from its start.  Which copies are      *)
(* refused is the matter of FileTree; here any copy may be.  Windows lets  *)
(* a file be opened only as far as every handle on it shares it: another   *)
(* application opens it for writing, and replaces it, only while no stable *)
(* handle is open.                                                         *)
(***************************************************************************)
EXTENDS Naturals, FiniteSets

CONSTANTS
    File,        \* the files that are copied
    Thread,      \* threads of Explorer that read a stream
    MaxSize,     \* bound on the size of a file
    MaxCopies,   \* bound on the writes of other applications to the clipboard
    MaxVersions  \* bound on the writes to the files

ASSUME CaptureAssumption ==
    /\ {MaxSize, MaxCopies, MaxVersions} \subseteq Nat /\ MaxSize > 0
    /\ File # {}

VARIABLES
    disk,     \* the files: [id, size, version]
    writers,  \* files another application has open for writing
    clip,     \* the clipboard: [kind, files, offer]
    notices,  \* WM_CLIPBOARDUPDATE messages the session has not handled
    copies,   \* copies made by other applications
    pc,       \* where the session is
    work,     \* the paths it captures
    current,  \* LocalOfferRegistry::current, 0 for none
    lease,    \* FileCaptureSession::lease, by its offer
    offers,   \* LocalFileOffer: [files, snap, revoked, expired]
    sources,  \* StableFileSource of each offer and file: [state, served]
    threads   \* [pc, offer, file, pos]

diskVars    == <<disk, writers>>
clipVars    == <<clip, notices, copies>>
sessionVars == <<pc, work, current, lease>>
vars == <<diskVars, clipVars, sessionVars, offers, sources, threads>>

Offer == 1 .. MaxCopies

OtherClip == [kind |-> "other", files |-> {}, offer |-> 0]
IdleThread == [pc |-> "idle", offer |-> 0, file |-> CHOOSE f \in File : TRUE, pos |-> 0]
NoOffer == [files |-> {}, snap |-> <<>>, revoked |-> FALSE, expired |-> FALSE]

Init ==
    /\ disk = [f \in File |-> [id |-> 0, size |-> MaxSize, version |-> 0]]
    /\ writers = {}
    /\ clip = OtherClip
    /\ notices = 0
    /\ copies = 0
    /\ pc = "loop"
    /\ work = {}
    /\ current = 0
    /\ lease = 0
    /\ offers = [o \in Offer |-> NoOffer]
    /\ sources = [o \in Offer |-> [f \in File |-> [state |-> "unstarted", served |-> {}]]]
    /\ threads = [t \in Thread |-> IdleThread]

-----------------------------------------------------------------------------
(* The session. *)

Clipboard(content) == clip' = content /\ notices' = notices + 1

\* Another application copies files, something else, or an object of ClipFerry.
CopyElsewhere ==
    /\ copies < MaxCopies
    /\ copies' = copies + 1
    /\ \/ \E files \in SUBSET File \ {{}} :
             Clipboard([kind |-> "files", files |-> files, offer |-> 0])
       \/ \E kind \in {"other", "private"} : Clipboard([OtherClip EXCEPT !.kind = kind])
    /\ UNCHANGED <<diskVars, sessionVars, offers, sources, threads>>

IsCurrent(l) == l # 0 /\ clip.kind = "ours" /\ clip.offer = l

Revoked(o) == IF o = 0 THEN offers ELSE [offers EXCEPT ![o].revoked = TRUE]

HandleUpdateUnsuppressed ==  \* mutant: the session does not know its own object
    /\ offers' = Revoked(current)
    /\ current' = 0
    /\ lease' = 0
    /\ pc' = "capture"

\* handle_clipboard_update leaves its own object alone; anything else on the
\* clipboard ends the offer.
HandleUpdate ==
    IF IsCurrent(lease) THEN UNCHANGED <<pc, current, lease, offers>>
    ELSE /\ offers' = Revoked(current)
         /\ current' = 0
         /\ lease' = 0
         /\ pc' = "capture"

TakeUpdate ==
    /\ pc = "loop"
    /\ notices > 0
    /\ notices' = notices - 1
    /\ HandleUpdate
    /\ UNCHANGED <<diskVars, clip, copies, work, sources, threads>>

\* capture_files_from_clipboard: no file list, an object of ClipFerry, or
\* refused by its effect, its count, its paths, or because it cannot be opened.
CaptureNothing ==
    /\ pc' = "loop"
    /\ UNCHANGED work

CapturePaths ==
    /\ clip.kind = "files"
    /\ work' = clip.files
    /\ pc' = "publish"

CaptureClipboard ==
    /\ pc = "capture"
    /\ CaptureNothing \/ CapturePaths
    /\ UNCHANGED <<diskVars, clipVars, current, lease, offers, sources, threads>>

PublishFails ==
    /\ pc' = "loop"
    /\ UNCHANGED <<current, offers>>

\* FileSnapshot: what a capture notes of a file.
SnapshotOf(f) == [id |-> disk[f].id, size |-> disk[f].size]

\* LocalFileOffer::create_tree
NewOffer(files) == [NoOffer EXCEPT !.files = files, !.snap = [f \in files |-> SnapshotOf(f)]]

\* FileTreeSnapshot::capture and publish_tree
PublishSucceeds ==
    /\ \E o \in Offer :
          /\ \A p \in Offer : offers[p].files = {} => o <= p
          /\ offers[o].files = {}
          /\ offers' = [Revoked(current) EXCEPT ![o] = NewOffer(work)]
          /\ current' = o
    /\ pc' = "register"

Publish ==
    /\ pc = "publish"
    /\ PublishFails \/ PublishSucceeds
    /\ work' = {}
    /\ UNCHANGED <<diskVars, clipVars, lease, sources, threads>>

\* OleSetClipboard replaces whatever is there by now.
RegisterSucceeds ==
    /\ Clipboard([kind |-> "ours", files |-> {}, offer |-> current])
    /\ pc' = "registered"
    /\ UNCHANGED <<current, offers>>

GiveUpOffer ==
    /\ offers' = Revoked(current)
    /\ current' = 0
    /\ pc' = "loop"

RegisterFails ==
    /\ GiveUpOffer
    /\ UNCHANGED <<clip, notices>>

Register ==
    /\ pc = "register"
    /\ RegisterSucceeds \/ RegisterFails
    /\ UNCHANGED <<diskVars, copies, work, lease, sources, threads>>

\* read_calls: a consumer came to read a file of the offer.
WasRead(o) ==
    \/ \E f \in File : sources[o][f].state # "unstarted"
    \/ \E t \in Thread : threads[t].pc = "open" /\ threads[t].offer = o

\* An object that was read by now is given up where it is.
CheckRegistration ==
    /\ pc = "registered"
    /\ IF WasRead(current) THEN GiveUpOffer /\ UNCHANGED lease
       ELSE pc' = "loop" /\ lease' = current /\ UNCHANGED <<current, offers>>
    /\ UNCHANGED <<diskVars, clipVars, work, sources, threads>>

\* The probe ends.  Drop of the lease asks whether its object is on the
\* clipboard and then clears it, whatever is there by now.
Quit ==
    /\ pc = "loop"
    /\ pc' = IF IsCurrent(lease) THEN "clear" ELSE "stopped"
    /\ UNCHANGED <<diskVars, clipVars, work, current, lease, offers, sources, threads>>

ClearClipboard ==
    /\ pc = "clear"
    /\ Clipboard(OtherClip)
    /\ pc' = "stopped"
    /\ UNCHANGED <<diskVars, copies, work, current, lease, offers, sources, threads>>

\* The time to live of an offer passes.
Expire(o) ==
    /\ offers[o].files # {}
    /\ offers' = [offers EXCEPT ![o].expired = TRUE]
    /\ UNCHANGED <<diskVars, clipVars, sessionVars, sources, threads>>

-----------------------------------------------------------------------------
(* Explorer and the sources it reads. *)

\* An offer lives as long as somebody refers to it, and with it its handles.
Alive(o) ==
    /\ pc # "stopped"
    /\ \/ o \in {current, lease}
       \/ clip.kind = "ours" /\ clip.offer = o
       \/ \E t \in Thread : threads[t].offer = o

HandleOpen(f) == \E o \in Offer : Alive(o) /\ sources[o][f].state = "active"

\* GetData of the contents of a file that the object on the clipboard lists.
GetData(t, f) ==
    /\ threads[t].pc = "idle"
    /\ clip.kind = "ours"
    /\ f \in offers[clip.offer].files
    /\ threads' = [threads EXCEPT ![t] = [pc |-> "read", offer |-> clip.offer, file |-> f, pos |-> 0]]
    /\ UNCHANGED <<diskVars, clipVars, sessionVars, offers, sources>>

Source(t) == sources[threads[t].offer][threads[t].file]

\* The lock of the state of a source is held while its file is opened.
Locked(t) ==
    \E u \in Thread \ {t} :
        /\ threads[u].pc = "open"
        /\ threads[u].offer = threads[t].offer /\ threads[u].file = threads[t].file

Become(t, state) ==
    sources' = [sources EXCEPT ![threads[t].offer][threads[t].file].state = state]

\* context(): the first use finds the offer revoked or expired, or opens the file.
FirstUse(t) ==
    LET o == offers[threads[t].offer] IN
    /\ threads[t].pc = "read"
    /\ ~Locked(t)
    /\ Source(t).state = "unstarted"
    /\ IF o.revoked \/ o.expired
       THEN Become(t, "failed") /\ UNCHANGED threads
       ELSE threads' = [threads EXCEPT ![t].pc = "open"] /\ UNCHANGED sources
    /\ UNCHANGED <<diskVars, clipVars, sessionVars, offers>>

\* FileSnapshot::matches
Matches(o, f) == offers[o].snap[f] = SnapshotOf(f)

SharesWrites(f) == TRUE  \* mutant: the stable handle shares the file with writers

\* open_stable_handle shares the file with readers only.
CanOpen(f) == f \notin writers

\* StableFileContext::open decides for every use of the source.
Open(t) ==
    Become(t, IF CanOpen(threads[t].file) /\ Matches(threads[t].offer, threads[t].file)
              THEN "active" ELSE "failed")

OpenFile(t) ==
    /\ threads[t].pc = "open"
    /\ Open(t)
    /\ threads' = [threads EXCEPT ![t].pc = "read"]
    /\ UNCHANGED <<diskVars, clipVars, sessionVars, offers>>

\* read_at verifies the handle and reads; behind the end it reads nothing.
ReadUnit(t) ==
    LET f == threads[t].file  o == threads[t].offer IN
    /\ threads[t].pc = "read"
    /\ ~Locked(t)
    /\ Source(t).state = "active"
    /\ Matches(o, f)
    /\ threads[t].pos < offers[o].snap[f].size
    /\ sources' = [sources EXCEPT ![o][f].served = @ \cup {disk[f].version}]
    /\ threads' = [threads EXCEPT ![t].pos = @ + 1]
    /\ UNCHANGED <<diskVars, clipVars, sessionVars, offers>>

\* Explorer has read all, was refused, or gives up: it releases the stream.
Release(t) ==
    /\ threads[t].pc = "read"
    /\ threads' = [threads EXCEPT ![t] = IdleThread]
    /\ UNCHANGED <<diskVars, clipVars, sessionVars, offers, sources>>

-----------------------------------------------------------------------------
(* Other applications and the files. *)

OpenForWriting(f) ==
    /\ f \notin writers /\ ~HandleOpen(f)
    /\ writers' = writers \cup {f}
    /\ UNCHANGED <<disk, clipVars, sessionVars, offers, sources, threads>>

\* A write keeps or changes the size.
WriteFile(f) ==
    /\ f \in writers
    /\ disk[f].version < MaxVersions
    /\ \E size \in 1 .. MaxSize :
          disk' = [disk EXCEPT ![f].version = @ + 1, ![f].size = size]
    /\ UNCHANGED <<writers, clipVars, sessionVars, offers, sources, threads>>

CloseWriter(f) ==
    /\ f \in writers
    /\ writers' = writers \ {f}
    /\ UNCHANGED <<disk, clipVars, sessionVars, offers, sources, threads>>

\* The file is deleted and another one of its name created.
Replace(f) ==
    /\ f \notin writers /\ ~HandleOpen(f)
    /\ disk[f].version < MaxVersions
    /\ disk' = [disk EXCEPT ![f].version = @ + 1, ![f].id = @ + 1]
    /\ UNCHANGED <<writers, clipVars, sessionVars, offers, sources, threads>>

-----------------------------------------------------------------------------

Session == TakeUpdate \/ CaptureClipboard \/ Publish \/ Register \/ CheckRegistration \/ Quit \/ ClearClipboard

\* The objects of the process are gone once it ended.
Explorer(t) ==
    /\ pc # "stopped"
    /\ FirstUse(t) \/ OpenFile(t) \/ ReadUnit(t) \/ Release(t) \/ \E f \in File : GetData(t, f)

Applications ==
    \/ CopyElsewhere
    \/ \E f \in File : OpenForWriting(f) \/ WriteFile(f) \/ CloseWriter(f) \/ Replace(f)

Next ==
    \/ Session
    \/ Applications
    \/ (\E t \in Thread : Explorer(t)) \/ (\E o \in Offer : Expire(o))

Spec == Init /\ [][Next]_vars

-----------------------------------------------------------------------------
(* Properties. *)

TypeOK ==
    /\ clip.kind \in {"other", "private", "files", "ours"} /\ clip.offer \in Offer \cup {0}
    /\ pc \in {"loop", "capture", "publish", "register", "registered", "clear", "stopped"}
    /\ {current, lease} \subseteq Offer \cup {0}
    /\ \A o \in Offer : DOMAIN offers[o].snap = offers[o].files
    /\ \A o \in Offer, f \in File : sources[o][f].state \in {"unstarted", "active", "failed"}
    /\ \A t \in Thread : threads[t].pc \in {"idle", "read", "open"} /\ threads[t].pos <= MaxSize

\* Whatever other applications do to a file while it is pasted, all streams of
\* one source deliver one version of it, whose size is the one announced.
OneVersionPerSource ==
    \A o \in Offer : \A f \in offers[o].files :
        /\ Cardinality(sources[o][f].served) <= 1
        /\ Alive(o) /\ sources[o][f].state = "active" => Matches(o, f)

\* What the clipboard offers of the session can be pasted, whatever was copied and in
\* which order the notifications came: its offer is the current one, not revoked, and
\* the session holds it or is about to.  The exception is an object that was read
\* before its registration was checked: the session has revoked it and forgotten it,
\* and its object stays on the clipboard until something else is copied.
OfferedObjectIsPasteable ==
    clip.kind = "ours" =>
        \/ clip.offer = current /\ ~offers[current].revoked /\ (lease = current \/ pc = "registered")
        \/ offers[clip.offer].revoked /\ WasRead(clip.offer) /\ current = 0 /\ lease = 0
=============================================================================
