# A verification model of ClipFerry

ClipFerry moves files between two paired Windows machines through the clipboard: copying files
on one machine publishes an *offer*, the other machine puts a virtual clipboard object in place
of it, and pasting there reads the files over mutually authenticated TLS. This directory holds
TLA+ modules that follow the source, the TLC configurations that check them on small instances,
and proofs, checked by TLAPS, of what holds for every instance.

Paths are those of the repository (`src/clipboard/…`, `src/….rs`).

## 1. The system

| component | source | state | operations |
|---|---|---|---|
| secure offer server | `clipboard/secure_transfer.rs`: `ServerState`, `SecureOfferServer` | table of sessions, nonce records, per session: lifecycle, last command, coverage, expiry; metrics | begin, control (pause, resume, cancel, complete), read, purge, cancel by revocation, start, stop |
| secure client and transfer group | same file: `SecureOfferClient`, `SecureRemoteSource`, `RemoteTransferRegistry` | credentials and sequence counter per stream, group flags, two connections | open, read, join the group, recover from network errors, pause/resume/cancel all, progress |
| range coverage | same file and `loopback.rs`: `RangeCoverage` | disjoint ranges, unique bytes, saturation | note |
| wire format | same file | none | encode, decode |
| TLS | `security.rs` | none | handshake with pinned or stored peers |
| device store | `device_store.rs` | identity file, one record per trusted peer | create identity, trust, list, load, revoke |
| pairing | `pairing.rs` | transcript, decisions | listen, connect, confirm |
| discovery, settings | `discovery.rs`, `app_settings.rs` | peers heard, settings file | reconcile the endpoint, load, save |
| product | `clipboard/product.rs` | live offers, pending offer, lease of the remote clipboard, view of the transfer | publish, evict, announce, accept, control, refresh |
| local offers | `clipboard/local_file.rs` | snapshot, stable handle, revoked, expiry | capture, first use, read, revoke |
| streams | `clipboard/stream.rs`, `transfer.rs`, `source.rs` | position; running, paused or cancelled | read, seek, clone; pause, resume, cancel |
| data object | `clipboard/data_object.rs`, `format_enum.rs` | formats, async flag | COM calls |
| loopback server, probes, runtime | `clipboard/loopback.rs`, `probe.rs`, `runtime.rs` | coverage, worker count | diagnostics on one machine |
| tray, window, command line | `tray.rs`, `transfer_window.rs`, `main.rs` | presentation | Win32 calls, wizards |

How they interact. The product captures the clipboard into a local offer, starts an offer server
for it and announces the server's address to the peer's inbox. The peer's product fetches the
manifest and puts a data object on its clipboard; Explorer then reads its streams, each from a
thread of its own, through the secure client. The user's pause, resume and cancel go from the
tray through the product's message loop to the transfer group. Pairing fills the device store;
every request to the server looks into it again, so a revocation acts on connections that exist.

What is hard in it:

* threads of one process share a group (flags, credentials and counters with separate locks) and
  workers of a server share a session table, with locks released around file and network I/O;
* commands are sent again after failures, so a server sees them repeated, late and out of order;
* sessions expire, peers are revoked and paired again while requests are under way;
* every wait (a paused read, a network recovery, a pause gate, a lock held during a recovery)
  must end by itself.

What makes each part correct:

* server: one live session per begin nonce; a lifecycle that ends in Cancelled or Completed;
  commands consumed once and in order; no data after a cancellation, none to a peer that was
  revoked before its read had the bytes;
  a bounded table; every request answered; expired sessions forgotten;
* client and group: what pause, resume and cancel report is what the source did; a retry makes no
  session that nobody knows of; completion is taken back when it failed; no operation and no reader
  waits for ever;
* coverage: each byte counted once, progress never goes back;
* threads of a server: every connection holds one slot until it ends; `stop()` returns;
* product: a copy is published once and never forgotten, the object on the clipboard is one the
  user can control, an announced offer has a live server, a pending offer is not lost, an
  acknowledged one is handled;
* local offers and streams: no source mixes two versions of a file; what is on the clipboard can be
  pasted; reads of one stream return its bytes in order, and clones are independent; a walk
  over directories and junctions lists every path once or says why not;
* probes: a process that is told to end does not hang behind a reader that waits for a user, and
  its output is whole or not there;
* device store, pairing, settings: one identity, a bounded set of peers, no half-written record
  is visible, trust is persisted only after both approvals, and the tray runs with what is in
  the files;
* window: what the user sees and has hidden stays as the user left it.

`PROJECT.json` lists the hazards one by one with their lines and the properties that cover them.

## 2. Modules

| module | what it is |
|---|---|
| `SessionState` | the states of a session and what a command does to them (`control`) |
| `TransferLifecycle` | abstract: what a server promises about its sessions, in four atomic actions |
| `TransferServer` | the session table and its workers, step by step; implements `TransferLifecycle` |
| `RangeCoverage` | the range arithmetic behind the progress |
| `OfferServer` | the listener, the workers' threads and `stop()` around the table, with one coverage |
| `RemoteGroup` | the streams of one paste, their readers and the user-interface thread, against the source |
| `TransferView` | abstract: what the snapshot of a product runtime promises to the tray |
| `Product` | the clipboard worker with its inbox, leases and announcements; implements `TransferView` |
| `TransferWindow` | the window of a reception and the tray's menu, driven by `TransferView` |
| `Registry` | the files of an account and the programs that read and write them |
| `Pairing` | two machines that pair, with their users' decisions |
| `TrustPromise`, `StreamPromise`, `WindowPromise` | what a pairing promises its users, a stream its readers and the window whoever closes it: the state and the property that `Pairing`, `Loopback` and `TransferWindow` keep |
| `Desktop` | `Registry`, `Pairing` and `TransferWindow` in one tray |
| `FileTree` | the walk over a copied selection and the validation of its result |
| `FileCapture` | the capture session: offers, stable sources and streams of copied files |
| `Loopback` | a virtual stream over the loopback server and the transfer control |
| `ObjectFormats` | what an object tells that it can be asked for, what it gives, and the property that ties the two |
| `DataObject` | the object a paste asks, and the enumerators of its formats |
| `ProbeProcess` | the life of a probe that keeps an object on the clipboard |
| `SecureFetch` | the probe that downloads into a file |
| `Probes` | `FileCapture`, `Loopback`, `FileTree`, `DataObject`, `ProbeProcess` and `SecureFetch` as the commands of one program |
| `TransferServerProofs`, `RemoteGroupProofs`, `ProductProofs`, `OfferServerProofs`, `DesktopProofs`, `ProbeProofs` | the theorems of section 4 |
| `MCTransferServer`, `MCRemoteGroup` | bounds and symmetry for TLC; the other modules are checked as they are |

### TransferServer

The variables are the fields of `ServerInner`, `TransferSession` and `TransferInner`, one function
per field; `pc` and `job` say where each worker thread is in its request. An action is what the
code does under one lock: `AdmitBegin`, `AdmitControl`, `AdmitRead` are the trust check and
`authenticated_session`; `BeginTransfer` is `begin_transfer` (whose `now` was read before the lock,
hence the choice of a past time); `ControlFresh` and `ControlStale` are `control`; the `Read…`
actions are `read_range`, which waits on a condition variable while the session is paused and
gives the lock back around `source.read_at`. Afterwards it holds the lock (`Locked`, which bars every
other action on the session) for three steps, because neither the store nor the clock is under that lock:
it asks the store (`ReadAllowed`, `ReadDenied`), then the clock and the state (`ReadAlive`), and notes and
hands out the range (`ReadDeliver`); a revocation or an expiry can come between any two of them. `RefuseRequest` and `CancelPeerTransfers` are `ensure_peer_allowed`; `CleanupExpiredSessions` is the purge of the listener thread. `Revoke` and
`PairAgain` are the device store, `Tick` is time.

A file is a set of chunks and the coverage the set of those delivered. Credentials are the id they
unlock. `Status` and `GetOffer` change nothing and are left out. A lost response is a worker that
becomes idle while the client sends the same request again; a late or repeated command is an
`AdmitControl` with a number issued before. `issued`, `accepted`, `nonceOf` and `everRevoked` are
the client's numbering and history; `witnessed` is what was true at some moment since a read had its bytes.

### TransferLifecycle

A session is opened, consumes numbered commands, delivers data, or is withdrawn (revocation, several
sessions at once); cancellations are counted. `TransferServer` maps its `state`, `lastSeq`,
`coverage` and `cancelled` to it.

### RemoteGroup

One thread per stream runs `SecureRemoteSource::read_at`: pause gate, credentials (the lock is held
while `begin_transfer` is sent and retried), joining the group (`group_cancelled`, then
`group_paused`), range reads with their recovery, and `Complete` at the end of the file. The
user-interface thread runs `pause_all`, `resume_all`, `cancel_all` and `local_progress`, stream after
stream. A command is one exchange: answered, or failed with the server having handled it, not having
handled it, or handling it later; `command_recovering` repeats the same bytes, `control_once` does
not. The control connection is one for all streams and is locked during an exchange, which is why an
exchange is a single step placed where the attempt begins.

A file is one chunk and its end; Explorer reads forward. The reads of one stream and the operations
of the user interface run on threads of their own, as the locks and the pause loop of `read_at`, which
sleeps until somebody else clears the flag, require. The server admits every request here;
refusals, expiry and revocation are `TransferServer`'s subject.

After a pause or a resume the client asks for the status of each stream; a failure of that request
is one of the operation.

`failed` is a history: the begins that ended with an error. The source may have handled such a begin, or
handle it later; the session then runs at the source until it expires, and no pause or cancel reaches it.
`SessionsAreAccountedFor` says that these are the only ones. A stream counts as completed from the moment
before its `Complete` is sent, and goes on counting when a `Pause` of the group was faster: the source consumes
the `Complete` of a paused session without effect, `read_at` does not look at the state in the answer, and a
`Resume` leaves the session running until it expires. `CompletionIsKnown` says no more than that.

### RangeCoverage and OfferServer

`note` as it is: append, sort (ranges with the same start in any order), merge, and either keep the
result or give up. `served` is the reference: the set of bytes noted. `uniqueBytes` follows
`unique_bytes`, which a saturated coverage keeps.

`OfferServer` extends it with the threads. The listener counts a connection before it decides
(`Accept`, then a place or a refusal), a thread that cannot be spawned gives the slot back, a worker
serves requests until it fails, is idle for too long or sees `stop`, and it may hang in the source.
`EndServing` is the end of the probe or the product; `Stop`, `Join` and `Leave` are `stop()`, whose wait
of five seconds may end at any time. Each answered read notes its range, so that every order and
overlap of reads on several connections is a behaviour. `accept` may fail for good.

### Product and TransferView

One action per step of the worker's message loop: a clipboard notification (the number is claimed
first, then the copy is captured and published), an event of the inbox, a command of the tray, a timer.
`posted` is the set of messages, because each handler drains its queue. Publication starts a server and evicts the oldest past
`MAX_LIVE_SOURCE_OFFERS`; the announcement runs on a thread of its own with retries, so that the peer
may see announcements late, twice and out of order. The paired peer is modelled by what it sends
(offers, repeated announcements) and gets (acknowledgements); Explorer by taking an object and starting
and ending its streams. A lease has its two group flags and counts its streams: what the streams do is
`RemoteGroup`.

`TransferView` has only the snapshot: pending, what it is about, a state and a generation. `Product`
maps its `view` to it. Two things that a reader might expect are not promised, because the code does
not do them: that a completed transfer stays completed (a second paste takes it back to Running), and
that a cancelled reception is not read (see the disagreements).

### TransferWindow, Registry, Pairing and Desktop

`TransferWindow` is `update` and the window procedure, the menu (which offers what the snapshot allowed
when it was opened) and the commands the buttons post. Its runtime is `TransferView` and nothing more;
a reload replaces it while the window stays.

`Registry` has the identity file, the trust records and the settings as files, and threads that are
killed between any two accesses: `create_new` followed by a hard link is one appearance of a complete
file, `trust_peer` counts, writes and counts again, `save` truncates and writes in place. `Notify` is the
message to the tray's window, if there is one; `Reload` and `StartTray` read the files and start the
runtime. The discovery thread corrects the settings when it hears a trusted peer. A `Command` thread is a
process of the command line or the pairing thread of the tray.

`Pairing` has both machines. A tray listens and may connect at the same time, `busy` keeps its user from
two questions at once, and each side sends its decision before it reads the other's. A side may give
up at any step. Hellos and handshake are one step that succeeds or fails on each side by itself.
`trusted` is the connection that made the machine trust the other; a revocation resets it.

`Desktop` is a composition by choice: a behaviour is one of one part while the others stay where they
are. The parts meet in two places only and each assumes of the others what those guarantee: a pairing
ends in `trust_peer`, which `Registry` has step by step, and a reload in `Registry` is a new runtime for
the window.

### FileTree, FileCapture, Loopback and the probes

`FileTree` is `FileTreeSnapshot::capture` as recursive functions: roots, the depth-first walk with the
directories it is inside of, level by level below a path, and the descriptor rules (`ValidTree`). Names are small numbers that
carry what the rules tell apart: their length, whether Windows can create them, and which differ only in
case. `CaptureIsExact` states the result without the walk, over the trails of the file system.

`FileCapture` is the capture session in the message loop: it takes copied files, makes an offer,
replaces the clipboard, and clears it when it ends; copies in between raise notifications of their own.
Offers are revoked by the next copy and expire. A stable source is opened at its first read, compares
the file's identity and size with its snapshot and then keeps a handle that denies writers; each unit
read notes which version of the file it was. As in the code, times and attributes do not count. Other
applications copy, and open, write and replace the files. Registration is two steps (`Register`,
`CheckRegistration`): after its object is on the clipboard, `register` asks whether it was read by now and
then fails, whereupon the session revokes the offer and forgets it. The object stays on the clipboard and
cannot be pasted; `OfferedObjectIsPasteable` states this exception and that there is no other.

`Loopback` has the virtual stream (Read, Seek, Clone, from several threads of Explorer), the range
source with one connection per range, the server's workers in `wait_for_chunk`, the commands and the
end of the probe. A byte is its offset: an answered range carries the bytes from the offset that its request
asked for, a reader joins what its ranges carried, and `ReadsAreContiguous` compares what the calls returned
with the file. Other sources than the loopback one return their bytes in one step (`FileCapture`) or are
`RemoteGroup`'s subject.

`DataObject` has every method that changes state or answers by it: the enumerators with their clones,
`QueryGetData`/`GetData` with the validation of a request, `SetData`, the asynchronous mode. Its sources
may have another length than their entries announce; such a source is refused, and each stream that is handed
out notes the index that was asked for and whose file it is. `ProbeProcess` has the main thread from its
registration through the start of the control thread and of the timer (a probe that fails there drops its lease
without a cancel) to the release of the object, the thread that reads the standard input, the timer, a quit
that another program posts, and Explorer's calls, for four probes. `SecureFetch` has the
partial file, its guard, whose removal may fail unnoticed, and the rename, with several processes and another
program writing the output.
Explorer's calls are threads of their own in all of them.

`Probes` chooses one of these parts, as the arguments of the command line do; the state of the others
does not change.

## 3. What TLC checks

| run | instance | shows |
|---|---|---|
| `server_safety` | 2 workers, 2 sessions, 2 nonces, 2 peers (one without the grant), 2 commands up to time 1 and 1 at time 2, lifetime 1 of 2 time units, limit of 1 active session | `OneLiveSessionPerNonce`, `CapacityRespected`, `CancelledCountedOnce`, `AcceptedInIssueOrder`, `CancelHasACause`, `TerminalIsFinal`, `DeliveryIsAuthorised`, `ImplementsLifecycle` |
| `server_liveness` | 2 workers, 1 session, 2 commands | `EveryRequestIsAnswered`, `ExpiredIsForgotten` |
| `group_streams` | 2 streams, 2 reads, 2 operations | `CancelReportIsTrue`, `CompletionIsKnown` |
| `group_recovery` | 1 stream, 2 reads, 3 operations, 1 late request | `PauseReportIsTrue`, `SessionsAreAccountedFor`, `OperationsReturn`, `CancelFreesReaders` |
| `group_progress_blocks` | 1 stream, 2 operations | a counterexample to `ProgressDoesNotWaitForTheNetwork` |
| `group_resume_lost` | 1 stream, 2 operations | a counterexample to `ResumeReportIsTrue` |
| `group_cancel_misses` | 2 streams, 2 operations | a counterexample to `CancelCoversTheGroup` |
| `offer_server` | 3 connections, 2 workers, 7 offsets, 3 ranges | `CountIsExact`, `SlotsAreCounted`, `ProgressNeverDecreases`, `StopReturns` |
| `product` | 1 live server, 2 offers of the peer, 4 inputs, 1 stream per object | `OfferedObjectIsLeased`, `EachCopyIsPublishedOnce`, `NoCopyIsSilentlyLost`, `AnnouncedOfferIsLive`, `PendingIsNotLost`, `ImplementsView`, `AcknowledgedOfferIsTaken`, `StopIsObeyed` |
| `product_cancel` | the same | a counterexample to `CancelledStaysUnread` |
| `probes` | see below | `OneVersionPerSource`, `OfferedObjectIsPasteable`, `SelectionIsCapturedExactly`, `ReadsAreContiguous`, `PasteSeesTheOffer`, `ProbesEndClean`, `CancelFreesWorkers` |
| `desktop` | see below | `TrustLimitHolds`, `OneIdentity`, `TrayFollowsTheStore`, `TrustNeedsBothApprovals`, `WindowObeysTheUser` |

`probes`: one file of up to 2 units, 2 threads, 2 copies and 1 write (`FileCapture`); a file of 2 bytes
with ranges of 1, positions up to 3, 2 readers, 2 workers, 2 requests and 2 commands beside the cancel of the
end (`Loopback`); every file system of two nodes with the names of the rules, and selections of one or two roots (`FileTree`);
2 entries and calls for up to 2 formats (`DataObject`); 2 calls of Explorer (`ProbeProcess`); 2 processes
and 2 bytes (`SecureFetch`). `desktop`: 2 commands beside the tray and its discovery, 2 peers and a limit
of 1, 2 addresses, 5 calls (`Registry`); 2 connections (`Pairing`); 2 generations in each of 2 runtimes
(`TransferWindow`).

Why these bounds are enough to be interesting. Two workers are the least that interleave within one
session (a read between its locks and a cancel) and between two (a begin at the limit and a
completion); two sessions let a nonce expire and be used again; two commands can be lost, repeated
and overtaken; the second peer is the one whose refusal must touch nothing. In the group, two streams are
needed for the snapshot of an operation to miss one, three operations for pause, resume, pause with a
late copy of the first; a stream of two reads reaches its end and completes. Seven offsets with three
ranges reach the limit, both sides of it, and the overflow of an end; a third connection is the one
that two workers refuse. One live server makes the second publication evict the first; two offers can
arrive in the wrong order or replace each other's lease, four inputs are a copy, an announcement, an
acceptance and a control in every order. Two peers and a limit of one are the least at which two
commands pass the count together; five calls are two changes, their notices, and the start or reload that
reads them. Two connections are one in each direction. One file with two threads reads two units of two
versions; positions up to 3 lie beyond the end of a file of 2 and at the largest position. Two workers let one wait
in a pause while the other takes a command, and two commands and the end are a pause, a resume and a cancel. Two nodes make
a junction to oneself, to the parent and to the sibling. The theorems below lift the safety
properties to every size.

`MaxClock`, `MaxCommands`, `MaxReads`, `MaxOps`, `MaxLate`, `CommandBudget`, `ReadBudget`, `MaxInputs`,
`MaxOffers`, `MaxPastes`, `MaxCalls`, `MaxSessions`, `MaxGenerations`, `MaxReloads`, `MaxCopies`,
`MaxVersions`, `MaxSize`, `MaxRequests`, `MaxEntries` and `MaxFetch` are the bounds of the model;
`MaxOffset` and `MaxPosition` stand for the largest 64-bit number. `MaxCommands` is a bound in
`TransferServer` and in `Loopback`. All other constants are the code's limits at a small size.

All runs but those of `TransferServer` have `CHECK_DEADLOCK FALSE`: a behaviour ends when the reads,
operations, inputs, calls or connections of the bound are used up, when a worker, a probe or a server has stopped, or
when every thread is idle. That something must still happen is stated where the code promises it, as a
liveness property.

### Four disagreements with the documentation

* `local_progress` is documented as non-blocking, but `has_started` takes the lock that a stream holds
  while its `begin_transfer` recovers from a network failure. The message loop, which asks for the
  progress, waits with it (`group_progress_blocks`). It does come back: `OperationsReturn`.
* `resume_all` is documented as resuming every paused stream. A stream that joins a paused group reads
  `group_paused` first and sends its `Pause` later; a `resume_all` that runs in between is undone by
  that `Pause` (`group_resume_lost`).
* `cancel_all` is documented as cancelling the streams that are not open yet. A stream whose begin
  returns after the snapshot of the started streams and before the group flag is set is in neither
  (`group_cancel_misses`). Its reader stops, but its session stays Running at the source until it
  expires.
* The user manual promises to cancel a receiving transfer from the tray. `cancel_remote` with no stream
  started only drops the lease and clears the clipboard; an Explorer that took the object for a
  paste before keeps it, and its streams start afterwards although the tray shows Cancelled and no
  lease is left to control them (`product_cancel`).

No run shows a smaller one: a comment in `Drop` of the product's lease (`product.rs:419`) says that it only clears
the clipboard while the lease owns it, but it asks first and clears in a second call, and what the user copies
in between is erased. `OfferedObjectIsLeased` speaks of the lease's object only.

### Fairness

`TransferServer` assumes weak fairness of the purge and strong fairness of each worker's steps: the threads run, a
wait on the condition variable ends by its timeout, and a thread that waits for the lock of a session gets it
although other reads take that lock again and again. Nothing obliges clients to send requests, time to
pass, or a session to be resumed. That the listener thread goes on running is an assumption about
`accept`: any other error than "would block" ends it (see the hazards).

`RemoteGroup` assumes weak fairness of each thread's steps, but the network may fail for ever: an
attempt that has not failed yet ends (sockets have timeouts); after a failure only the end of the
recovery window is certain. A source that never answers a paused read with data is covered by that, too.

`Product` assumes weak fairness of the worker thread, whose exchanges with a peer have timeouts;
announcement threads, the peer, the tray and Explorer may stop at any time. `OfferServer` assumes it of
the listener and of each step of `stop()`, and of no worker. `Loopback`, and `Probes` with it, assumes it of the
server's threads, and not of the end of a pause. All other modules state safety only and have no fairness.

## 4. What is proved

Each theorem holds for every value of the constants, from the named assumption of its module alone
(finite sets of ids, naturals for the limits, and the few inequalities written there).

`TransferServerProofs` (`TransferServer!ServerAssumption`):

* `TypeCorrect`. The type invariant is inductive because it also says which request a worker holds at
  each step.
* `NonceIdempotent`. "One live session per nonce" is not inductive: a begin trusts the nonce records,
  so one needs that every live session is on record. `LiveIsOnRecord` says so, and
  `BeginTimeIsPast` that the time a begin purges with is not in the future; with both, a purge
  never drops a live session and a repeated begin finds it.
* `CommandsInOrder`, with the strengthening that nothing above the last number was consumed.
* `TerminalStatesAreFinal` and `DeliveriesAreAuthorised`, from a lemma that lists the ways one step can
  change one session, and two invariants of the read that holds a session: the session is open and not cancelled
  once it was looked at (`HeldIsOpen`: no other action changes a locked session), and what the checks before
  saw is on record (`CheckedIsWitnessed`). That the peer is still trusted when the data leaves is not true and not
  claimed: a revocation waits for no read.
* `TableIsBounded`: only a begin adds to the table, and it adds one after it counted.
* `CancellationsCountedOnce`: each step adds to the counter as many as it cancels.
* `CancellationsHaveACause`. A number that was consumed was issued for that session (`ConsumedIssued`); sessions
  belong to the authorised peer alone, so that a refused request of another one finds none to cancel
  (`OwnersKnown`), and that peer is refused only after a revocation (`RevocationNoted`).
* `ServerImplementsLifecycle`: every step of the server is an action of `TransferLifecycle` or a
  stutter. The invariant `LookedUpIsOpen` supplies that a command or a delivery is for a session that
  was opened.

`ProductProofs` (`ProductAssumption`): `SessionIsBounded`, `ObjectsAreLeased`, `CopiesArePublishedOnce`,
`CopiesAreNotLost`, `AnnouncedOffersAreLive`, `PendingIsKept`, `ViewIsImplemented`. The invariant `Inv` ties
the places a copy or a lease can be in to each other: `OnceOK` says that a copy whose notification is not
handled was not published yet and that one about to be published is claimed; `SeenOK` that files on the clipboard are handled or that a notification of them
is posted; `CountsOK` that every lease took an announcement that neither waits nor is pending; `ControlOK`
where the worker is while it holds a lease; `ViewOK` that the state shown agrees with the lease.
`AnnouncedOffersAreLive` needs that copies are published in their order (`NewestOK`) and that the servers in the queue are ordered by it (`SourcesOK`): a
server that leaves the full queue is older than all the others in it.

`RemoteGroupProofs` (`GroupAssumption`): `GroupIsWellFormed`, `PauseReports`, `CancelReports`,
`CompletionsAreKnown`, `SessionsAreKnown`. What a report says must hold whatever copies of
earlier requests the source still handles. The invariant therefore follows the numbers: a session's last one is
below its stream's counter (`SessionsOK`), and of the commands on their way the one that has the number its session
consumed last is obeyed already, and two with one number are the same command (`CommandsOK`), so that a repetition
changes nothing. `OperationOK` says, for each place of the user-interface thread, which streams obey by then: a
cancelled one is over for good, and a paused one stays paused because every `Resume` that may still arrive has a
number that its session has left behind. `KnownOK` follows the sessions and the late begins that would open one:
whoever opened it has it, is still beginning it, or was told that it failed. `HistoryOK` says which commands a
session must have consumed to be in its state: one that is running or paused although it consumed a `Complete` was
paused before. The theorems hold for any number of streams and of late requests; the
runs have two streams and no late request, or one and one.

`OfferServerProofs` (`ServerAssumption` of `OfferServer`, `CoverageAssumption`):

* `SlotsAreBounded`. The counter runs ahead of the workers, since a connection that is refused was counted first;
  `ServerInv` says how far: the listener places one connection at a time, and none once it is over.
* `CoverageIsExact`, `ProgressIsMonotone`. The ranges kept are sorted, with a gap between any two, and cover the
  bytes noted (`CoverageInv`). Merging any sorted sequence leaves such ranges with the same bytes, whatever the order
  of ranges with the same start, and ranges with gaps count each byte once. Then a note that is kept never lowers
  the count, and one that is given up leaves it.

`DesktopProofs`:

* The store (`RegistryAssumption`): `StoreIsBounded`, `TrustIsBounded`, `IdentityIsUnique`, `IdentityIsKept`,
  `TrayIsCurrent`. `TrustLimitHolds` counts the records whose `trust_peer` has finished: a call that finds the limit
  passed takes its own record back, so a settled record was counted with every other settled one.
  `TrayFollowsTheStore` needs `Followed`: a runtime that differs from the files has a notice on its way, from the
  thread that changed them or already posted.
* The pairing (`PairingAssumption`): `OneConfirmationAtATime`, `TrustIsMutual`. The invariant follows a connection:
  an approval that was sent is the user's answer on that side (`DecisionsOK`), the two threads of a machine are on
  different connections (`ConnectionsOK`), and only the owner of `busy` asks (`BusyOK`).
* The window: `WindowIsTheUsers`, an action property, for every runtime that keeps `TransferView`, which
  `ViewIsImplemented` proves of `Product`. A window is never ahead of the runtime it displays, and of the same
  generation it displays nothing the snapshot has left (`WindowInv`).
* The tray: `TraysKeepTheStore`, `TraysTrustMutually`, `TraysObeyTheUser`, of every behaviour of `Desktop`: a step of
  the tray is one of one part and leaves the others, so that each part behaves as its own specification says.

`ProbeProofs`:

* The walk: `SelectionCaptured`, for every file system whose directories are finite (`FileSystem`) and every selection.
  `FileTree` computes by recursive functions, and the theorem compares the result with the trails of the file system,
  which mention no walk. The proof goes by the levels that are left below a path: what a call adds to
  the entries is a listing of the trails below its own (`Listing`: each once, a directory before what is in it), or
  it stops with an error that one of the trails, or their number or length, accounts for (`Refusable`). Entries
  are counted against trails by an injection between them. Induction over numbers is `Induction`, a form of it about
  sets that follows from the well-foundedness of `<`: the library states it for an operator.
* The capture session (`CaptureAssumption`): `CaptureIsTyped`, `DeliversOneVersion`, `OfferedIsPasteable`. The
  invariant says that an active handle excludes writers and that the file under it is still the one of the snapshot
  (`ServedOK`), that one thread at a time opens a source (`OpenersOK`), and that the object on the clipboard, the
  lease and the current offer agree at every step of the session, but for an object that was read before its
  registration was checked, of which the session keeps nothing (`PasteOK`).
* The object (`ObjectAssumption`): `ConsumersSeeTheOffer`. Every enumerator has given or skipped each format before
  its position (`GivenAll`), and a stream that was handed out is the file that was asked for (`Opened`); the contents
  are enumerated for the first file only if there is one (`FirstContentsIsAFile`), the smallest index of a
  non-empty set.
* The process and the fetch (`FetchAssumption`): `ReleasesAreNotBlocked` and `OutputsAreWhole`, the two halves of
  `ProbesEndClean`. The first names who may hang behind a reader of a paused transfer and says that nobody else
  does, since a quit cancels before it is posted and the input ends with it, and the pause probe cancels after
  its loop (`ProcessInv`).
* The loopback transfer (`LoopbackAssumption`): `LoopbackIsTyped`, `ReadsReturnTheFile`. Seeks and reads of one
  stream exclude each other by its lock, so that a stream has one reader at a time and does not move under it
  (`ReadersOK`); the bytes a reader has so far are those from its stream's position on, and the range on its way is
  the next one and within the file (`RangesOK`).
* The program: `SelectionsAreCaptured`, `ProbesDeliverOneVersion`, `ProbesShowTheOffer`, `ProbesAreClean`,
  `ProbesReturnTheFile`, of every behaviour of `Probes` (`ProbesAssumption`), as for the tray.

With these, every invariant, every action property without fairness, and both implementations that a passing run
checks are proved of the specification that the run checks, without its fairness. The types of the modules are
proved and not part of a run.

Only model-checked: liveness under fairness (`EveryRequestIsAnswered`, `ExpiredIsForgotten`, `OperationsReturn`,
`CancelFreesReaders`, `CancelFreesWorkers`, `StopReturns`, `AcknowledgedOfferIsTaken`, `StopIsObeyed`), which is
beyond the prover, and the four disagreements, which are behaviours.

## 5. Not modelled

* The wire format (`secure_transfer.rs`: encode, decode, framing; `pairing.rs` and `discovery.rs`:
  packets) is conversion without state. Modules exchange records; which manifests are acceptable is
  `ValidTree`.
* TLS and certificates (`security.rs`) and DPAPI are cryptography. A handshake succeeds or fails; that its
  peer is the pinned one is what the trust in `TransferServer` and `Pairing` stands for.
* The bytes of clipboard formats, file attributes and times, texts, icons, speeds, layout, the autostart entry,
  and the parsing and printing of the command line decide nothing that a property here is about.
* The methods of a stream that only fail or only describe (`Stat`, `Write`, `CopyTo`, `LockRegion`) and the
  `Status` and `GetOffer` requests change no state; the client's metrics and its pool of idle connections
  change only timing.
* Not promised, since the code does not do it: a secure receiver that its lifetime or another program ends while
  Explorer reads a paused transfer hangs until its user resumes or cancels, and for ever once its input has
  closed. So does a pause probe that could not set its timer. `ProbesEndClean` names both.
* The parts of `Desktop` and of `Probes` do not run against each other, and `Product` does not contain the
  steps of `RemoteGroup`, `OfferServer` or `FileTree`: they meet in few, narrow places (above), and a product of
  their states is out of TLC's reach.
* That all bytes of a file were read before a `Complete` is Explorer's decision; that trust is written on
  both sides or on neither is not promised; `PROJECT.json` notes the hazards for which no line of the
  repository promises anything.
