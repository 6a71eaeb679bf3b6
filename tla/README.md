# JustVerify in TLA+

Specifications of the parts of JustVerify that change a node under its owner's
hands (which Bitcoin Core runs, on which data, with which settings), of the
sessions that let the owner do so, and of the browser pages through which it is
done. The modules
are translated from the sources under `src/`; `PROJECT.json` maps every
definition to the lines it stands for.

## The system

JustVerify is a Raspberry Pi appliance. A set of small daemons, each a systemd
unit, administers Bitcoin Core and electrs; a web server in front of them
authenticates the owner and forwards reviewed requests over Unix sockets.

| Component | Sources | State it keeps | Operations | What is hard | What makes it correct |
|---|---|---|---|---|---|
| Version transitions | `src/versions.rs`, `src/version_service.rs` | `transition.json`, `active.json`, `profiles.json`, reviews in memory | preview, apply, recover, download | a dozen durable writes in two privilege domains, helpers that fail half way, a reset that cannot be undone, crash and power loss anywhere | the old binary never runs after deletion has begun; every crash leaves a journal that recovery accepts |
| Root profile bridge, startup gate | `scripts/profile_helper.py`, `scripts/node_ready.py`, `scripts/core_service.py` | `version-reset.json` guard, `/etc/justverify/*`, `node-ready.json`, unit overrides | initial check, inhibit, release, stop, activate, gate | files replaced one by one; systemd starts Core at any moment | Core starts only on the data and the binary it was registered with |
| Chain reset | `scripts/chain_reset.py` | entries of the data folders, scope locks, receipt | run | deletion is cut off half way, resumed later | deletion only under an irreversible journal and guard |
| Data folders | `src/storage.rs` | `instances/<network>/<name>/instance.json` | prepare, registered | crash between folder and marker | a folder belongs to one instance |
| Settings | `src/policy.rs`, `src/policy_service.rs`, `image/restart-core.sh` | `managed.conf`, `managed.transaction.json`, reviews in memory | preview, apply, recover | crash between journal and file, failing restart, failing rollback, another service changing the selection | settings in force are those on disk; every change can be withdrawn |
| Backup and restore | `scripts/backup_service.py`, `backup_bundle.py`, `backup_guard.py` | `restore.json`, rollback folder, reviews | create, restore, recover, startup recovery | many files, services stopped and started around them, rollback after commit | the device has one whole configuration, old or restored |
| Web sessions | `web/server.py`, `web/browser_sessions.py` | `sessions.json`, `admin.json`, sessions, attempts, streams | setup, login, renew, revoke, logout | awaits between check and use | a revoked session stays revoked |
| Remote listeners | `web/remote_rpc.py`, `web/remote_web.py` | `remote-*.json`, the listener | preview, apply, restore | a switch cut off between two writes | an unfinished change is closed |
| RPC gateway, clients | `web/rpc_gateway.py`, `wallet_gateway.py`, `manage_clients.py` | `rpc-clients.json`, call counters | rpc, create, revoke | awaits between check and answer | no answer after revocation |
| Volume setup | `scripts/volume_setup.py`, `storage_service.py`, probes | plan files, fstab, volume marker | preview, apply, recover | power loss between format, mount and registration | a volume is formatted once |
| Core downloads | `src/download.rs`, `fetch_core.py`, `install_core.py` | `download-status.json` | start, worker | a thread that takes the shared lock late | installation never overlaps a transition |
| Status collection | `src/collector.rs`, `src/miner.rs` | a cache shared by four threads | lanes | rows replaced while they are enriched | details belong to the block they name |
| Electrs, Mempool supervision | `src/electrs_status.rs`, `scripts/electrs_service.py`, `mempool_service.py` | child processes, status files | start, poll, stop | order and failure of children | the status told is the child's |
| Node status pages | `web/static/dashboard.js`, `electrs_status.js` | the last answer, the block list shown, the address asked for, timers | open, leave, poll, time out, watch | answers that are late, fail or hang; clocks that differ; headers that come without details | one request at a time; nothing stale is called synchronized; polling goes on |
| Settings and version pages | `web/static/settings.js` | form, chosen version, review with its token, one operation | edit, review, apply, cancel, download, recover | replies that come late, or after the page was left | what is applied is what was displayed, once |
| Browser tab | `web/static/app.js` | CSRF value, page, stream | login, logout, renew, open pages | answers from before another login; other tabs with the same cookie | the menu is there with a session, the welcome page without |
| Appearance and language | `web/static/device.js`, `genesis-rain.js`, `i18n.js` | preferences, preview, animation frame, originals of texts | preview, save, translate, pause | five browser events, saves and late reads in any order | one animation, no lasting preview, one language |
| Terminal UI, image build, catalogs | `src/tui.rs`, `image/`, `catalog/` | none of their own | | | |

Interaction. The version service, the settings service, the backup service and
the download worker exclude each other by one `flock`,
`/var/lib/justverify/config/operations.lock`, held for the whole of an
operation and freed by the kernel when the holder dies. What must survive the
holder is therefore in the journals, and each service looks at the journals of
the others before it begins: `ensure_no_reset` (settings),
`transaction_status` of both instances (versions), `_check_barriers` (backup).
Root actions go through fixed helpers called with sudo; these keep the reset
guard, the second record of an irreversible transition. Core itself is started
by systemd, by the helpers, or at boot, and always through `node_ready.check`.

The web service runs on one event loop: handlers interleave at their awaits, and
whatever was read before one may be stale after it. So does each browser tab,
whose calls the service answers in any order; `generation`, compared after an
await, is how a page recognises an answer to a page that was left.

## Modules

| Module | Stands for |
|---|---|
| `VersionTransition` | versions, root bridge, gate, chain reset, data folders |
| `VersionSwitch` | what a version transition promises: abstract |
| `VersionTransition_proofs` | its theorems |
| `PolicyTransaction` | settings service, restart helper, and as much of the version service as touches what they use |
| `ConfigChange` | what a settings change promises: abstract |
| `PolicyTransaction_proofs` | its theorems |
| `BackupRestore` | backup daemon, bundle, systemd around them |
| `DeviceRestore` | what a restore promises: abstract |
| `BackupRestore_proofs` | its theorems |
| `WebSessions` | sessions of the web service, logins, a new password, streams, restarts |
| `SessionRegistry` | what the web service promises of sessions: abstract |
| `WebSessions_proofs` | its theorems |
| `BrowserTab` | a browser tab composed with `SessionRegistry` |
| `BrowserTab_proofs` | its theorems |
| `NodeView`, `MCNodeView` | the overview and the Electrum page; its model for TLC |
| `NodeView_proofs` | its theorems |
| `SettingsView` | the settings and version pages over their two services |
| `SettingsView_proofs` | its theorems |
| `Appearance` | preferences, background and language |
| `Appearance_proofs` | its theorems |

### VersionTransition

Variables are grouped as the code keeps them: files of the unprivileged service
(`files`), files of root (`root`), processes (`procs`). `pc` is the place of the
running operation; every durable write and every helper call is one action, in
the order of the code, so that `Crash` and `Abort` may fall between any two.
`Preview`, `Apply`, `Prepare`, `Begin`, `Inhibit`, `Stop`, `StartDeletion`,
`LockScope`, `DeleteEntry`, `ResetDone`, `MarkTarget`, `ActivateTarget`,
`RememberTarget`, `PersistStarting`, the four steps of `activate`,
`CheckPasses`, `BeginRestore` and its followers and `Recover` are the code's own
steps. `StartPermitted` is `node_ready.check`: journal, guard, and the hashes
that bind the profile to the registration. `Crash` is the death of the daemon or
of the machine; `ServiceStart` is systemd, which starts Core at boot or 30 s
after an exit, but not after a stop it was told to make.

Networks stand for a network together with its wallet mode, the key under which
`profiles.json` remembers an instance. Resets of watch-only folders with wallets
are refused by `wallet_guard`; the model admits them, so it has more behaviours
than the code. Making the parent directory `instances/<network>` is part of the
folder's creation. The re-checks of policy revision and artifact hashes are
helper calls that may fail. The shipped image leaves initial selection to the
storage service, hence `HostAdmits`.

`StepsAdmitted` is about the checks in the middle of an operation: an open
deletion scope, `inhibit` and `release` of the guard, the registration that the
way back asks for, the gate before a launch. Each is answered by what earlier
steps, perhaps of an earlier process, have left. The property says that none of
them refuses, unless the guard is stale (finding 1).

### PolicyTransaction

`Apply` writes the journal, `WriteAfter` the file, `MarkRestarting` the journal,
`Restart` runs `restart-core.sh`, `CheckPasses` or `RestartFails` judge it, and
`MarkRollingBack`, `WriteBefore`, `Restart` undo it. `Recover` enters at the
undo. `Admitted` is what the daemon asks under the lock. The lock is not a
variable: it is held exactly while `pc` or `vpc` is away from idle, and it is
free as soon as the holder is dead. `Abort` is a durable write that
fails while the daemon goes on, that of the verdict included (`policy.rs:613`,
`:1309`): the journal then says that a change is unfinished although Core runs on
it. A version transition is reduced to furnish, begin,
stop, render, start, fail and recover; its `SwitchPermitted` asks
`transaction_status` of the instance left and of the instance selected. It
starts with an instance selected. Setting values, preflight and rendering are
abstracted to members of `Configs`; `atomic` is an atomic replacement. Starts of
Core are not gated here: more of them are possible than in the code.

### BackupRestore

A device is a function from files to the configuration their content comes from;
absence is the content a file has in a configuration without it. `files` is what
is on disk, `bundle` the encrypted backup, `saved` the rollback folder, `phase`
`restore.json`; `running[u]` is the device as service `u` found it when it
started. `pc` follows one request through the daemon: `Quiesce`, then `Create`,
or `Prepare`, `MarkApplying`, `ApplyFile`, `Validate`, the trial (`StartUnit`,
`Resumed`, `HealthPasses`, or `TrialStop`), `Commit`, `Discard`, or `Load`,
`UndoFile`, `MarkRolledBack`, `Discard`, and in every case the resume of the
`finally` clause. Startup recovery is the same path with `op = "startup"`, and
`Ready` is READY=1: systemd starts nothing that requires the daemon before it.
A start with `Restart=on-failure` also restarts what requires the daemon.

A write that reports a failure may have taken effect, because the rename
precedes the fsync of the directory; removing the rollback folder may fail
after part of it is gone (`Broken`). The order in which files are replaced is
left open. `Create` may or may not accept a mixture: the checks of a bundle
relate some files to others and leave some free.

`DeviceRestore` says what this amounts to for the owner: a device has one whole
configuration, a restore tries the backup on it, and then it has that or exactly
what it had. Its `config` maps to `files` while nothing is unfinished and to the
rollback folder while something is; `goal` to what the process is about to put
there; the stage `accepted` to the steps between "committed" and the end of the
request, in which the acceptance may still be withdrawn. `ApplyFile` and
`UndoFile` map to stutters: that is what makes the files one configuration. The
abstract device has the code's one exception as its stage `withdrawn`: finding 3.

Abstracted: passwords, the expiry of reviews, archive and encryption, the
upgrade of historical layouts, the delayed restart of the web service after a
recovery (a fault and a start here). Left to Administration: changes that the
settings and version services make to the same files. They hold the same lock
and refuse to run beside each other, but they do not look at `restore.json`, and
a daemon that dies while the health of a restore is checked frees the lock.
Services in the stop list that require nothing of the daemon (storage, Mempool)
read no backed-up file and are not among `Units`.

### WebSessions, SessionRegistry, BrowserTab

`live` is the dictionary in memory, `saved` is `sessions.json` with the digest of
the password it was saved under, `begun` a login that has read
`session_revision` and awaits its body, `streams` the terminals with whether
`session_streams` knows them, `change` a request for a new password whose session
was checked and which awaits the lock of `DeviceSettings`: by its turn that session
may have ended, and the password is set all the same. Every write of
`sessions.json` may fail, before its rename or, syncing the directory, after it.
`CutOff` ends the service between `admin.json` and `sessions.json`. Expiry may come
at any time; `Renew` is the save that puts it off. Not modelled are the limit on
attempts and a write of `admin.json` that fails after its rename: the new password
would then be in force, the request answered with an error, and the sessions of the
old one still there.

`SessionRegistry` says what that amounts to: a session is granted once, to a
login that nothing voided; one that ended stays away unless its end could not be
written and the service restarts (`ending`); a new password spares none.
`ending` maps to the sessions a restart would load although memory has dropped
them. A setup awaits its body before it reads the revision, so that it maps to
no asked login: its grant is a grant of a login that begins there.

`BrowserTab` puts app.js on top of the abstract registry, so that TLC explores
tabs over everything the service may do, not over one implementation of it.
`calls` are the requests under way with the cookie they were sent with; their
answers say what held when they were made. GET /session is under way once for
each of its two callers, and passwords beyond the first are to the tab like other
ends of sessions: both bounds are named in the module. Renewal needs a CSRF value
(`keepSession` returns at once without one), and so does what `onclose` of the
stream does: `TabWatched` says that a tab in use has one. What a page does with a
401 differs (`ApiArrives`): settings and device show the welcome page, the dashboard
an error, the dialogs of the sessions and of the password end the session as a
logout does (`device.js:6`, `:67`, `:72`, `:98`).

### NodeView

Time is counted in ticks of the one-second watchdog and the constants are scaled
down in proportion: only their order matters (`Poll + Abort < Fresh`, an
assumption). What is due happens before the next tick. A request carries whether
its generation is the current one. An answer holds the chain, whether Core is in
its initial download, behind, synchronized or in error, the age of its samples,
and the rows of blocks. `skew` is the browser's clock minus the node's. `held` is
a ghost that measures how long a list of headers has waited. Block lists are
explored until the Electrum page is first opened (`toured`), which bounds the
product of two pages that share no more than the loop.

### SettingsView

`preview` is the review held with its token and `box` the one displayed: they
come apart, and the properties are about that. `op` is the request of
`operation()`, `loads` the page states on their way, `polls` those of
`watchDownload`, `cancels` the cancellations. State of a page that was left is
forgotten where nothing reads it before it is replaced. The services are
reduced to what the page sees of `policy_service.rs`, `version_service.rs` and
`download.rs`: they issue reviews with tokens, apply a review once, and may fail or
roll back. Of the settings, the two whose values depend on each other are kept.
Left out: a service that takes a request after the page gave up on it, and the list
of versions that `choose` goes on reading until it is rendered again; the properties
are about what the page shows and sends.

### Appearance

`settings`, `columns` and `frames` are genesis-rain.js, with a look standing for
brightness, speed and density. `prefs`, `draft`, `op` and `calls` are device.js:
`calls` are the kinds of requests sent since the tab was loaded: the read of the
settings page ("open"), those of the dialogs for Tor and for a new password
("dialog"), and what the login asks ("login"). They are answered whatever page is
open by then, and since a page can be opened and a dialog sent any number of times,
an answer may leave another one under way: `calls` only grows until the tab is
loaded again. The read after a login (`AfterLogin`) may be answered at any time.
`draft` are the sliders, once the page is rendered. Because other browsers may save at any time, a read may answer any
preferences, and the answer to a save any that hold what was saved; a tab that is
loaded again finds what any tab of its browser kept.

`shown` and `cached` are one text node and its entry in `originals`; `Messages` is
the table of translations. Whatever a page writes is a new node, without an entry:
so do `textContent` and new elements. All of it is in the source language except
the message of a changed password (`TellChange`), which is written in translation.
Nothing is assumed of the table. Text nodes and attributes are translated alike.

`Slide` asks for the settings page: that a late `render()` puts sliders on the
troubleshooting page is in the model (`Rendered` makes it the settings page again,
whose place it is).

## Runs

All bounds are constants of the cfg and appear in the guards that use them.
Deadlock is not checked in the runs of the three transactions, whose bounds on
operations and failures let them come to rest, as the idle device does; it is
checked in the others.

| Run | Bounds | Shows |
|---|---|---|
| `version_transition` | 2 versions, 2 networks, 2 entries, 3 transitions, 3 faults, 2 reviews (279,004 states) | all safety properties, among them `StepsAdmitted`, `RecoveryEndsUnlessStale` and `ImplementsSwitch`. Three transitions are what a failed reset, its recovery and a later transition back need; three faults cut off an operation, its undo and the recovery |
| `version_stale_guard` | smaller, with fairness | `RecoveryEnds` is violated: finding 1 |
| `version_first_selection` | one transition | `FirstSelectionRetryable` is violated: finding 2 |
| `policy_transaction` | 2 folders, 2 versions, 3 texts, 2 reviews, 2 changes, 1 transition, 2 faults (636,968 states) | all safety properties, `ChangeEnds` and `ImplementsConfigChange`. Two changes are what an unfinished one and its successor need; one transition is what moves the selection away and back |
| `backup_restore` | 2 files, 2 configurations, 2 services, 2 backups or restores, any number of reviews and recoveries, 3 faults, with fairness (37,280 states) | `Undoable`, `StartsOnWholeUnlessUndoFailed`, `ImplementsRestore`, `RestoreEnds`, `ServicesReturn`. Two requests are what a backup and its restore, or a failed restore and the next need; three faults cut off a restore, its rollback and the recovery |
| `backup_stuck` | 2 faults | `RestoreRecoverable` is violated: finding 3 |
| `backup_services` | 2 faults | `RolledBackRuns` is violated: finding 4 |
| `web_sessions` | 3 sessions, 2 passwords, 2 failing writes, 2 logins, 1 stream (41,835 states) | `ImplementsRegistry`, `StreamsEnd`. Two logins are what one overtaken by the revocation of the other needs; two failing writes leave a file that is two revocations old |
| `browser_tab` | 2 sessions, 1 password, 1 call beside the renewals, 1 loss or restart (659,987 states) | `TabWatched`, `TabSettles`. Two sessions are the one of the tab and the one another tab put in its place |
| `node_view` | 2 requests in flight, 2 chains, 2 hashes, clocks one tick apart either way (135,414 states) | all properties. The request aborted and the one that replaced it are the two |
| `settings_view` | 2 selections, 2 reviews, the rule of Core 22 in force (81,813 states) | all properties. Two reviews are the one displayed and the one that arrives late |
| `appearance` | 2 looks, 2 languages, 1 text with a translation, any number of requests under way beside a save (243,000 states) | all properties. Two looks are the one kept and the one previewed or saved elsewhere; that texts without translation and further looks do not matter is proved |

Each property has a mutant: a defect of the kind a change to that code could
introduce, defined next to the definition it replaces and marked `Defect:`. TLC
finds the property violated with it.

Fairness. Steps of a running operation are weakly fair: the daemon is one thread
that does not wait for anyone once it has the lock. Restarts by systemd are
weakly fair (`Restart=on-failure`). `Recover` is weakly fair: the owner keeps
asking, as `docs/RECOVERY.md:26` instructs. In `BackupRestore` the request for
recovery is fair only while a restore is unfinished or a service is down: a
backup daemon that dies after it has stopped the services leaves nothing that
would start them, no journal and no dependency, until the owner asks; only
under that assumption does `ServicesReturn` hold. Failures are never fair and their
number is bounded, so the liveness properties read: if failures eventually stop.

In the browser, timers are weakly fair, and an aborted fetch rejects; answers of
the service are not fair in `NodeView`, whose timeouts must do without them. In
`SettingsView` a request is answered or its connection fails: fetch has no
timeout there, so a service that held a connection open for ever would keep the
menu inert. In `BrowserTab` the renewal timer, its answer and its handler are
weakly fair: the tab is looked at (`keepSession` does nothing in a hidden one),
and losses are bounded. In `WebSessions` the output loop of a stream runs every
30 ms and its handshake completes.

## Findings

1. `finish` writes "committed" and then releases the reset guard. When the
   release is lost, the next transition is admitted but its own guard, release
   and Core start are refused for ever by the stale one.
2. A first selection that failed leaves a folder which refuses every later first
   selection, although the interface offers to retry.
3. `restore` removes the rollback folder inside the `try` whose handler writes
   "rolling_back". When the removal fails partway and the handler is cut off,
   the journal names a folder that can no longer be read: recovery is refused,
   and the daemon cannot start, so neither can what requires it.
4. When the commit of a restore fails, the files are put back under the services
   of the trial, which go on running on the withdrawn ones: only a failed
   health check stops them, and `resume` starts only what is stopped.

`StartsOnWholeUnlessUndoFailed` has its exception for a reason that is no finding
because nothing promises otherwise: when a rollback fails inside a request,
`finally: resume` (`backup_service.py:269`) starts services on half of each
configuration. At startup and in the trial they never are, which is what the
comment at `backup_service.py:344` asks.

## Proofs

`VersionTransition_proofs`: `TypeCorrect`, `OldNeverRuns`, `DeletionIsWrittenAhead`,
`RecoveryIsAdmitted`, `FinishedBoots`, `ProfilesStayUsable`, `StartsAreOnOwnData`,
`TransitionIsSwitch`, `NoStepIsRefused`. The inductive invariant is `Typed /\ Safe`
for the first three, with `Kept` for the next five and with `Admitted` for the last.

`Typed /\ Safe` joins, for every value of `pc`, the phase in the journal, the
state of the guard and the processes that may run: deletion is only reached
through a stop that proved every process gone, and from the "deleting" phase on
journal or guard close the start gate until the target is registered. Then

    Kept     == Phased /\ Marked /\ Booted /\ ChainKept
    Admitted == GuardKept /\ ReadyBound /\ Rendered /\ Resting

`Phased`: a reset keeps its folder and a change of network leaves it, the phases
each step can be in, and which of the two instances is active there. `Marked`:
which of the two the folder is marked with, and that a remembered profile is
registered except while its folder is being handed to the new version. `Booted`:
nothing runs, and nothing will start, while `/etc` is rendered or a registration
is taken back; without it a check that passes could be of a Core that the gate
had not admitted, and `FinishedNodeBoots` would not follow. `ChainKept`: the
chain in a folder is of the version it is marked with, except in the folder under
deletion, and a folder that was emptied stays empty until it is marked. For the
refinement, `Begin`, `CheckPasses`, `PersistRolledBack`, `StartDeletion`,
`DeleteEntry` and a launch are steps of the switch (`Begin`, `Finish` or `Undo`,
`Undo`, `PassPointOfNoReturn`, `Erase`, `Run`); what ends Core is a `Halt`; every
other step, crashes included, is a stutter.

`GuardKept`: whose guard there is, that it forbids the way back from before the
first unlink to the commit, and that it is gone, or stale, on the way back.
`ReadyBound` and `Rendered`: which instance is registered, and that what a start
reads is what was rendered. `Resting`: nothing runs before a deletion, and a scope
that was emptied stays empty. `StepsAdmitted` alone is not inductive: that the
guard admits a release, for one, depends on what was written to it many steps and
perhaps a crash before.

`PolicyTransaction_proofs`: `TypeCorrect`, `OneRecoveryAtATime`,
`AlwaysRecoverable`, `SettledInForce`, `WrittenAhead`, `Implementation`. The
inductive invariant is

    TypeOK /\ Exclusive /\ Furnished /\ AtStep
      /\ NoConcurrentChange /\ RecoveryAdmits /\ SettledConfigInForce

`Exclusive`: at most one of the two services is inside an operation. `Furnished`:
the selected folder and both ends of an unfinished transition have settings,
without which a journal could name a text that does not exist. `AtStep`: at each
`pc`, the phase on disk and which of the two texts the file holds. The proof has
one step per action. `Implementation` maps the setting of a folder with an
unfinished change to the text before it, and its proposal to the text after it;
every action is then a step of `ConfigChange` or a stutter.

`BackupRestore_proofs`: `TypeCorrect`, `AlwaysUndoable`, `TrueVerdict`,
`StartsOnWhole`, `RestoreIsWhole`. The inductive invariant is

    TypeOK /\ OpAtStep /\ Remembered /\ Journalled /\ Replaced /\ Running
      /\ Released /\ Undoable

`OpAtStep` ties each step to its operation; `Remembered` says what the process
holds in memory there and that the folder on disk, if whole, is the same;
`Journalled` the phase; `Replaced` which files are the backup's or the old ones;
`Running` that nothing runs while files are replaced and that the trial runs on
the result; `Released` that a process that was asked for nothing has left no
restore unfinished once it is ready. Without `Remembered`, `Undoable` is not
inductive: `ApplyFile` writes what is in memory, `Undoable` speaks of the backup.
`RestoreIsWhole` is that every behaviour is one of `DeviceRestore`: `Prepare` is
its `Begin`, `Commit` its `Accept`, `Discard` its `Settle`, the failure of a step
before the verdict its `Reject` and of one after it its `Withdraw`,
`MarkRolledBack` its `Undo`, `Create` its `Save`; a process that dies or gives up
is a `Forget`, a service that starts a `Run` of what is readable at that stage.
For it `Journalled` also says in which phases a rollback begins, and that the
journal is unfinished until its end: otherwise one could begin or end on a
journal that already says it is over.

`WebSessions_proofs`: `TypeCorrect` and `Implementation`. The inductive invariant
is `TypeOK /\ NotAhead`: the sessions on disk were never saved under a password
that is newer than the one in force. Without it a restart after `CutOff` could
bring back sessions that a new password must not spare. Every step of a
handler, each write with its failure, and the restart are a step of
`SessionRegistry` or a stutter.

`BrowserTab_proofs`: `TypeCorrect` and `MenuIsWatched`. The inductive invariant is
`TypeOK /\ TabWatched`. Its types say more than types: an answer that found a
session names it, and a login that was answered names one that was granted, which
is what makes the CSRF value that the tab takes from them one of a session.

`NodeView_proofs`: `TypeCorrect`, `OneRequest`, `SyncedFresh`, `NoticeFresh`,
`HeadersShown`, `DetailsKept`. The inductive invariant is

    TypeOK /\ Loop /\ Watching /\ HeadersNotWithheld /\ SyncedIsFresh
      /\ Addressed /\ Timely

`Loop`: the only request that is not aborted, and the only one of the current
generation, is the one in `controller`; an open page has that request or a
timer, never both. `Watching`: an open overview is watched, and its list has
waited as long as the ghost measures. `Addressed`: an address belongs to the
choice made. `Timely` makes `NoticeIsFresh` inductive: what is left of the timer
or of the request, added to the age of the status, does not grow.

`SettingsView_proofs`: `AppliesWhatWasReviewed`, `ReviewIsOfForm`,
`NeverUnpaired`. The inductive invariant is

    Inert /\ PageShown /\ Asked /\ Displayed /\ Tokened /\ AppliedAsReviewed
      /\ Shaped /\ PairedThroughout

which says what is on the page while a request is under way (`Inert`,
`PageShown`), what that request was made from (`Asked`), which review a
displayed box and a token belong to (`Displayed`, `Tokened`), and that the
pairing of the two I2P settings holds in the form, in what it is reset to, and
in what an applied review puts there (`Shaped`, `PairedThroughout`).

`Appearance_proofs`: `OneAnimation`, `NoLastingPreview`, `OneLanguage`. The
inductive invariant is
`Typed /\ AnimatesAsConfigured /\ PreviewEnds /\ Faithful`; `Faithful` relates a
text, its entry in `originals` and what the page wrote last. `OneLanguage` is about
every text, also one written in translation, and about every table of
translations: that text() is applied to what was written and never to its own
result. That a page writes only sources is no assumption, and the one text that is
written in translation stays in that language.

The assumptions are those of each module's `ConstantsAssumption`; TLC evaluates
them in the runs above. Most say that `None` is none of the values it stands
beside. Two are about the code: a poll and its timeout fit into the time a
sample counts as fresh (2 s and 10 s into 15 s), and a list of blocks has one row per hash (both of
`NodeView`). The bounds on ages
of `NodeView` lie beyond everything that is compared with an age, for each of the
differences of clocks considered; these may be any. No lemma uses `toured`, the
bound of the exploration.

Proved but not run: `TypeOK` of `BackupRestore`, `WebSessions` and `BrowserTab`, and
`VerdictIsTrue` of `BackupRestore`. The runs leave them out
because a deeper property stands for them: `ImplementsRestore` needs a true verdict
for its `Accept` and its `Undo`, and both refinements need the values of the
abstract variables to be right.

Only model-checked: liveness (`RecoveryEndsUnlessStale`, `ChangeEnds`,
`RestoreEnds`, `ServicesReturn`, `StreamsEnd`, `PollGoesOn`, `ControlsReturn`,
`TabSettles`), which is outside the prover's reach.

## Plan

1. `VersionTransition`, `PolicyTransaction`, `BackupRestore`: done, each
   with the abstract specification it implements (`VersionSwitch`, `ConfigChange`,
   `DeviceRestore`).
2. `WebSessions`, `SessionRegistry`, `BrowserTab`, `NodeView`, `SettingsView`,
   `Appearance`: done.
3. Proofs: `WebSessions` implements `SessionRegistry`, the invariants of
   `SettingsView`, `NodeView` and `Appearance`, `VersionTransition`
   and `BrowserTab`, and the implementation of `VersionSwitch`, `ConfigChange` and
   `DeviceRestore`: done. Every safety property of a passing run is a theorem.
4. `Administration`: settings, versions, backup and downloads over one lock, with
   the barriers each asks of the others. A daemon that dies while the health of
   a restore is checked frees the lock, and a change may begin on files that the
   startup recovery then replaces; the download worker installs after the state
   it was asked in has changed.
5. `VolumeSetup`, `RemoteListeners`, `Gateway`, `Collector`.

## Not modelled

Validation rules of setting values, the filter of watch-only RPC parameters,
byte proxies, rendering, the terminal interface, the image build, catalogs: no
state for a state machine. Of the web service, the limit on attempts, whose list
another request may have pruned while a body was awaited (`server.py:217`). Of
the browser, the dialogs for the account name, the sessions and power, and the facts
of the device. Of the collector, the
rows that one lane enriches while another replaces them. These are left to the
plan above.

The message of a changed password is written in translation (`device.js:67`), which
translate() then takes for a source: when another language comes into force, this
one text stays in the former, although `docs/SETTINGS.md:105` lets a page follow its
browser. The model has the step (`TellChange`); `TextsFollowLanguage` says of such a
text that it stays as it was written.

Known behaviour that no document rules out, and that the models contain or this
list only names: `open()` of the device page starts its interval also when the
page was left before its answer; the reload after an application shows the
settings over another page; a read answered late overwrites preferences saved
since; the Tor switch renders the page without giving up a preview; a review
asked twice leaves the token of the first to expire; a download answered after its
page was left is watched, and rendered, by the page open then
(`settings.js:102`, `:108`).
