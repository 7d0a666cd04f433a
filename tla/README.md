# TLA+ models of the Orbit client SDK

This directory holds TLA+ specifications of the Rust client of the Orbit SDKs
(`sdk/rust/src`) and of the command line tool (`cli/src`), TLC configurations that check them on small instances, and
TLAPS proofs of the theorems that hold for every instance.

## The system

The SDKs let an application check a customer's licence. The Rust client is the
reference modelled here; the Go, C++, C#, Python and TypeScript clients speak
the same protocol. Its parts:

| Part | State | Operations | What is hard |
|---|---|---|---|
| State directory (`installed_linux.rs`, `DiskState`) | lock file with an flock and a write marker, record file | `Backend::open`, `write`, `verify`, drop | crash or power loss between two system calls, two processes |
| Installed record and lifecycle (`installed.rs`) | generation, credential, pending activation, cached grant, offline record | `prepare_activation`, `commit_access`, `clear_cached`, `checkpoint`, `restore`, `open`, `close` | a failed commit, a retry of an activation that may have happened |
| Access client (`access.rs`) | `State`: credential, claims, anchor, `restored`, `transient`, `generation`, `storage_version` | `activate`, `refresh`, `require_access`, `snapshot`, `logout`, `deactivate` | state read before an await and used after it |
| Floating sessions (`access.rs`, `sessions.rs`) | session, pending id, renewal sequence | start, renew, maintain, end | dropped futures, lost renewals, seats left behind |
| Offline files (`offline.rs`, `installed.rs`) | sequence and clock floors | import, restore, checkpoint | replay of older files, clock rollback |
| Clocks (`clock.rs`, `restored_time`) | anchors of server, wall and monotonic time | `now`, `restored_time` | clock steps, sleep, overflow |
| Grant verification (`grants.rs`, `sessions.rs`, `access.rs`) | key cache | verify, fetch keys, restore | key rotation, slow exchanges, edges of a lease |
| Transport (`transport.rs`) | attempts, deadlines, cancellation | `get`, `post` with retries | which errors are uncertain, what may be sent again |
| Limits and metering (`limits.rs`) | operation ids | consume, allocate, release | a lost answer of something that was counted |
| Customer accounts (`accounts.rs`) | session, generation | sign in, sign out, query, activate | answers that arrive after a sign-out |
| Updates and downloads (`updates.rs`, `downloads.rs`) | staged file, ticket | check, authorize, download, verify a ticket | redirects, power loss, other programs |
| Windows and macOS backends (`installed_windows.rs`, `installed_macos.rs`) | lease file with a marker, data file | open, write, drop | as on Linux, over other calls |
| Credential stores (`storage.rs`, `storage/`) | keyring or DPAPI file, version | load, save, invalidate | helpers that are killed and write late, no marker on DPAPI |
| Command line tool (`cli/src`) | idempotency keys, profiles | commands, `credentials set` | lost answers, two operators, batches that fail midway |

Calls of an application share one client. Those that talk to the service run
under the `serial` mutex and suspend during requests; `logout`, `deactivate`,
`resolve_pending_activation`, `snapshot` and the worker's checkpoint run at any
suspension. The client keeps its memory in step with the record through
`sync_storage`, and drops an answer when `State.generation` moved.

## Modules

### StateFile: the state directory on Linux

One action per system call that changes the directory. A name, the marker and
the record each have a visible (`vol`) and a durable (`dur`) value; `WriteBack`
lets the kernel make a change durable at any time, `PowerLoss` reverts to what
is durable and may tear a record whose content was not synchronised, `Crash`
closes one process's descriptors. Every step may fail: `OpenFails`,
`WriteFails`, `UnmarkFails` (which puts the marker back, best effort),
`CheckFails`. A record is the number of the commit that wrote it. Three history
variables support the properties: `floor` (the youngest commit whose fence
became durable), `established`, `interrupted`.

| Model | Code |
|---|---|
| `OpenLock`, `TakeLease`, `CheckMarker`, `SyncLease`, `SyncParent`, `ReadData` | `Backend::open`, `InstalledStorage::open` |
| `Commit`, `StartWrite`, `GiveUp` | `DiskState::commit` |
| `Mark` ... `UnmarkSync`, `Remark`, `RemarkSync` | `write_pending_marker`, `Backend::write` |
| `Close`, `Unlocked` | `InstalledStorage::close`, `Drop for Backend` |

### AccessClient: ordinary licences

The record (`rec`), the memory (`mem`), the serial lock, one call per task, and
the service. A commit is one step with four outcomes, the ones StateFile
justifies: done; failed with the old record; failed with the new record; failed
with a directory that no longer opens (`bricked`). `current` is the set of calls
whose generation is still `State.generation`: moving the generation empties it.
An operation id, random in the code, is the generation of the record that first
carried it; a credential and a grant are named by the activation they belong
to. A grant ages from fresh to due to expired (`Age`); a clock check fails or
succeeds nondeterministically. `epoch`, `born` and `settled` are history.

`accept_for_licence` is one action per kind of answer (`AcceptStale`,
`AcceptOk`, `AcceptTransient`, `AcceptUnverified`, `AcceptError`), each the whole
section under the state lock. `require_access` is a snapshot, a
`refresh_if_needed` and a snapshot, and so is no action of its own; `Granted` is
what it answers in a state, and `AccessIsBacked` is stated of it. Branches for
floating sessions, offline files and accounts are in the modules of those parts.

The service is modelled from its use: an activation is carried out at most once
per operation id, possibly long after the caller gave up (`ServerActivates`),
and replaces what the installation had; anything may be revoked at any time.

### FloatingSession: seats

The session fields of `State` (`st`), the serial lock, one call per thread (the
application's tasks and the worker that `open` spawns), the requests that were
sent and the seats of the service. Every section under the state lock is a
step, so `end_session`, `logout` and the guard of a dropped future run between
any two sections of a start. `sent` holds the requests that may still change
the service, at any time and also after the caller gave up; an answer may be
lost (`Reply` with `transient`).

| Model | Code |
|---|---|
| `StartSession`, `Enter`, `StartNotNeeded` ... `StartInvalid`, `Cleanup` | `start_session_with_cancel`, `start_session_serialized`, `send_session_end_cleanup` |
| `EndSession`, `EndNow` | `end_session_with_cancel`, its two sections |
| `Maintain`, `MaintainUncertain`, `RenewSends`, `Renewed` | `maintain_session`, `renew_session` |
| `Check` | the automatic start of `accept_with_licence` |
| `ActivateSends`, `Accept*`, `Logout` | what these do to the session fields |
| `Drop` | `SessionAttemptGuard` |
| `BeginClose`, `FinishClose` | `close` |

The service is modelled from its use: a start is handled once per id, a renewal
must carry the next sequence number, the end of an unknown id is ignored, a
seat expires by itself but not before the client's view of it. Sequence numbers
and ids are bounded (`MaxSequence`, `MaxSessions`); `Closes` says whether the
client is closed in a behaviour.

`dropped` records the seats that the code gives up without an end request and
leaves to their interval: at a logout, an activation, an ordinary or failed
reply, an expired or uncertain session, a pending id that is two minutes old,
and a cleanup whose future is dropped. `SeatsAccounted` says that there is no
other way to lose one; a seat whose start is in flight is never among them, as
the start releases it when it finds itself overtaken. `resolved` limits
`SeatBehindAccess`: `resolve_pending_activation` moves the generation and leaves
the pending id, so a start that is in flight at that moment releases an id which
the next start uses again. A clock that cannot be read at the beginning of a
request, and a future dropped outside a tokio runtime, are left out.

### Clock and GrantClock: what a client takes for the time

`Clock` has the arithmetic of `clock.rs` and of `restored_time` as operators on
readings of the wall clock (whole seconds) and the elapsed clock (ticks, `Res` to
a second, so that truncation shows). `GrantClock` runs a grant through them: a
request is asked, stamped by the server and received (`Ask`, `Stamp`, `Receive`),
snapshots check the drift, `Checkpoint` and `Close` save the floors, `Open`
restores, and the user sets the wall clock at any moment (`SetWall`). Up to `Gap`
ticks pass between two readings of one step. `base`, `durable` and `since` are
history: the time that processes ran with the grant.

### OfflineFile: signed files

The `Record` with its offline part, credential and pending activation, the
runtime in memory, and a file being imported: `save_offline` and the checks after
it are two steps, with everything else in between. `Open` restores or rebinds,
`WorkerCheckpoint` and `Snapshot` raise the floors, `StorageFails` and `Crash`
interrupt. A file is installation, sequence, `iat` and `exp`; its signature is
good and its syntax is left out. `seen`, `owed` and `paid` are history: the floors
that became durable, and the time that was used.

### Grants: verification

One exchange at a time: `Ask`, `ServerAnswers` with claims that an honest or a
careless server may issue, `NeedsKeys`, `FetchKeys`, `FetchMisses`, `Verify`, with
`Rotate` and time between any two of them, and `Restart` for `restore`. A request
is an activation (`saved` is `Absent`), a refresh or the start of a session, of a
client that is installed or not: the credential of an installed client has no end,
that of any other has one of at most 30 days. `CredentialOk` is what `verify_reply`
demands of `credential_expires_at` before it looks at keys (`RefusesCredential`
otherwise); `Common` bounds a grant by it and by the end of the licence, and the
longer refresh span of offline use applies only without it. The record is that of
an installed client. Signatures are perfect: a token verifies with a key set that
has its key. Clocks run true here; GrantClock has the others.

### Transport and Metering

`Transport` is one operation of up to three attempts: `request`, `retry`, the
timeouts of an attempt and of the operation, the caller's cancellation and `close`.
A request on the wire may be handled at any later time and an answer may be lost.
A `safe` request may be repeated after a transient failure, an `unsafe` one
never is, a `cleanup` has two seconds. `Metering` EXTENDS it with jobs of
`limits.rs`: each draws an operation id, and its caller learns `ok`, `limit`,
`refused` or `uncertain`.

The service is external. It does what `sdk/rust/README.md:221` states: it counts an id
once and answers a repetition with the original debit or allocation; a denial is
repeated for usage (`Debits`), and a denied resource mutation is decided anew. That
page does not say what an error envelope of a 5xx answer means; the model assumes
that this request was not counted. Counters are shared with others, so any request
for units may find one full. `limits.rs` calls a denial certain whatever attempts
came before it, and `CertainMeansNotCounted` claims it where this service justifies it:
for the first attempt, and for usage as long as the credential was not revoked. A
denial of a resource, or of a revoked credential, after a first attempt that was lost
does not tell whether that attempt was counted.

### Accounts

`login`, `logout_account`, queries and activations with a session, by tasks on one
client. Sessions are numbered as the service creates them; `mem.account` is the
session held and `mem.cred` whose activation it is. Calls with a session wait for
the serial lock, signing out does not. `epoch` counts completed sign-outs, `born`
and `credBorn` the epoch in which something was asked for.

### Downloads

`check_for_updates`, `authorize_download` and `download`: redirects, staging chunk
by chunk, `sync_all`, the last check, publication by rename or by link, and the
future that is dropped (`Dropped`). The destination is shared with other downloads
and programs and has a visible and a durable value; `LosePower` keeps the durable
one and tears an unsynchronised file. The endpoint's check of a ticket
(`downloads.rs`) is `TicketGood`. A time unit stands for 30 seconds.

### CredentialStore, and the stores that implement it

`CredentialStore` is the abstract specification of the `Storage` trait: a record
with a version, `Open` by one process at a time, `Save` with the current version,
`Invalidate`, and leaving it; a store that was interrupted is `Fenced` and opens no
more.

- `SecretStore`: the keyring behind a lease and a marker. The helper that writes
  the keyring is killed after five seconds; `late` holds the writes of killed
  helpers, which the keyring may still apply. `Left` are the records that the
  keyring may have under the name of a directory that was removed and made anew:
  `MCStores` begins with none of them (platform `keyring`) or with any
  (`keyring left`); the refinement is about the first.
- `NativeFile`: the installed record on Windows (`AtomicLease`) and macOS, with the
  binding to a machine (`Move`, `Rebound`).
- `DpapiStore`: `WindowsStorage`, which has no marker. What a failed write left is
  what the next process finds, so a power loss may undo a replacement that nobody
  acknowledged and somebody read; it implements `CredentialStore` on a machine that
  keeps running, and keeps what it acknowledged (`NeverOlder`) on any.

Each has the two expressions of its refinement mapping, `Shown` and `Views`: while a
write is under way the store is what the writer had before, a marker without a
writer is `Fenced`, otherwise the record that is there; a process has its record
from the moment the marker is cleared (DPAPI: from the replacement). `MCStores`
instantiates `CredentialStore` with the pair of the platform at hand.

### Management, Profiles, PolicyTerms: the command line tool

`Management` groups the commands by how they talk to the service: `keyed` (one
change with an idempotency key), `edit` (a read first), `policy` and `status` (no
key), `merge` (read a map, send it back changed), `move` (preview, confirm, apply in
batches). Operators repeat a command that failed, with the key they were told.
`Profiles` is the replacement of `credentials.json`, without a lock. `PolicyTerms`
is the function that makes the terms of a new version, over all flags.

### Modules of proofs

`StateFileProofs`, `AccessClientProofs`, `FloatingSessionProofs`, `TimeProofs`
(GrantClock, OfflineFile and Grants), `MeteringProofs` (Transport too),
`DownloadsProofs`, `ServicesProofs` and `StoresProofs` extend what they are about and
hold no part of the model; see Proofs.

### Modules for TLC

`MCStateFile`, `MCAccessClient`, `MCFloatingSession` and `MCMetering` instantiate one
specification. `MCTime`, `MCStores`, `MCServices` and `MCRequests` put several parts
that share no state into one state machine, with a variable that says which of them
a behaviour is about: the client has one kind of authority, a program one store. A
property of one part does not depend on the variables of the others, so this is as
strong as checking each alone, and far cheaper than their product. Constants of the
parts are given there, those of `MCTime` in `Time.cfg`.

## Runs

| Run | Instance | Shows |
|---|---|---|
| `state_file` | 2 processes, 3 commits, symmetric | `NoRollback`, `ReadyIsDurable`, `OneLease`, `NoFalseCorruption` |
| `state_file_first_open` | 2 processes, 2 commits | violation of `SecondProcessInUse` |
| `access_client` | 2 tasks, 2 keys, `MAX_GENERATION` = 3, symmetric | `VersionInSync`, `AccessIsBacked`, `RecordIsValid`, `LogoutIsFinal`, `NoLostActivation`, `RestartGainsNothing` |
| `access_client_live` | 2 tasks, 1 key, `MAX_GENERATION` = 1 | `EveryCallReturns`, `CloseCompletes` |
| `floating_session` | 1 task and the worker, 2 session ids, sequence numbers to 2, no close | `EndIsFinal`, `SeatBehindAccess`, `RenewalsInStep`, `SeatsAccounted` |
| `floating_session_live` | 1 task and the worker, 1 id, with close | `NoStartAfterClose` with `SeatsAccounted`, `CloseCompletes`, `CallsReturn` |
| `floating_session_end` | as `floating_session` | violation of `EndedStaysEnded` |
| `time` | a grant over 6 ticks and 4 positions of the wall clock; 4 offline files over 3 seconds; 2 key rotations over 7 seconds, credentials with and without an end | `ClockIsSound`, `OfflineIsFinal`, `GrantIsSound` |
| `stores` | 3 processes, 2 credentials, versions to 2, 2 power losses; 2 profiles, 3 commands | `Refines`, `HeldAlone`, `WrittenStays` |
| `requests` | 3 attempts with delays 0, 1 and 4 in an operation of 7; 2 operators, 2 tasks, 4 runs; 2 batches; all flags over 1 entitlement | `SentSafely`, `CallsEnd`, `CommandsAreSafe` |
| `metering` | 2 callers one after the other on one of 3 jobs (release, acquire, consume), symmetric | `JobCountedOnce`, `OutcomeIsTrue` |
| `services` | 2 tasks, 2 customers, 2 sessions; 2 downloads and a power loss; 1 download over 5 units of time; symmetric | `AccountIsSafe`, `DownloadIsSafe`, `NothingStale` |

Every run but the live ones and the violations also checks the types
(`TypeOK`, `TypesOK`; `metering` does not, as `requests` checks Transport's).
Properties of the last five runs are conjunctions of named parts:

- `ClockIsSound`: believed time never falls below a saved floor
  (`NeverBelowFloor`), covers the time processes ran (`RunningTimeCounts`), is not
  late for the server's (`NeverLate`); a clock nobody set is never uncertain
  (`HonestClockIsTrusted`).
- `OfflineIsFinal`: no replaced or conflicting file is shown (`NewestFileOnly`), a
  file that was over stays over, importing again buys no time, memory shows what
  the record has, and the client opens its own record.
- `GrantIsSound`: an honest reply is accepted unless the exchange took longer than
  the skew, a lease is bounded in itself and by the ends of licence and credential,
  a restart is neutral.
- `HeldAlone`: a process that opened a store works from what is stored, alone, on
  the machine it was bound to; a write to a keyring that was empty at first has its
  fence on disk (`FenceIsDurable`); the second one on Windows is told InstallationInUse.
- `WrittenStays`: an acknowledged write of the DPAPI store is never undone, and
  `credentials.json` is whole, keeps profiles a command did not name, and leaves no
  token beside it.
- `Refines`: the stores implement `CredentialStore`.
- `SentSafely`, `CallsEnd`: what is not safe to repeat is carried out at most once,
  a decision is final, delays fit into the operation; every operation ends, and
  sends nothing after a cancellation.
- `CommandsAreSafe`: keyed commands change things once and a failure without a key
  is certain; only what was previewed is moved and the report is true; a new
  policy is consistent and differs only by the flags.
- `OutcomeIsTrue`: counted, denied and refused mean what they say, the last two where
  the service's promise suffices (see Transport and Metering); everything else is
  uncertain.
- `AccountIsSafe`, `NothingStale`: no authority or answer crosses customers or a
  sign-out; a download does not replace what appeared after it looked.
- `DownloadIsSafe`: the destination is whole and newer, or untouched; a failure
  leaves nothing; the ticket stays with its endpoint and its window.

Bounds. Where there is a theorem (see Proofs) it removes the bounds of the run; they
matter for the rest, and for what the runs explore. `MaxRecords` (3) allows a first record, a second that is interrupted
and a third after a restart. `MaxGeneration` (3) allows a pending
activation, a logout and a second activation, and makes the limit of the
generation itself reachable. Two tasks suffice for one call in flight and one
that waits for the serial lock, with local calls at every point between. Two
session ids make an old attempt and its successor overlap; two sequence numbers
make one renewal, its loss and its retry. With one task and the worker, all
operations but two calls of the application at once are concurrent: `logout`
and `resolve_pending_activation` are steps of their own. Tolerances, lifetimes and
timeouts are scaled down and keep their order: the wall clock can be set by more
and by less than the tolerance, a delay can be shorter, equal to and longer than
what is left, a ticket can be early, valid and late. Three processes let one hold a
store, one wait and one open after a crash; two losses of power let one hit the
repair after the other. Two callers on one job are a call and its repetition with the
same id; the service settles every job by itself (`OneJob`), and the three jobs are
the three kinds. Deadlock is checked in `state_file`, `access_client`, `access_client_live` and
`floating_session`; the other
systems may stop: a client is closed, a bounded clock ends, commands are used up.

Fairness. `FairSpec` of AccessClient and `LiveSpec` of FloatingSession: a step of a
running call is strongly fair, since a request ends within the transport's
operation timeout and `tokio::sync::Mutex` serves waiters in order, so a call that
waits for the serial lock gets it. `close` runs to its end once it has the lock.
`Fairness` of Transport: time passes (`Tick`), and the runtime polls a future whose
timer or token is due (`Polled`); the server and the network owe nothing, and that
every operation ends all the same (`EveryCallReturns` in `CallsEnd`) is what the two
specifications above assume of a request. Nothing is assumed of callers, of
operators, of dropped futures (`Drop` is not fair), or of storage.

Findings. `state_file_first_open` shows that two processes which open a new
directory together can leave it unusable. The lock file is created and locked
by two calls; a second process that opens it in between takes the lease first,
finds no record, and reports `CorruptState`, as does every later open. The
documentation says that a second process receives `InstallationInUse`
(`sdk/rust/advanced.md:119-120`). The macOS backend has the same order of calls;
on Windows the lease file is created unshared and the race does not exist.

`floating_session_end` shows that `end_session` can be undone by the worker.
`maintain_session` checks `session_disabled` in one section of the state lock
and calls `start_session_with_cancel` after it, which reads the generation anew
and starts explicitly, and so enables the session again. An `end_session` that
falls between the two has returned, and the worker asks for a seat nevertheless;
`require_access` on another task has the same window. The documentation says
that ending disables automatic reacquisition (`sdk/rust/README.md:160-161`).

Three more disagreements of code and documentation came up while modelling and
have no run. `entitlements` sends a whole map back without a revision, so that a value
another operator set in between is lost (`cli/src/licences.rs:171`,
`cli/README.md:94`). `policies create` sends no idempotency key, so that repeating it
after a lost answer makes a second version (`cli/src/policies.rs:261`,
`cli/README.md:197`). And `Lease::open` of the keyring
adapter synchronises a new lock file and its directory only in the process that
created it. A process that takes the lease before the creator, or after a creator that
died, and finds the record of an earlier directory in the keyring takes it over
(`storage/secret_service.rs:55`) and writes behind a marker whose directory entry is
not durable; the comment says that the entry is persisted "before any subsequent
pending marker can authorize a keyring write" (`storage/secret_service/lease.rs:101`).
A power loss then removes the fence of an interrupted write. On `keyring left` of
`MCStores`, `FenceIsDurable` and the refinement therefore fail, and are not among
what `stores` checks there; exclusive use and the harmlessness of late helpers are.

## Proofs

Eight modules hold the theorems. In each, one inductive invariant carries all of
them: it is proved step by step, with a lemma for every action (or for a group of
actions that change the same fields), and the properties follow from it. Every
invariant was model-checked on the instance of the run before it was proved.

| Module | Proves | For every |
|---|---|---|
| `StateFileProofs` | all properties of `state_file` | set of processes, `MaxRecords` |
| `AccessClientProofs` | all properties of `access_client` | set of tasks and licence keys, `MAX_GENERATION` |
| `FloatingSessionProofs` | all properties of `floating_session`; `NoStartAfterClose` of `floating_session_live` | set of tasks, number of session ids and sequence numbers, with and without close |
| `TimeProofs` | all properties of `time` | tolerance, resolution, gap, position of the wall clock, set of files, lifetime, skew, number of keys and installations |
| `MeteringProofs` | `SentSafely` and the safety half of `CallsEnd`; all properties of `metering` | set of callers and jobs, delays, attempts, timeouts |
| `DownloadsProofs` | the parts of `DownloadIsSafe` and `NothingStale` that are about downloads | set of downloads, length, redirects, lifetimes, losses of power |
| `ServicesProofs` | all properties of `services` | set of tasks and customers, sessions, generations |
| `StoresProofs` | all properties of `stores`, the refinement included | set of processes, credentials and machines, versions, losses of power |

**StateFileProofs**, `IInv`:

- `LeaseInv`: a process past the flock is the holder of it;
- `NamesInv`: a record, visible or durable, or a floor implies a durable lock
  file; a record is synchronised before its name is; the floor is at most the
  number of commits;
- `FenceInv`: while the marker is empty (or could be after a power loss), the
  record that an open would read is at least `floor`. This is the heart of it:
  `NoRollback` alone is not inductive, since it says nothing of the directory
  while no process has it open;
- `PhaseInv`: what each phase of a write knows of marker, record and content;
- `Quiet`, for `NoFalseCorruption`: without interruption, the marker is pending
  only while the holder is writing.

**AccessClientProofs**, `IInv`: `LifeInv` (a closed client holds nothing; a
directory that no longer opens is in use only by a client whose storage is
poisoned), `RecordInv` (no cached grant beside a pending activation; the
generation has counted every logout), `MemoryInv` (memory against record, as long
as storage works) and `CallInv`. The last is what makes the rest inductive: a call
whose generation is still current began after the last logout, and the activation
it waits for is the one pending in the record. That is the use the code makes of
`State.generation` after an await. `CommitLeaves` and `NextLeaves` state once what
a commit may leave, and every action that commits cites them.

**FloatingSessionProofs**, `FloatInv`. None of the four properties is inductive: a
seat is lost or taken away by requests and calls that outlive the state they were
made for. The invariant therefore says, for every phase of a call, which seat it
answers for: `CallInv` (a call that waits or cleans up holds the lock; while its
generation is current, a start answers for the pending id and a renewal for the
session; what an answer says of a seat is still so), `StateInv` (the id pending or
held was drawn after the last end, logout or activation: `EndIsFinal`), `ServerInv`
(the service knows only ids that were drawn), `SequenceInv` (`RenewalsInStep`),
`ReleaseInv` (nothing under way releases an id the client tracks, unless
`resolve_pending_activation` came between), `HeldInv` (`SeatBehindAccess`) and
`SeatInv`, which accounts also for a seat that a request in flight may still take:
`SeatsAccounted` alone fails at the step in which such a request arrives. The action
half of `NoStartAfterClose` goes action by action over what is sent.

**TimeProofs**, `TimeInv`: the invariant of the part at hand.

- Clocks, `ClockInv`: the anchor is older than the process's hold on the grant
  (`MemInv`), the floors on disk cover what processes ran and, on a clock nobody set,
  have advanced alike since the receipt (`CacheInv`), and the anchor in memory goes
  on from them (`BothInv`). The work is in the truncations: `DivParts` and `DivSum`
  bound what truncating two differences loses against truncating their sum, and are
  cited wherever a floor is compared with a later reading.
- Offline files, `OfflineInv`: the record is one that a later process will open and
  has the sequence, the id and the floor of the newest file accepted (`RecordInv`);
  the anchor in memory covers the time that is owed and its own floor, and memory
  with authority matches the record unless storage is poisoned (`RuntimeInv`);
  between the commit of an import and its last check the new runtime belongs to the
  record and the old one has no authority (`ImportInv`). `CheckpointOutcome` states
  once what `checkpoint_offline` may leave, `Grows` what any commit but an import's
  may do to the record: raise its floors or drop its file, never the sequence, the id
  or a floor.
- Grants, `GrantInv`: grants in memory and in the record are the one that was accepted
  and within the lease, the licence and the credential (`LeaseInv`), after a
  fetch the client has the key of the reply (`ExchangeInv`), and an honest one for offline use is lost from
  memory only when it is over (`NeutralInv`).

**MeteringProofs** has two layers. `TransportInv` counts: what was carried out plus
what is still on the wire is no more than the attempts that were sent (`SentInv`),
and only a safe operation has a second attempt (`RetryInv`). At most once follows
by cardinality, also for a request that is handled long after its caller gave up.
`MeterInv` adds that ids are drawn before the first attempt (`LedgerInv`), that the
answer on its way is what the ledger says unless the credential was revoked since
(`AnswerInv`; of a denial, if it is remembered or the attempt was the first), and that
what a caller was told stays true (`TaskInv`).
`StoppedCallsSendNothing` is the action property of `CallsEnd`.

**DownloadsProofs**, `DownloadInv`: what each phase knows of the staged file
(`FileInv`: what is published was whole, good and synchronised), who owns a staged
name (`StageInv`), that the artifact is the one that was offered (`OfferInv`), and
where the ticket went and when it was good (`TicketInv`). The theorems assume
`ConstantsOK` of Downloads, which TLC evaluates for both instances in `MCServices`.

**ServicesProofs**, `AccountInv`: what is held belongs to the last epoch and to one
customer (`HeldInv`), and a call whose generation is current was sent with the
session that is signed in (`CallInv`). The theorems about `MCServices` follow from
it and from the lemmas of DownloadsProofs, taken by `INSTANCE` for the two sets of
downloads there; the sizes of those two are the run's, the general statement is in
DownloadsProofs.

**StoresProofs**, `StoresInv`: for each store, what outlives a process (`KFiles`,
`NFiles`, `DFiles`), what each phase knows (`KPhase`, `NPhase`, `DPhase`), on Windows
the cause of a marker nobody answers for (`WCause`), and for `credentials.json`
that commands which ran alone saved what was wanted (`PInv`). For the keyring the
point is that a killed helper's write lies behind the marker, and, where it was empty
at first, the marker in a file that is on disk (`KDurable`); for the installed
record, that disk and view differ only behind it; for DPAPI, which has none, that
no version on disk is older than the last acknowledged one. The refinement takes
the initial states and then one lemma per action: `StoreStep` is the next-state
relation of `CredentialStore` over values of `Shown` and `Views`, and each action
leaves both alone (a stutter), opens (`Opens`), ends (`Leaves`) or changes the
record (`Alters`). The number of DPAPI writes (4) and the profiles, tokens and three
commands of Profiles are those of `MCStores`.

Assumptions on constants: the "none" values are not members of the sets they stand
beside; bounds are natural numbers and timeouts positive ones; the words by which
`CredentialStore` and the stores denote the absence of a record are not credentials
(`StoresAssumption`); the paths of Metering are service routes (`RouteAssumption`,
from `limits.rs`; the theorems about Transport do not use it, only `ServiceClasses` of
Metering does); there is some release, and the installed one has a number
(`ConstantsOK` of Downloads); no reading of the wall clock is negative
(`SkewsAssumption`; `wall()` fails before 1970); sequences and times of files are
natural numbers, the system starts after second 0 and a lease online is no longer
than one offline (`ConstantsOK` of OfflineFile and Grants). `RoundingAssumption` says
how close the readings of one step of GrantClock are. `Lag` is the lateness that
`NeverLate` allows, so the first half only says what a claim of that size needs. The
second half, without which a clock nobody set could be called uncertain, is in the
code's numbers that less than half of the tolerance of 30 seconds passes between the
readings, which are adjacent calls; a process that is suspended between the two for
longer is told `ClockUncertain`, and may be. TLC evaluates each of them.

Checked by TLC only:

- `EveryCallReturns`, `CloseCompletes`, `CallsReturn` and the first half of `CallsEnd`:
  liveness under fairness, for which the provers have no support;
- `CommandsAreSafe` and the types of `requests`: `Applied` of PolicyTerms is a
  function of its flags, which TLC evaluates over all of them, and Management is
  not proved about (what `requests` says of Transport is, in MeteringProofs);
- the two violations.

## Not modelled

- The Go, C++, C#, Python and TypeScript clients: other implementations of the same
  protocol. The embedded client: a C implementation for devices without files or
  threads; its Rust crate hands every call to it.
- Identity: application keys, version grammar, firmware tables and fingerprints are
  parsing and hashing without state. Diagnostics are texts.
- Of the parts that are modelled: syntax, signatures, ciphertexts, TLS, permissions
  and file attributes appear as nondeterministic verdicts and failures;
  registration, resending and recovery of an account are single posts without state
  in the client; listings and output of the command line tool.
- Two kinds of licence on one client: ordinary, floating and offline access are
  checked in modules of their own, and OfflineFile has of online access only the
  fields that exclude a file.

## Plan

1. Theorems about the commands of Management, the one part with safety properties
   that only TLC checks.
2. Floating and ordinary access on one client, which share `State.generation` and the
   serial lock.
