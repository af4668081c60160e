# Typvia: formal models of record sync and the managed engine

Typvia is a local-first snippet manager. Each device keeps its library in SQLite; devices of one
account exchange end-to-end encrypted, signed records through a small Go server (or a WebDAV
folder), and the desktop supervises an Espanso daemon that expands the snippets. This directory
holds TLA+ models of the parts that several actors share, the checks TLC makes of them and the
theorems TLAPS proves about them. All paths below are relative to the root of the repository.

## 1. Inventory

| part | state | operations | interacts through |
|---|---|---|---|
| record store and API of the sync server (`apps/sync-server/internal/{store,service,handler}/record*`) | `record` table: id, entity, version, `server_seq` | push a batch, pull a page | one SQLite transaction per request on a single connection |
| accounts, sessions, devices (`service/{account,auth,session,devices}.go`) | account, device tables; in-memory challenges and sessions | register, challenge, log in, revoke, re-root | requests of many devices; memory dies with the process |
| pairing, recovery, key-update relay (`service/{pairing,recovery,keys}.go`) | single-shot pairing sessions, recovery blob, per-device mailboxes | begin, offer, claim, expire; put, list, drop | requests of two devices and of time |
| limiter, configuration, HTTP shell | token buckets, backoff per key | allow, prune | behind one mutex |
| sync engine, server rounds (`crates/sync/src/engine.rs`, `replay.rs`) | outbox (`sync_record`), `sync_shadow`, watermark, pending records | round = push, pull, apply or merge, at most four times; reconcile; enable, disable | the server; the application's writes between its local phases |
| field-level merge (`merge.rs`) | none | three-way merge, conflict copy | called by the engine |
| documents (`payload.rs`, `record.rs`) | library rows | build, apply, tombstone, seal, open | engine and database |
| trust directory, certificates (`directory.rs`, `cert.rs`, `identity.rs`) | pinned root, device directory | verify, certify, revoke | fetched once per round |
| key generations (`rotation.rs`, `keyring.rs`) | K_sync generations in the secure store, key-update cursor | rotate, distribute, apply | mailboxes on the server |
| pairing, provisioning, recovery (`pairing.rs`, `provision.rs`, `recovery.rs`) | pairing handle, configuration | begin, approve, poll, finalize, recover | server or WebDAV folder |
| WebDAV backend (`webdav_engine.rs`, `webdav_store.rs`) | per-device streams, heads, one directory file | publish, read, resolve rivals, conditional writes | files without a server to refuse anything |
| desktop cadence (`apps/desktop/src-tauri/src/sync/*`, `lib.rs`) | `Cadence`, sync mutex, condvar | announce, wait, run, note | writer threads, scheduler thread, user commands |
| host service (`crates/host-service`) | none of its own | snippet operations with a sync observer inside their transaction | database, observer |
| library database (`crates/core`) | SQLite tables | repositories, import, backup, app rules | host service |
| vault session (`crates/core/src/vault`) | master key, throttle, idle deadline | unlock, lock, encrypt, decrypt | one mutex |
| Espanso adapter (`crates/espanso-adapter`) | child process, pid file, generation | start, stop, crash monitor; compile, import | a monitor thread, the operating system |
| cryptography, search, semantic search, templates, AI actions | none shared | pure or single calls | - |
| desktop, mobile and browser shells | platform glue | share inbox, clipboard, panels | operating system |

What is hard here, part by part:

- **server**: retries of batches that were stored, several records of one entity in a batch, readers
  that page while others push. It is correct when the table is an append-only log whose versions
  count up per entity, receipts stand, and no reader misses a row.
- **engine rounds**: the database is released while a request is on the wire, so edits, restarts
  and other devices run between the steps of a round; replies are lost; the merge must settle. It is
  correct when shadow and watermark never claim what did not happen, no local write is refused or
  lost, deletions win, and calm devices agree.
- **merge**: it runs on either side with either clock. It is correct when it is symmetric, loses no
  body and no one-sided change, and does not conflict with its own outcome.
- **cadence**: three threads, one condvar, one remembered dirty time. It is correct when no wakeup is
  lost, a change is pushed within its debounce, and failures neither stop nor speed up polling.
- **keys**: generations and directory change during a round; two devices rotate at once; a key is
  installed before it is distributed. It is correct when no key is lost and records wait for theirs.
- **accounts, pairing**: handlers make several accesses with nothing held between them, against
  revocation, recovery, expiry and restarts. It is correct when what is good for one use serves one,
  and a directory can be proved and never takes anything back.
- **WebDAV**: no server decides; both sides must decide alike; publishing crashes half-way. It is
  correct when sent means fetchable, read means accounted for or given up one by one, and rivals have one winner.
- **engine supervisor** (Espanso): check-then-start, a monitor that restarts, a pid file written
  outside the lock, daemons that outlive the host. It is correct when every daemon is watched,
  recorded and ended, and off stays off.

`PROJECT.json` lists the components with their status and the single hazards at their lines.

## 2. Modules

```
RecordLog                what the server promises (abstract)
RecordStore              the record table, operators          <- RecordServer, SyncRounds
  RecordStore_proofs     lemmas about those operators
RecordServer             pushes and pulls of any devices      implements RecordLog
  RecordServer_proofs
AccountServer            devices, sessions, pairing, recovery, directory
  MCAccountServer, AccountServer_proofs
RecordMerge              merge.rs, operators                  <- MergeSides, SyncReplica
MergeSides               two sides that may have to merge
SyncReplica              one device's sync state, operators   <- SyncRounds, WebdavStreams
SyncRounds               devices, rounds and the server       implements RecordLog
  SyncRounds_proofs
KeyGenerations           rotation, key updates, records that wait for keys
  MCKeyGenerations, KeyGenerations_proofs
WebdavStreams            the same devices over files, no server
  WebdavStreams_proofs   and of MergeSides
SyncCadence              scheduler, manual rounds, writers
  SyncCadence_proofs
EngineSupervisor         the Espanso daemon, its monitors and the commands
  EngineSupervisor_proofs
```

The two MC modules only add the symmetry sets; the other modules are checked as they are.

**RecordStore / RecordServer.** `record` is the record table of one account. `PushRecords` is the
whole handler: pass 1 (`Advances`, `ConflictingEntities`), the primary key (`Collides`), pass 2
(`SeqAt`, `Inserted`) and the reply (`Receipts`), stored as a whole or not at all. The code simulates
heads record by record; `Advances` says the same by counting the fresh records of the entity before
it. `store.go` opens one connection and `inTx` wraps every handler, so a request is one step. A retry
is another `PushRecords` with the same batch. `PullRecords` is a page and the client's move of its
cursor. Ciphertext, signature, key id and sizes are opaque to the server and left out.

**AccountServer.** The tables `account`, `device`, `revocation`, `recovery_blob`, `pairing_session`
and the in-memory maps of `session.go`, for one account. Unlike a push, these handlers make several
accesses to store and memory and hold nothing between them, so a request is a small program: `req[r]`
is what request r has read so far, and each access is an action (`LoadPairing`, `LoadIssuer`,
`LoadAccount`, `SetPairingOfferWithDevice` are one `PostPairingOffer`). Revocation
(`CheckIssuerOnly` to `DropDevice`), login (`TakeAuthChallenge` to `MintSession`), recovery
(`TakeRootChallenge`, `ListForReRoot`, `ReplaceRoot`, `DropAccount`) and the three queries of the
directory are the others. `Restart` empties the maps and the requests. A certificate chain is the
sequence of its issuers, a signature is who made it.

**RecordMerge / MergeSides.** A document is one value per merge rule of `merge.rs` (body block,
trigger block, usage, version, one field). `MergeSides` lets two devices edit their copies from a
common base, or from none, under clocks that tie and disagree, and asks of every state what a merge
of the two sides would give.

**SyncReplica / SyncRounds.** A replica record is the snippet table, the outbox with the state of
each row (pending, conflict, applied), shadow, watermark and version history of a device. Outbox rows
are a set; the number in their id orders them like the rowid. Record ids and the conflict copies that
a device makes are numbered per device, in place of random ids. Its operators are the functions of
`engine.rs` and the repositories: `Enqueue`, `MarkApplied`, `MarkConflicted`, `ApplyOne`,
`MergeConflicted` (all four branches), `MakeCopy`, `Reconcile`. Folders, foreign keys and the trust in
a record's author are not data of a replica: what they can do to a pulled record, being refused or
failing to apply (`conflict_of` names a snippet that was deleted for good here), is the argument `fails`
of `ApplyOne`, true or false for any foreign record. `SyncRounds` runs devices against the
server's table. A round is cut where the engine releases the connection: `Push`, `Acknowledge`,
`PullPage`, `EndIteration`; local operations of the host service (edit title or body, trash, restore,
delete for good, retention purge, switching sync off and on) may come in between. `RoundFails` is an
error or a lost reply at any of these points, `PullPage` also chooses which records of its page fail to
apply (`unapplied` remembers them), `Restart` the death of the application, after which
`attach_configured` reconciles. The merge rules are those of `RecordMerge`.

**KeyGenerations.** What a device holds: the generations in its secure store (`held`), its
configuration with current generation, key-update cursor and record watermark (`config`), the key the
registered `OutboxSealer` uses (`sealer`), parked records, and the task it is in. Commands and rounds
are cut at every request, secure-store write and transaction: pairing (approve, claim with install,
activate), `RevokeDevice` and `Rotates` to `SendGenerations`, vault grants, and the round
(`BeginRound` fetches the directory, `InstallUpdates`, `AdvanceConfig`, `Pull`). The server's relay
keeps its rows numbered per target; acknowledged rows stay in the model, so that the properties can
speak of them. The vault key travels only in grants; what one round pushes is sealed as it begins.
A revocation carries the clock of the device that revokes, and is compared with times of other clocks:
that of a record, of a key message, of a certificate the revoked device issued. `Bar` therefore chooses
which of these the revocation cuts off, among those of the revoked device (`barred`); `Directory` is
what a fetched directory says of it, and a round keeps the one it fetched (`trust`).

**WebdavStreams.** `webdav_engine.rs` and `webdav_store.rs` over the replicas of `SyncReplica`:
per device a stream of numbered files and a head file, per replica a cursor for each stream and the
outbox with its applied rows, which this engine reads again. A round pulls first (`PassMalformed`,
`Agree`, `Park`, `ResolveRival`, `TakeUp`, `Apply`: the branches of the pull in the order of the code) and publishes
afterwards (`Publish`, `Mark`, `WriteHead`, one step per request or transaction). The list of queued
records is read once when a round begins, as in the code. A collision of numbers is passed over in
one step (`FreeSlot`), since nobody else writes to the stream of a device. Any file may be broken when
it is read (`PassMalformed`) and any record fail to apply (`Apply`); `unapplied` remembers both.

**SyncCadence.** The arithmetic of `cadence.rs` as operators and the threads around it as actions
with the locks they hold: the writer announces inside its transaction and notifies after the cadence
mutex is released, the scheduler sleeps on the condvar, a scheduled round marks its start before and
a manual one after it gets the sync mutex. Time is in ticks; the debounce is one tick, the idle
interval four. The history variable `starts`
excludes from `ChangeKeepsDebounce` the changes announced at the very time of a round's start, which
the code counts as pushed by it.

**EngineSupervisor.** `lifecycle.rs` with the commands of the desktop that drive it. Three kinds of
threads: `boot` (the bootstrap of a launch, a spawned thread), `main` (the window's commands and the
exit hook, one at a time) and the monitors. They share `inner` (the supervisor's mutex, held for one
step), the files of the engine directory (`files`: match file, off switch, pid) and the daemons,
which outlive a host that crashes. `ensure_running` is `EnsureRunning` to `Record`, `stop` is
`StopTake` to `StopUnrecord`, a monitor is `NoticeExit`, `Restart`, `RecordRestart`, `GiveUp`. `raced`
remembers whether two calls overlapped, or a superseded monitor wrote its pid over a newer daemon's.

## 3. Runs

| run | module | what it asks | distinct states |
|---|---|---|---|
| `RecordServer` | RecordServer | the table is a gapless append-only log, receipts stand, readers miss nothing and get everything; it implements `RecordLog` | 1 009 |
| `AccountServer` | MCAccountServer | one root, chains that link, single use, a directory that can be proved and takes nothing back | 1 818 302 |
| `MergeSides` | MergeSides | the merge is symmetric, lossless, and settles | 344 064 |
| `RoundsBusy` | SyncRounds | bookkeeping under edits and trashing during rounds, a failure or restart, a record that cannot be applied, sync switched off and on; implements `RecordLog` | 448 626 |
| `RoundsQuiet` | SyncRounds | every local operation: what calm devices show, and that they become calm | 39 690 |
| `KeyGenerations` | MCKeyGenerations | no key lost between relay, store and configuration; records wait for their keys | 1 537 095 |
| `WebdavStreams` | WebdavStreams | sent is fetchable, read is accounted for or was broken, rivals have one winner and one copy | 1 872 654 |
| `Cadence` | SyncCadence | wakeups, bounds of the next round, no hot loop | 2 171 425 |
| `EngineSupervisor` | EngineSupervisor | daemons are watched, recorded and ended; off stays off; a dead engine is noticed | 709 520 |
| `RoundsLostBody`, `RoundsFailedMerge` | SyncRounds | two statements of comments and documents that the code does not keep (section 5) | violation |
| `CadenceLostDebounce` | SyncCadence | a comment the code does not keep (section 5) | violation |

**Bounds, and why they are enough.**

- `RecordServer`: three ids, two entities, batches of two, pages of one. A batch can hold two records
  of one entity, a duplicate and a fresh record, a conflict beside a good record, and the same id
  twice; a reader can be behind by two pages. The theorems remove the bounds.
- `AccountServer`: three devices (a root, one it certifies, one that comes to replace or follow), one
  pairing session, two requests in flight, three challenges. Two requests are every pair of handlers
  that can race; the third challenge lets one be replaced while another is held. The theorems
  remove these bounds too; two sessions make the run too large.
- `MergeSides`: three values tell base, local and remote apart, two clock values give order and tie.
- `SyncRounds`: two devices and one snippet (plus the conflict copies they make). Pages hold one
  record, so that edits fall between the pages of one pull; batches hold two, so that a batch mixes
  entities and a backlog needs two. `RoundsBusy` makes three body edits, deletions and switches, at any
  time, one failure, and one record that fails to apply (`MaxUnapplied`); what the finding of `RoundsFailedMerge` leaves behind the watermark is named in
  `ShadowTracksServer` (`HeldBack`). A device may make two conflict copies (`MaxCopies`). The theorems
  remove these bounds for everything `RoundsBusy` asks. `RoundsQuiet` takes all seven operations between
  rounds, two per behaviour and one failure or restart, and no record fails to apply: what calm devices
  show is promised for records that could be applied, and such a one is not pulled again (section 5); with a third edit it meets the stranded
  merge of section 5. All clocks of these two runs show the same time, so ties are broken by device
  id; clocks that disagree are the subject of `MergeSides`, over the same operators. `MergeRoundsMax`
  is the code's 4.
- `KeyGenerations`: three devices, two of which write one record between them, two busy at a time;
  `MaxTrouble` 2 is shared by rotations, vault grants, crashes and failed requests, so a behaviour has
  two rotations, or a rotation and a crash in it, or a grant and a failed request. `MaxBarred` 1: the
  revocations of a behaviour cut off one thing, a record, a key message or a device certified too late.
  What takes place after that is bounded further: one device works at a time (rounds under way go on),
  and nothing else goes wrong. The theorems remove these bounds.
- `WebdavStreams`: two devices, three edits or deletions of one snippet, one failed round, crash,
  broken file or failed application (`MaxFailures`); equal clocks. Three edits make a rival publish
  followed by a further version of either side. A device may make three conflict copies
  (`MaxCopies`), as many as there are edits to race; the bound stops the steps that could make
  another. The theorems remove these bounds for `TypeOK`, `AppliedIsPublished` and `ReadIsKnown`.
- `Cadence`: five ticks cover a debounce, an idle interval and three failures in a row (of the
  scheduler and the manual round), with two changes and one manual round; the theorems remove these
  bounds.
- `EngineSupervisor`: two restarts (so that the budget can run out within four daemons), two commands,
  a host that may die once and be launched again.

Deadlock is checked in the runs of `RecordServer`, `MergeSides` and `SyncRounds`. The others stop
where a bound runs out: the clock of `SyncCadence`, the challenges and sessions of `AccountServer`,
trouble and records of `KeyGenerations`, edits of `WebdavStreams`, the launches of
`EngineSupervisor`, whose host may also have exited.

**Fairness.** Safety is checked without any. `RecordServer`'s `EverythingArrives` assumes
that each reader keeps pulling (the round loop, retried by the cadence). `RoundsQuiet`'s
`EventuallyConverged` assumes weak fairness of each device's round steps: the scheduler starts rounds
forever and the worker thread carries a started one on. Failures are bounded, users are not fair:
nothing makes them edit or switch. The property only speaks of devices that stay switched on.
`EngineSupervisor`'s `CrashIsHandled` assumes that a thread that was started runs, per call and per
monitor; no daemon has to die, nobody has to click and the host need not crash.

**Invariants and properties worth a second look.**

- `TableIsLog`, `RepliesStand`: keys, versions and numbers without a hole, and replies that stay true.
- `ShadowTracksServer`, `ShadowAdvances`: the engine's claims about the server, kept across the gaps
  in which it holds no lock. The watermark leaves a record behind without its shadow in two cases only,
  both named in the property: its application failed, or a parked tombstone holds it back.
- `QueueIntact`: a batch on the wire keeps its place in the queue, no interleaving makes a user's own
  write fail on a version slot, and the catch-up pass is idempotent (`ReconcileSettles`).
- `NothingLeftBehind`: between rounds nothing is parked for good (`NoStrandedConflict`) and a restart
  finds nothing to queue.
- `SettledAgrees` (which includes that deletions win), `BodiesKept`, `EventuallyConverged`: what the
  user is owed. `WebdavStreams` asks the same of files, with its exceptions stated in the property:
  edits during a round, tombstones that race, a rival that was published over, and a file that was
  passed unapplied (section 5).
- `AppliedIsPublished`, `ReadIsKnown`: a crash between a file and its mark, and each of the ways a
  record is dealt with, against what the queue and the cursors claim. `ReadIsKnown` has the
  exceptions of the code: a broken file, a record whose application failed, and a parked tombstone that
  could not be merged (section 5).
- `EditsSurvive`: neither side's bodies nor its one-sided changes are lost to a merge.
- `SingleUse`, `TrustAnchored`, `DirectoryProvable`, `DevicesPermanent`: what every client relies on
  when it verifies chains and revocations that the server stored.
- `KeysNotLost`: the relay deletes by the cursor, so the cursor must not pass a message that was not
  used; and no crash leaves a configuration that names a missing key. `RecordsAwaitKeys`: a round
  leaves no record parked that it could read, and costs none for want of a key. It gives up, as the code
  does, records whose author the directory it fetched does not verify (unknown, or certified too late
  by a device that was revoked), records past their author's revocation, and records sealed under a
  rival key; and a record stays parked though its key is held if a revocation has cut off the record, or
  the message that would have configured its generation (section 5).
- `NoLostWakeup`, `OnlyOutcomesPostpone`: the condvar protocol.
- `EngineAccounted`, `CrashIsHandled`: between calls that do not overlap, every daemon of the
  session is watched and recorded, and none outlives the exit or the switch.

Each property of a passing run is paired in `PROJECT.json` with a mutant: an operator beside the
definition it alters, named in a comment, that changes it as a plausible bug would and makes TLC
find the property violated.

## 4. Proofs

**RecordStore_proofs** holds the lemmas about the table that the server and the rounds share: the
rank of a position among the fresh positions of a batch is monotone (`RankMonotone`) and the position
before it has the rank before it (`RankPredecessor`), so the new sequence numbers follow the largest
one without a hole and the versions accepted for an entity follow its head in the same order;
`MaxSeqIsLargest`, `HeadVersionIsLargest` and the batch lemmas connect that to the table, and
`PageIsPrefix` says that a page has every row up to its last one. `LogRows` is what a table that is a
log satisfies, and an accepted batch preserves it. For the refinement the largest number missing below
the maximum would contradict `SequenceContiguous`, so every number is taken (`EveryNumberTaken`),
the rows are as many as the largest number (`RowsCounted`), in the same way every smaller version of
an entity lies behind a row (`SmallerVersionsBehind`), and so entry n of the log is the next version
of its entity (`LogExtends`).

**RecordServer_proofs** proves for every set of ids, entities and readers, every version bound,
batch size and page limit:

- `RecordServerTyped`, `RecordServerIsLog`, `RecordServerKeepsReplies`: `TypeOK`, `TableIsLog` and
  `RepliesStand` always hold;
- `RecordServerAppendsOnly`: `Spec => AppendOnly`;
- `RecordServerImplementsLog`: `Spec => ImplementsLog`, the refinement of `RecordLog` by the table read
  in the order of its sequence numbers. A push appends or stutters, a pull follows (`PushImplements`,
  `PullImplements`).

The only assumption is `BoundsAssumption` (bounds are natural numbers, the page limit positive). The
inductive invariant `Inv` is the conjunction of the checked invariants and `CursorsReached`: a cursor
never exceeds the largest number in the table. Without it `PullLosesNothing` is not inductive, since a
row inserted below a cursor would be missing from what the reader was sent.

**SyncRounds_proofs** proves for any finite set of devices, any clocks, page and batch limits, any
operations at any time (during rounds too), any number of lost replies, failed rounds and restarts:

- `RoundsTyped`: `Spec => []TypeOK`;
- `RoundsTrackServer`: `Spec => []ShadowTracksServer`;
- `RoundsKeepQueue`: `Spec => []QueueIntact`;
- `RoundsShadowAdvances`: `Spec => ShadowAdvances`;
- `RoundsImplementLog`: `Spec => ImplementsLog`, the refinement of the same abstract log by engines
  and server together.

It assumes `RoundsAssumption` (devices are finitely many numbers, limits are positive) and
`SentinelsAssumption` (the values that stand for no row, no base and a tombstone are no documents).
The inductive invariant `Inv` says of the server that its table is a log (`LogRows`) and of each device
(`DeviceFits`):

- `IdsCounted`, `QueueOrdered`: record ids name their device and are counted by it, and the versions
  of an entity in the queue follow the ids. `QueueSlotsUnique` needs the second, since `next_version`
  looks at the maximum only.
- `SentAsQueued`: a queued record that the server has is there as it is in the queue, so that what an
  acknowledgement puts into the shadow is what the server stored, whatever became of the row.
- `StoredAreAhead`: a pending record the server already has (its reply was lost) is ahead of the
  shadow. That is why acknowledging a retried batch moves no shadow back.
- `PassedAccounted`: each foreign record behind the watermark was applied or merged, failed to apply,
  or is held back by a parked tombstone.
- `RoundFits`: a batch on the wire is the front of the pending rows, all of it stored when it was
  accepted; and a round pulls only when nothing pending is stored, without which a pull could put the
  shadow ahead of a record that is still to be acknowledged.

Each operator has a lemma that says what it preserves: `Enqueue` (`QueueGrows`), the four branches of a
merge (`Settles`), one record and one page of a pull (`AppliedOne`, `PageApplied`; the fold over the page
is unrolled as a walk, `WalkFits`, by induction on its length), the acknowledgement of a batch, parking,
and the catch-up pass (`Reconciles`). An action of a device is then a move of that device
(`DeviceMoves`) and preserves `Inv` because the others only see the table; a push instead extends the
table, and what that does to the device that pushed (`PushedFits`) and to the others
(`OtherDeviceFits`) is proved apart.

**AccountServer_proofs** proves for any devices, pairing sessions, requests in flight and number of
challenges, from `AccountAssumption` alone (`Nobody` is no device, the bound is a natural number):

- `AccountServerTyped`, `AccountServerAnchored`, `DirectoriesProvable`: `TypeOK`, `TrustAnchored` and
  `DirectoryProvable` always hold;
- `AccountServerSingleUse`: `Spec => []SingleUse`;
- `DirectoriesAgree`: `Spec => DevicesPermanent`.

The inductive invariant has three parts. `StoreInv` is the checked properties of the tables and
`ChainsSound`: a chain begins with a registered device, and elsewhere than at the root only if it
runs over a revoked device, which is what lets a re-root swap the root under an offer that
is in flight. `RequestsInv` says of every request that what it has read still holds, whoever came
between: the rows it saw are there, the issuer's chain is the one it extended, a device it saw
revoked still is. `MemoryInv` says that a challenge is unissued, outstanding in one place, held by
one request, or gone, and that only one that is gone has been used. `Grows` is what no step takes
back; most of `RequestsInv` is preserved by it alone (`RequestKept`).

**WebdavStreams_proofs** has two parts, a rule that rounds apply and the streams they run on.

Of the merge it proves `MergeSymmetry`, a statement about the operators alone: any base, any two
documents, any clocks, different device ids. `MergesAgree` lifts it to every reachable state for every
value set and bound; `MergesKeepEdits` and `MergesSettle` say the same of `EditsSurvive` and
`MergeSettles`. The inductive invariant is `SidesTypeOK` (`MergeSidesTyped`), which includes that each
side carries its own device id: with equal ids the tie-break would let each side win. It assumes
`SidesAssumption`: numeric bounds, and that null is not a number.

Of the streams it proves for any finite set of devices, any clocks and operations, edits at any time
(during rounds too), any number of conflict copies, failed rounds and restarts:

- `StreamsTyped`: `Spec => []TypeOK`, which includes that files are numbered without a gap and that no
  head, push counter or cursor gets ahead of them;
- `StreamsCarryApplied`: `Spec => []AppliedIsPublished`;
- `StreamsAccountForRecords`: `Spec => ReadIsKnown`, an action property.

It assumes `StreamsAssumption` and `SentinelsAssumption`, as the server rounds do. Neither invariant is
inductive alone. `Mark` counts the first record of its batch as sent without looking at the files, on
the strength of a request made before the database was released; what makes this right is
`RoundFits`: while a round stands between `Publish` and `Mark`, some stream has the record. The queue may
change in between, by an edit, a park or a restart. `BatchQueued` therefore says that a record of the
batch is in the queue as it was listed, if it is there, and that needs `IdsCounted`: ids name their
device and are counted by it, so no row made later takes the id of one that is gone. `RoundFits` also
bounds the number a round publishes next, so that it fills the first free place (`FreeSlotIsNext`), and
says that a round in `Apply` has its record. `StreamsOwned` says whose records a stream holds. TLC checked
this invariant on the run's instance before it was proved.

What the operators of `SyncReplica` do to a queue is one relation, `Evolves`: each row of the new queue
stems from a row of the old one with its entity and document, or is a new pending one; only the ids
named in it may have become applied. Each operator has a lemma that says so (`EnqueueEvolves`,
`ApplyOneKnows`, `MakeCopyEvolves`, `ReconcileEvolves`, ...), the relation is transitive, and it
preserves the invariant of a device if the files carry the named ids (`EvolvedFits`). The lemmas that
are called `...Knows` or `...Settles` add what becomes of the shadow, which gives `ReadIsKnown` at each step
that advances a cursor. `Publish` is the only step that other devices could notice; it only extends a
stream (`LengthenedFits`).

**SyncCadence_proofs** proves for all delays and bounds with `0 < BackoffBase <= IdleInterval`
(`CadenceAssumption`, the order of the two constants in `cadence.rs`):

- `CadenceTyped`, `CadenceWakes`, `CadenceReturns`: `TypeOK`, `NoLostWakeup` and
  `DueWithinIdleInterval` always hold;
- `CadencePostponed`: `Spec => OnlyOutcomesPostpone`, and `CadenceCools`: `Spec => NoHotLoop`.

`DueWithinIdleInterval` is not inductive: a change that is dirty may hide a poll that is far away, and
an outcome takes the dirty mark off. The invariant therefore bounds the poll itself
(`PollWithinIdleInterval`). The rest is arithmetic: `BackoffBounds` (the saturated shift, for any number
of failures, is positive and capped), `ChangeAdvancesDue` and `OutcomeSetsPoll`.

**EngineSupervisor_proofs** proves for any budget and any bounds (`SupervisorAssumption`):

- `EngineTyped`: `Spec => [](TypeOK /\ OneMonitor)`, types and the restart budget, and that no two
  monitors watch one generation and that of the current one is in step with the supervisor;
- `EngineNeverOrphaned`: `Spec => []EngineAccounted`.

The first holds with calls that overlap. Between the mutex and the monitor it spawns, a start must
own its generation alone (`StartsOwnGeneration`), and a monitor never comes from a later generation
than the current one (`MonitorsKnown`); with `TypeOK` and `OneMonitor` that is the invariant `Inv`.
The second needs `Calm`: `Inv`, that only a running engine has a child, and, as long as nothing raced,
`Orderly`. `EngineAccounted` speaks of states at rest; `Orderly` says what takes its place while a call
is under way. There is one call (`OneCall`), the off switch and the match file exclude each other, also
for the call that is about to write one (`FilesAgree`), and while the host is up (`SessionFits`): a call
only starts what the gate lets it start (`CallFits`), a supervised engine has its monitor or is about
to get it (`Watched`), one that was switched off or must make way is about to be stopped
(`Unwanted`), and every daemon of the session is the child or about to be ended (`Owned`), and recorded
or about to be (`Recorded`).

**KeyGenerations_proofs** proves, for any devices and writers, any bounds on records and trouble, and
any interleaving of rotations, revocations, grants, rounds and crashes, from `KeysAssumption` alone:

- `KeyGenerationsTyped`: `Spec => []TypeOK`;
- `KeysNeverLost`: `Spec => []KeysNotLost`;
- `RecordsAlwaysAwait`: `Spec => RecordsAwaitKeys`, an action property.

For the first two the invariant `Inv` says per device

- `ConfigOK`: keys sit at their generation, the configured one is held, what the sealer uses is minted;
- `RelayOK`: the mailbox is numbered without a gap, and what lies behind the cursor is in use;
- `OfferOK`: a pairing bundle only carries minted keys, the current one among them;
- `TaskOK`: what the task of the device has done so far and relies on: the keys of a bundle are
  installed before they are configured, and a listing is the front of the mailbox.

`KeysNotLost` alone is not inductive, since the cursor advances to what a listing read earlier says;
`TaskOK` carries that over the steps of the other devices, whose mailboxes and keys only grow
(`OthersKept`). A minted key has a generation no larger than the number of rotations, so the bound on
trouble bounds the generations and the newest held one exists.

`RecordsAwaitKeys` needs to know why a device that already holds a key may still be unable to use it:
the key is of a generation above the configured one, where rounds do not look. The second invariant,
`Await`, says that such a key was made on this device and has never left it, so no record is sealed
under it (`Private`), or that its generation is awaited (`Awaited`): a message brings it which the
round under way, or else the next one, will open (`Expected`), or which a revocation has cut off
(`Withheld`), and then it never will be. Whatever is expected stays expected or becomes withheld
(`ForgetsNothing`), and withheld stays withheld, since no revocation is taken back (`BarredGrows`,
`WithheldStays`). By the time a round pulls it expects nothing more, so a parked record is sealed under a
key that the device holds only if it, or the message with its generation, is cut off
(`PullAwaitsKeys`). Per device
`Await` adds

- `AboveOK`: the statement about keys above the configured generation;
- `PairingOK`: a device holds nothing before it pairs, and pairs once;
- `RoundOK`: a round works with the keys that are configured, and knew the authors of what is parked
  when it began;

and `LogOK` of the records and messages: members wrote them, with keys that were minted. A step of one
device can break this for another only by spreading a key; `Discreet` says that it spreads none it
has not configured, which is why the others still await what they awaited (`OthersAwait`).

Only model-checked:

- liveness, which is beyond the prover: `EverythingArrives`, `EventuallyConverged`, `CrashIsHandled`;
- `SettledAgrees`, `BodiesKept` and `NothingLeftBehind` of `SyncRounds`: they hold for the edits between
  rounds that `RoundsQuiet` makes, not for every value of the constants (section 5);
- `SettledAgrees` and `BodiesKeptOnce` of `WebdavStreams`. Both look at a state at rest and ask about
  every race that led to it, with exceptions that depend on who edited when; an inductive invariant
  would have to tell of each file who has met it and how, and section 5 lists behaviours beyond the
  run's bounds in which the code loses track of that;
- the three statements of section 5, which are refuted.

## 5. Disagreements found

With a run of their own:

1. `RoundsLostBody` - *never silently discard content* (`SECURITY_MODEL.md`). An edit made between the
   push and the pull of a round is queued but not refused yet, so a concurrent remote body replaces it
   without a merge or a copy.
2. `RoundsFailedMerge` - *the conflict stays parked for a later round* (`engine.rs`, `apply_one`). A
   parked tombstone cannot be resolved against content that arrives already deleted; the watermark
   moves on and no later round meets that record again. Content that is marked deleted is produced by
   merging, on another device, a refused edit of a snippet that has been trashed meanwhile.
3. `CadenceLostDebounce` - *its debounce must survive to trigger the next round* (`cadence.rs`,
   `note_round`). Only the first change has a time; a later one made during the round is consumed with
   it and waits for the idle poll.

Shown by TLC while the models were written; each is excluded from a passing run by a bound or by a
condition in the property:

- **Rounds.** *Leftovers stay queued for the next call* (`engine.rs`, `MERGE_ROUNDS_MAX`): when one
  pull brings two foreign versions of an entity whose local change was refused, the first is merged
  and the merged record queued again, the second overwrites the merge because only refused records
  count as conflicts. The queued merge is refused next and stays parked; nothing is left to pull that
  would release it. `RoundsQuiet` with `MaxEdits = 3` shows it.
- **Accounts.** *Sessions and pending challenges are invalidated* (`service/devices.go:120-121`,
  `service/recovery.go:100`): a challenge or session of a request that already passed `activeDevice`
  is put into its map after `dropDevice` or `dropAccount`. `Authenticate` asks for the device again,
  so nothing can be done with it.
- **Accounts.** Recovery marks every device but the new root (`store/account.go:122-125`), yet an
  offer in flight may commit after it and leaves an active device whose chain does not lead to the
  new root. Clients refuse such a chain; the server goes on serving the device.
- **Keys.** After a round has installed a received generation no host registers the sealer anew
  (`sync/mod.rs:342-344`): the device keeps sealing under the old one until it restarts. The same
  holds when distribution fails. Two rotations that mint the same generation leave records under the
  rival key that others skip for good. A device paired between a rotation's look at the directory and
  its sends gets the new generation only with the next rotation. A record of a device certified
  after the round fetched the directory is skipped. A crash between claim and activation leaves a
  registered device that cannot finish.
- **Revocation by time.** *Its earlier history remains valid* (`record.rs:308-309`): the revocation
  carries the time of the device that revokes, a record that of its author, so with skewed clocks
  records pushed before the revocation are refused, skipped, and passed by the watermark
  (`record.rs:310-314`); likewise everything of a device whose certificate the revoked one seems to
  have issued too late (`cert.rs:140-144`). A key message that is cut off (`rotation.rs:433-437`) never
  opens again and holds the key-update cursor for good: later messages are installed every round but
  none is acknowledged. If a round installed its keys, crashed before it configured them, and the
  message was cut off then, records stay parked under a key that the device holds.
- **Failed applications** (`engine.rs:1139-1144`). A record whose application fails, such as a conflict
  copy whose source was deleted for good on this device (`conflict_of` has a foreign key), is counted as
  skipped, and the watermark or the cursor passes it: it is not asked for again. The next version of its
  entity is applied as if the failed one had never been. `webdav_engine.rs:433-441` does the same with a
  file that cannot be parsed.
- **WebDAV** (*the winner's document is the head everywhere*, `webdav_engine.rs:828-833`). (a) An edit
  made while a round pulls is unknown to the list read when it began (`:398-401`), so a remote record
  is applied over it. (b) A tombstone racing a content record of the same version: both sides skip,
  one stays deleted, one live. (c) A winner's record is overwritten by the loser's next version and its
  body is nowhere. (d) A third pending version over a rival second one is parked by the pre-check and
  then skipped as a replay (`:446-449`), so nothing releases it. (e) A crash between publishing and
  marking publishes twice, and the second copy parks a newer pending edit of a reader for good. (f) *Probing one file past it heals* (`:420-421`) reaches one file; a crash before the head
  write with two new records hides the second. (g) A lower pending version published later moves the
  shadow back. (h) A parked tombstone against content that arrives deleted fails here as in
  `RoundsFailedMerge`, yet the cursor passes the record. It takes three devices, of which 3 edits twice, 2
  trashes, 1 edits and 3 trashes, and one failed round in between, more than the run has. An attempt to prove
  `ReadIsKnown` without its exception failed on this branch of `MergeConflicted`; TLC then found the
  behaviour.
- **Engine** (*never leave orphans behind*, `lifecycle.rs:8`; *no daemon outlives the app*,
  `lib.rs:243-244`). Two overlapping calls, such as a status read during the bootstrap, start two
  daemons of which one is unrecorded; an exit or the off switch during the bootstrap leaves one
  running. After a host crash, a life that does not start the engine leaves the daemon of the last one
  running, and `stop` removes the pid file that names it (`lifecycle.rs:181`). A crash between spawn
  and pid write leaves an unrecorded daemon. A superseded monitor may write its dead daemon's pid over
  a newer one.

## 6. Plan

Done: record server, abstract log, refinement and proofs; accounts, sessions, pairing and recovery
with proofs; the merge with proofs; server rounds with the proofs of their bookkeeping and of the
refinement; key generations with proofs that no key is lost and no record given up for one; WebDAV
streams with the proofs of their bookkeeping; desktop cadence with proofs; engine supervisor with proofs. Next, in this order:

1. The vault session: idle lock, system events and throttle against an operation under way.
2. The directory file, mailboxes and recovery file of WebDAV under their conditional writes, composed
   with `WebdavStreams`.
3. The share inbox of the mobile shells: stored before removed, with a crash in between.

Bounds stay in the range of the present runs: two or three devices, two generations or sessions, one
or two failures.

## 7. Not modelled

- In `SyncRounds`: why a record is refused or cannot be applied (it may happen to any foreign record),
  records that wait for a key (they are in `KeyGenerations`), the account setup, entities other than snippets (folders, tags, rules: the same path with simpler documents), page and
  batch limits in bytes, the scheduler's timing (rounds may start at any time).
- In `AccountServer`: input validation, several accounts (they share nothing but the process), the
  rate limiter. `DeleteExpiredPairingSessions` has no caller outside tests.
- In `KeyGenerations`: who stands below whom in a chain (a revocation may take the trust from any device
  but the first), the times that decide what a revocation cuts off, failed applications, the WebDAV
  mailboxes, the wrapped copy of a key in `domain_key`, versions and
  merges of the records, recovery. Claim and install are one step.
- In `WebdavStreams`: the directory file, mailboxes, pairing and recovery files; reconciliation other
  than at a restart; why a file is broken or a record fails to apply; records that wait for a key.
- In `SyncCadence`: what a round does beyond taking a batch and being acknowledged; a host on which
  sync is not set up. The sweep of expired snippets at the start of a scheduled round writes like any
  other writer; a round that fails before its push is one whose push fails.
- In `EngineSupervisor`: whether Espanso itself refuses a second instance (outside this source), reuse
  of pids, errors of file operations; the answer to the coexistence prompt does not decide whether
  the engine starts.
- Vault session, share inbox: see the plan.
- Code without shared state or interleaving: cryptography, search and semantic search, templates,
  import, sensitive-content rules, AI requests, Espanso compilation, DTOs and user interfaces.
  Parsers and numeric code are better served by tests.
