# Zero Vault: a TLA+ verification project

Zero Vault is a zero-knowledge password manager. Several devices of one account
keep encrypted items in step through a Cloudflare Worker whose only shared state
is a D1 (SQLite) database. This directory models the parts of it in which
requests race each other, or in which a client rewrites what it keeps around
requests that may fail, checks them with TLC on small instances, and proves
theorems about the core with TLAPS.

What a step is, in the Worker. Every awaited D1 statement is one step: between two `await`s of
one handler any statement of any other handler may run. `db.batch([...])` is one
transaction: it commits as a whole or not at all, and its statements see what the
earlier ones wrote. A handler is therefore modelled as a request record with a
`pc`, the values it has read so far, and one action per read, decision or batch. In a
client, a step is what lies between two commits to its own storage; see
`SharedStore` in section 2.

## 1. Inventory

Paths are relative to the repository root.

| Component | State it keeps | Operations | Status |
| --- | --- | --- | --- |
| Item sync and vault store (`apps/worker-api/src/store/d1-store.ts`, `routes/vault.ts`, `migrations/`) | `users.server_revision`, `vault_items`, `vault_item_history`, `item_sync_changes` (the feed), `item_sync_mutations` (receipts), `item_sync_revision_claims` | item-level push, whole-envelope push, page pull, vault pull | modelled but for read-only routes: `ItemSyncStore` |
| Sessions, devices, vault-key packets (`routes/auth.ts`, `routes/devices.ts`, `middleware/session.ts`) | `users.auth_epoch`, `login_sessions`, `sessions`, `trusted_devices`, `device_vault_keys` | login, logout, register, approve, reject, revoke, share key | mostly modelled: `DeviceTrust` |
| Recovery v2 (`routes/recovery.ts`) | `recovery_packets.generation`, `recovery_challenges`, `recovery_claims`, `registration_sessions` | start, finish, rotate | mostly modelled: `DeviceTrust` |
| Account registration and deletion | all tables, R2 objects | register, delete | not modelled: see section 6 |
| Encrypted exports | R2 objects | put, get, delete | not modelled: single reads and writes of opaque blobs |
| Rate limiter | `rate_limits` | insert, count, clean up | not modelled: see section 6 |
| Browser sync engine (`packages/browser-vault/src/sync.ts`, `item-sync.ts`) | none of its own: it computes on a vault and a sync state (pending mutations, revisions, timestamps, conflicts, cursor) | plan, push loop, pull loop, merge | modelled: `SyncEngine` |
| Extension (`apps/extension`) | one stored record of sealed vault and sync state, serial message queue | save, sync, lock, unlock, resolve a conflict | mostly modelled: `ExtensionSync` |
| Web client (`apps/web`) | page state, sealed vault, sync state, the count of offline edits | save, delete, sync, lock, reload, resolve a conflict | mostly modelled: `WebSync` |
| Mobile (`apps/mobile`, `VaultRepository.kt`) | Room tables of items, pending mutations, conflicts, cursor; encrypted backups | edit, delete, import, sync, resolve, back up, restore | mostly modelled: `MobileSync` |
| Desktop (`apps/desktop`), offline queues | offline queue, sync cursor | queue, retry, sync | not modelled: see section 6 |
| Cryptographic core, local formats, user interfaces, stateless middleware | none shared | | not modelled |

How they interact. Clients hold a copy of the items, a list of mutations the
server has not acknowledged, the account's revision and a feed cursor. They send
a plan of operations, each with the revision of the item it was made on and a
mutation id that survives retries, then pull pages of the feed. All of it passes
the session middleware, which compares the session's epoch with the account's and
the bound device's status. Recovery and revocation change those while other
handlers are between two reads. Clients share nothing but the server. The web
client and the extension run the same engine on what they keep; the phone has a
queue of its own in a database.

What is hard.

* Decisions rest on rows read by separate statements before the batch; only
  primary keys, partial unique indexes and conditions inside the batch's own
  statements protect them (`stale_state`, `interleaving` in `PROJECT.json`).
* A batch may commit and its acknowledgement be lost; the handler then re-reads
  to decide whether to try again, and the client sends the same mutation again.
* A conflict-only batch claims no revision and is therefore not serialized with
  the writers.
* A page of the feed and the revision it is labelled with are two reads.
* Approval, rejection, revocation, key sharing and re-registration of one device
  race each other, logins, and a recovery that withdraws all trust.
* Clients rewrite local state around network calls: a sync replaces the page's
  vault with one computed from a snapshot; pending mutations are stored before
  they are sent and forgotten after they are answered; a run can end between any
  two commits, and the request it was waiting for may still arrive.

What makes each component correct: *item sync* - no lost update, one verdict per
mutation id, tables that agree, acknowledgements that are durable, pages that
skip nothing a client could read; *sessions and devices* - a login proof is used once, sessions end
with the epoch or the device's trust, approved devices have a packet for their
key and expelled ones have none; *recovery* - one code recovers once, nothing of
the earlier epoch survives; *clients* - an edit is not silently dropped and is
applied once, what is taken for synced is what the server stored, a stored cursor
covers the stored vault, nobody deletes what no user deleted, and a client that
gets to run converges.

`PROJECT.json` lists every hazard at its line, with the properties that would
catch it, or why none does yet.

## 2. Modules

| Module | What it is |
| --- | --- |
| `ItemSyncStore` | the store's push and pull, statement by statement |
| `ItemSyncAtomic` | what the store promises: an atomic compare-and-set per item |
| `ItemSyncRefinement` | the refinement mapping from the tables to `ItemSyncAtomic` |
| `MCItemSync` | instances of `ItemSyncStore` |
| `ItemSyncStoreProofs` | facts about data, type correctness, order of revisions, no lost update, one verdict per mutation |
| `ItemSyncTablesProofs` | tables that agree, final conflicts, durable answers |
| `ItemSyncRefinementProofs` | the store implements `ItemSyncAtomic` |
| `ItemSyncReaderProofs` | pulls miss nothing |
| `DeviceTrust` | login, devices, packets and recovery of one account |
| `DeviceTrustProofs` | type correctness, and the theorems on sessions, logins, recovery codes and packets |
| `MCDeviceTrust` | instances of `DeviceTrust` |
| `SyncEngine` | what one run of the browser engine computes: plan, receipts, pages, merge |
| `SharedStore` | the server (an instance of `ItemSyncAtomic`), its feed, the network, the other clients |
| `ExtensionSync` | the extension as a host of the engine |
| `WebSync` | one tab of the web client as a host of the engine |
| `MobileSync` | the Android client: its database, its sync run, its backups |
| `SharedStoreProofs` | what a client can rely on of the server, its feed and its answers |
| `ExtensionSyncProofs` | what an extension stores and sends agrees with the server, and an edit is applied once |
| `MobileSyncProofs` | the queue, the rows and the conflicts of a phone agree with each other and with the server |
| `MCExtensionSync`, `MCWebSync`, `MCMobileSync` | instances of the three clients |

How they compose. `ItemSyncStore` is checked and proved to implement
`ItemSyncAtomic`; `SharedStore` takes `ItemSyncAtomic` for the server, and
`ExtensionSync`, `WebSync` and `MobileSync` extend it. What the clients' runs and
proofs show of the composition thus rests on `ImplementsAtomicStore`, the theorem
`StoreIsAtomic`.

### ItemSyncStore

One account. Tables keep their names where TLA+ allows: `serverRevision`,
`claims`, `rows`, `history`, `feed` with `lastCursor`, `receipts`.
`pushItemLevelSyncOnce` is `ReadUser`, `ReadRows`, `ReadReceipts`, then `Commit`,
`CommitUnacknowledged` or `BatchRolledBack` (or `NothingToWrite`), then the
catch block `RecheckRevision`, `RecheckReceipts`; `NextAttempt` is the retry loop
of `pushItemLevelSync`. `Reason` is the decision per operation, `RowAfter` the
upsert and delete statements, `CommitBatch` the whole batch, with the two primary
keys `ClaimTaken` and `ReceiptTaken`. `pushVault` is `ReadOwners`,
`LegacyCommit`... `ForeignCreate` is another account taking an item id, since
`vault_items.id` is one key space for all accounts. Readers pull pages
(`PullReadUser`, `PullReadPage`) or the vault (`VaultReadUser`, `VaultReadLive`,
`VaultReadDeleted`). The schema of the envelope path is looser than that of a page's
changes: an operation is `strict` if its item satisfies both. `pullItemLevelSync`
drops the rows that are not (`Readable`), while the page's end and `hasMore` are
computed over all of them; a comment there says that this is intended.

Abstractions. Ciphertext is the mutation id that wrote it. The fingerprint of a
request is the operation itself, and always present. Feed cursors are shared by
all accounts in the code; only their order matters, and the model numbers one
account's. The envelope path pushes the one item its only sender pushes. Clients
send only revisions the server has produced (`Knows`), or, restored from another
server, one beyond every revision of the model.

### DeviceTrust

One account, from the moment its first device is registered. A device row, a
packet, a session or a login session is a record; a session is known by the login
it was minted from. Login is `StartLogin`, `BeginLogin`, `ConsumeLogin` (the
DELETE whose row count decides), `CheckEpoch`, then `LookupDevice`,
`AuthenticateDevice` or registration, and `MintSession`. `registerDevice` is
`FindExisting` and `InsertDevice` or `UpdateDevice`, shared by login and
`POST /devices`. Management is `BeginManage` (the middleware), `ReadTarget` and
one of `ApproveDevice`, `SaveVaultKey`, `RejectDevice`, `RevokeDevice`. Recovery
is `StartRecovery`, `BeginRecover`, `FinishRecovery`, `BeginRotate`,
`RotateRecovery`, `ExpireAttempt`. `Leave` is a Worker that is evicted, or a
database that fails, at any point of a request.

Abstractions. Cryptographic exchanges succeed for the client that began them.
Expiry may happen at any time. `StartRecovery` is one step: an attempt that read
some of its values before and some after a recovery has lost its registration
session to that recovery and can never be finished. Left out: device ids that
belong to other accounts, conversion of legacy packets, the one-time migration of
v1 recovery packets, the deduplication of `listDevices`, the development-only
direct login, web registration without a device.

### SyncEngine and SharedStore

A *stamp* stands for an item's `updatedAt` and content together, 0 for no item; a
vault is a function from items to stamps, and `SyncState` keeps the field names of
the code. `Plans` is `buildItemLevelSyncPlan` (what to upsert, what to delete, when
a pending mutation is replayed), `ValidAnswer` the checks of a push's answer,
`AfterPush` its receipts and conflicts, `AfterPage` a page of the feed, which
`Replay` goes through change by change (`ApplyChange`), `TakeRemote` and `Settled` a resolved
conflict. A mutation id is made of client, number of the plan, item and stamp,
which makes a new id fresh, and two mutations of one version distinct.

`SharedStore` adds what surrounds a client. `Serve` is the arrival of a request:
what is new in it is decided at once (`Store!Decide`, of `ItemSyncAtomic`) and
enters the feed, what was decided before is answered as it was. A client reacts to
an answer without waiting for anyone else, so arrival, answer and the commit that
follows are one step; what can happen in between is `GiveUp`: the client's run
ends, the request stays in `late` and may arrive at any later time, or never
(lost request, lost answer, delayed request). `OthersWrite` is any other client,
which edits or deletes an item on its current revision. An item id is made once
(`used`): ids are UUIDs. Nobody here pushes whole envelopes, so that no row of the
feed is malformed and a page returns all of its rows. Left out with them: an answer
of `POST /vault/item-sync` that reports a conflict with such a row.

### ExtensionSync

One record holds the sealed vault and the sync state and is written as a whole;
messages wait for each other (`queue` in `background.ts`), but `LOCK_VAULT` does
not, so `ExtLock` can end a run. A run is `ExtStart` (or a save, an unlock, a
resolved conflict), `ExtPlan` and `ExtPush` until the plan is empty, `ExtPull` page
by page. `ExtFail` is a failed request, a rejected answer, or a service worker that
was stopped. `ExtKeepLocal` and `ExtTakeRemote` are `resolveConflict`, the latter
with and without a copy. Connecting an account is the initial state.

### WebSync

One tab. `page` is `unlockedVault`, `sealed` is `encryptedVault`, `stored` and `sync`
are what localStorage has; `vault` and `state` are the snapshot a run works on. A
save is `SubmitItem` or `ConfirmDelete` and then `EndSave`, when the vault has been
sealed; between them a timer may start a run. `Pull` commits every page, vault first,
and hands the result to the page after the last; `Fail` leaves the page as it is.
`Lock`, `Unlock` and `Reload` come anywhere. `KeepLocal`, `AcceptRemote` and
`CreateCopy` are the three resolutions. `asked` records what a user deleted.

### MobileSync

Each call of `VaultRepository` is one transaction. `rows`, `pending`, `conflicts` and
`cursor` are its tables; a tombstone keeps the ciphertext it hides. Operations of the
screens wait for each other in `enqueueVaultOperation`: they start from `MayStart`,
and a lock keeps new ones from starting but stops no run. `SaveItem` and
`DeleteItem` keep the base of a queued mutation and forget an item the server is not
known to have. A save may have waited for a run that took the item away (`taken`,
`Editable`): it finds no row, and queues the item on base 0. `Push` sends the oldest
mutations that are not in conflict, as many as a request takes; those of one import
are of one time, and their random ids order them (`Batches`). It sends one of these
(`PushBatch`) and acknowledges in one transaction; `SaveConflicts` is a transaction of
its own, with what the server had when it decided (`told`); `Pull` takes the last
change of every item of the page, and turns the change of a queued item into a
conflict. `CreateBackup`, `RestoreBackup` and `ImportItems` replace or extend the
tables around all this. `left` remembers the items whose conflict the user left as it
was, for the properties that do not cover them: by `Skip`, which keeps the mutation
queued, or by deleting an item in conflict that the server is not known to have,
which drops row and mutation and not the conflict.

## 3. Runs

Every property of a passing run has a mutant in `PROJECT.json`: a plausible bug
in one definition, under which TLC finds the property violated.

| Run | Question and instance |
| --- | --- |
| `item_push` | Two concurrent push requests over 2 items and 3 mutation ids: single edits, a delete, a two-item batch, the envelope, a client ahead of the server, retries with a used id; up to 3 revisions; lost acknowledgements and rolled-back batches anywhere. All table, receipt and answer properties, and `ImplementsAtomicStore`. |
| `item_pull` | One device pulling pages of two rows, or the whole vault, beside a push of one or two operations or of an envelope, well-formed or malformed, up to 3 revisions. |
| `item_shared_ids` | Two pushes while another account may take the item's id. |
| `item_acknowledged` | The same instance, asking `AppliedIsStored`: violated. |
| `device_trust` | Device-bound and cookie logins, approve, reject and revoke by two requests, over a phone, a second phone and its reinstallation; 3 logins. |
| `device_recovery` | Recovery, rotation, logins and approvals by two requests over two phones; 2 logins, 2 attempts. |
| `device_register` | `POST /devices` and key sharing beside logins and a recovery. |
| `device_share_key` | The same operations with revocation, asking `RevokedHasNoKey`: violated. |
| `device_reregister` | `POST /devices` beside revocation, asking `RevokedStaysRevoked`: violated. |
| `extension_sync` | One extension and other clients over 2 items: saves, syncs, locks, stops, late requests, every resolution. Safety of what it stores, and `Converges`. |
| `web_partial_pull` | One tab over 2 items, with saves, deletions, failing runs, locks and reloads, asking `PushedDeletionsAreLocal`: violated. |
| `mobile_sync` | One phone and other clients over 2 items: edits, deletions, imports, backups, late requests, every resolution. Queue, rows, conflicts, and `Converges`. |

Why the bounds are enough. The races are between two handlers; a third writer
matters only through what it has left in the tables, which the sequence of
revisions already provides (three revisions give a base that is older than the
last change, equal to it, and newer than a row read earlier). `MaxAttempts` is
`MAX_SYNC_REVISION_RETRIES + 1` = 3, so that the loop is exhausted.
`PageLimit = 2` in `item_pull` is the least with which a page can end in a row that
is dropped, begin with one, or hold nothing else, and three changes are two pages;
in the other item-sync runs nobody pulls. `MaxRevision`
stops clients from submitting, not requests in flight, so revisions may pass it.
Two recovery attempts are the least that can compete for one code; three logins
give one device a second session while another device has one. Requests are
symmetric: nothing orders them. Deadlock is not checked: at a bound, with
nothing in flight, the system rests.

For a client everyone else is `Others`: it meets them only as changes of the feed and
as revisions that moved on. `MaxEdits` = 3 counts what users do, everywhere: an edit
here, one elsewhere on the same item, and a third that comes while the first two are
being settled, which is enough for a conflict on a settled conflict and for an edit
after a lost answer. With two items one of them can be in conflict or on its way
while a page of the other is applied. `PageLimit` = 1 makes pages end between any
two changes, and `MaxMutations` = 1 (2 in `web_partial_pull`) makes the push loop go
round, and splits an import over two of them. `MaxPlans` = 4 bounds the pushes of a settled conflict in `WebSync`, whose
numbers would otherwise grow with every failure. The phone makes one backup, as
long as an edit is left with which to restore it.

Fairness. The Worker's modules assume none: a Worker may be evicted after any
statement. A client's run steps are strongly fair: the extension's alarm rings every
minute and its queue serves the message in turn (`background.ts`), the app
synchronizes on unlocking and every 30 to 60 seconds in the foreground
(`app-state.tsx`), and a request that is repeated again and again is answered in the
end. Strong and not weak, because a failure or a lock disables a step for a while.
Nothing is assumed of users, of other clients, or of late requests, and `Converges`
is claimed only of clients that are unlocked again and again.

What the runs show. The push is serializable per account although it decides on
three separate reads: what makes it so is the primary key of the revision claims
for writers, and, for batches that write nothing but conflicts, the fact that an
item's revision never returns to an earlier value (`ConflictStaysConflict`). The
pull is right because it reads the revision before the page. Sessions are right
because the inserting statement itself selects on the epoch and the device's
status.

The extension survives a stop between any two commits: the plan is stored before it
is sent, so that a repeated version is sent under its first id and told the first
verdict (`EditIsAppliedOnce`, `NoConflictWithItself`); vault and cursor are one
write (`CursorCoversVault`); it never deletes an item (`ExtensionDeletesNothing`),
although a plan deletes whatever is known and not there. The phone needs no such
comparison: its queue says what its user did, and agrees with its rows through
answers, pulls, resolutions and restores (`QueueMatchesRows`, `RowsAreServed`). A
conflict that was left is the exception to `KnowsWhatItPulled` and `Converges`. If it
was skipped, the mutation is sent again, and its first receipt replaces what was
pulled since. If its item was deleted and forgotten, the row moves on with the pulls
and the conflict does not, so that accepting the remote version puts back a version
the cursor has passed. The second case takes four edits, one more than the bound of
the run; it came to light when the invariant of the proof did not hold in that step. Both
clients converge (`Converges`).

### Where code and documents disagree

1. `item_acknowledged`. `docs/sync-protocol.md` defines `appliedIds` as items that
   were successfully upserted or deleted. When another account creates the id
   between the reads and the batch, the upsert's `WHERE user_id` makes it a
   no-op; receipt, feed entry, history and answer all say applied. Ids are UUIDs
   chosen by clients, so this takes a copied id.
2. `device_share_key`. `AGENT.md` and `docs/device-trust.md` say revocation removes
   the device's packet. `share-key` upserts a packet for a device it has read as
   approved; a revocation that commits in between leaves a packet behind.
3. `device_reregister`. The same documents require an explicit approval for trust.
   `POST /devices` writes back the status it read before its batch, and can take a
   device that was revoked in between back to approved (without a packet).
4. `web_partial_pull`. `docs/sync-protocol.md` says that the web client pushes local
   edits and deletions. A run that fails between two pages has stored the first page's
   vault, revisions and cursor, but the page keeps the vault it had; the next run
   compares that vault with the stored revisions, finds the pulled items missing, and
   pushes their deletion. Where the vault and its revisions are one record, in the
   extension, this does not happen.

## 4. Proofs

The theorems hold for every set of items, plans, requests, readers, devices,
installations and every bound. They assume only the named assumptions of the
modules: `StoreAssumption` (plans are well-formed as the request schema
guarantees, bounds are numbers), `ClientAssumption` and `DeviceAssumption` (NULL is no id, key or
credential; installations have the shape of the login request).

Some theorems have a hypothesis on the constants, which is stated in them and
explained with them below.

`ItemSyncStore`:

* `TypeCorrect`: `Spec => []TypeOK`. `MaximumExists`, a fact about bounded sets of
  naturals, is what makes the end of a page denote.
* `RevisionsAreOrdered`, `NoUpdateIsLost`, `MutationsAreDecidedOnce` rest on one
  inductive invariant, `OrderInv`. None of the three is inductive: whether a commit
  is right depends on what the request read earlier. `OrderInv` adds that of every
  request in flight, what it read (its rows, the receipts it found, the operations
  it will accept) is still so as long as the revision it read is still the
  account's; and that a batch with a state write commits only then, because the
  claim of the next revision is free exactly when no one has taken it. The
  invariant also bounds every recorded revision and cursor by the account's. There
  is one lemma per group of actions.
* `HistoryOnlyGrows`, `ForeignRowsAreSafe`: the action properties
  `NothingIsTakenBack` and `ForeignRowsUntouched`. The lemma behind both, and behind
  what follows, is that a batch either writes nothing but conflict receipts or
  *lands*: it takes the next revision, and each of its changes finds its row.
* `FeedAndRowsAgree` (`FeedDescribesRows`): `TablesAgree` says of an item's newest
  change that it is the row's. It assumes `SharedIds = {}`, that no other account
  creates an item of the same id: without it an upsert may write a change and no
  row, which is disagreement 1 of section 3.
* `ConflictsAreFinal` (`ConflictStaysConflict`): a batch of conflicts only claims no
  revision and may commit when its rows have moved. `ConflictInv` says of each row
  that a request has read that the item is still as it was, or past the operation's
  base; revisions only grow, so a refused base never comes back.
* `AnswersAreRecorded` (`AnswersAreDurable`): `AnswerInv` ties what a request will
  answer to the receipts it has found or written, along the catch block and the
  retries. What makes it hold is `MutationDecidedOnce`.
* `StoreIsAtomic` (`ImplementsAtomicStore`), under `SharedIds = {}`: initial states
  map to initial states, and every step maps to one decision of `ItemSyncAtomic` on
  the items as they are, or to a stutter. For a batch with a state write the rows are
  those that were read (`OrderInv`); for the others the abstract store refuses as well
  (`ConflictInv`). The envelope path maps to a decision, too.
* `PagesMissNothing` (`ReaderMissesNothing`), `EveryPageAdvances` (`PagesAdvance`),
  `RevisionsAreCovered`, `VaultPullsAreCurrent`: the readers' properties. `ReadInv`
  says of a pull between its statements that all that was written since its first one
  is of a later revision and a later cursor. The first speaks of the changes that the
  item-level schema admits, since the others reach no device. The second is what keeps
  a page of nothing but malformed rows from being asked for again and again: the
  page's end is taken over all rows, and a feed that goes on has a next page with a
  first row (`PageHasFirst`).

`DeviceTrust`:

* `TypeCorrect`: `Spec => []TypeOK`. Its last conjunct ties a request that is about
  to mint to the device it presented, along login and registration.
  The inductive invariant `TrustInv` adds what a request keeps of its installation
  or target at every point of its handler.
* `SessionsEndWithTheirEpoch` and `SessionsAreReplaced`: a session or login session
  of an earlier epoch never exists, and a device has at most one session. The first
  is inductive, because both inserts select on the epoch and recovery deletes; the
  second is inductive relative to `TypeOK`, which says that a device-bound login
  names its device when it mints.
* `SessionsFollowTrust`: a bound session's device is pending or approved. It is
  proved for accounts whose clients do not use `POST /devices` (`"register" \notin
  Kinds`), and is false with it: a stale status written back by that handler can
  mark a device revoked that has registered anew and logged in (the mechanism of
  disagreement 3). The argument is that every statement that takes a device out of
  pending or approved deletes its sessions in the same batch, and that minting
  selects on the status.
* `PasswordProvesOnce` (`LoginConsumedOnce`): `LoginInv` says that a login is in one
  place, as a login session, in one request that has consumed it, or as a session.
* `RecoveriesUseTheirCode` (`RecoveryCodeUsedOnce`): `CodeInv` says that the code of
  every attempt is the packet's or an earlier one, and that a used code is earlier.
* `KeysFollowTrust` (`VaultKeysFollowTrust`): an approved device has a packet for its
  key, a rejected or revoked one has none. It is proved without `POST /devices` and
  `share-key`, under which it is false (disagreements 2 and 3), and for
  installations that keep their key (`OneKeyPerId`): two of one device id have one
  key. The server does not enforce that; the Android client does, which makes the id
  together with the key and removes both together (`VaultRepository.kt:923`,
  `SecureMaterialStore.kt:121`). Without it a login could change the key of an
  approved row and leave its packet. `KeyInv` adds that a packet that is about to be
  written is for the key of its device, as read.

`MobileSync`:

* `QueueIsSound`: `Spec => []QueueMatchesRows`, and `BackupsAreRestorable`: a backup
  that was made passes the checks of `restoreEncryptedBackup`. `QueueMatchesRows` is
  inductive with no more than `Shape` (every table has an entry for every item, the
  clock is a number): it needs nothing of the server, whatever it answers, since
  every transaction rewrites a row and its mutation together. There is one lemma per
  transaction.
* `PhonesStaySynced`: `Spec => []Synced`, from which follow `StateIsTyped` (`TypeOK`),
  `SyncedRowsAreServed` (`RowsAreServed`), `NothingPulledIsForgotten`
  (`KnowsWhatItPulled`) and the action property `PullsEraseNoEdit`
  (`PullErasesNoEdit`: a pull replaces a version only if the server has had it, and no
  tombstone, which is a deletion that waits). The first half of `Synced`, `StoreInv` with `WorldOK`, is
  about the server alone and proved once in `SharedStoreProofs`: the feed is ordered,
  the items are the feed's last changes, an applied verdict has its change, and a
  mutation is decided once. The second, `PhoneOK`, says of each table of the phone
  where its entries come from. `RowsAreServed` alone is not inductive, as a row may
  come back from an answer, a conflict, a backup or the queue; nor is
  `KnowsWhatItPulled`, since an acknowledgement forgets the base it covers and relies
  on the receipt being past it (`Receivable`), and a restored backup takes cursor and
  tables back together. The hypothesis, `IsFiniteSet(Items)`, is that the set of ids
  is finite, which is needed because a page or a plan with infinitely many operations
  is no sequence.

`ExtensionSync`, under the same hypothesis `IsFiniteSet(Items)`, for the same reason:

* All theorems rest on one inductive invariant, `ExtInv`. It holds `WorldOK`, of the
  server and the network, and for each extension `RunOK`, of its run, and `ItemOK`, of
  each item: `KnownOK` (what is local, known, pending or in conflict),
  `OwnOK` (what is on the way of a version that is not synced) and `CoverOK` (what is
  behind the cursor).
* `AppliedOnce` (`EditIsAppliedOnce`) and `NoVersionRefusesItself`
  (`NoConflictWithItself`) are why it is needed. Whether a version is applied twice
  depends on every request that may still arrive, after restarts as well. The
  invariant says that a version that the server may still apply *stands* under one
  mutation id: the plan with the id is committed before it is sent, a pending id is
  reused as long as the version is unchanged, and a new id is made for the same
  version only after a refusal. `Apart` and `ApartOnce` say that no two extensions
  have an unsynced version in common.
* `SyncedRowsAreServed` (`BaselineIsServed`), `CursorIsCovered` (`CursorCoversVault`)
  and `NoEditIsErased` (`PullErasesNoEdit`) need what a page leaves. `ReplayIs`
  and `ReadStep` follow one change, `ReadPage` the whole page, by `UpToInduction`,
  induction on its length over a set instead of an operator. `NothingIsDeleted`
  (`ExtensionDeletesNothing`) holds because what is known, pending or in conflict is
  in the vault.
* `StateIsTyped`: `Spec => []TypeOK`.

Every leaf is kept small: definitions that a step does not need are hidden, facts
about records that are updated twice are steps of their own, and what several leaves
need is a lemma or a named predicate (`ReasonIs`, `Overwrites`, `NewEntry`,
`SameBackup`). All modules are proved with the default time limits, and were also
proved with less than a fifth of them, so that a slower machine proves them as well.

Only model-checked:

* All liveness, that is, `Converges` of both clients: liveness under fairness and
  `ENABLED` are out of the prover's reach.
* The four violated properties, which are false.
* `SessionsOfTrustedDevices` and `VaultKeysFollowTrust` with `POST /devices` or
  `share-key`, which do not hold: `device_trust` and `device_recovery` leave these out.

## 5. Plan

Done: the store with its abstraction, all its properties proved; `DeviceTrust`, the
extension and the phone, with all their safety properties proved; the web tab.

Left, in order:

1. Two tabs of the web client over one localStorage, and the whole-envelope path of
   webcrypto vaults: what a tab keeps, as checks first and then as theorems on the
   facts of `SharedStoreProofs`, as for the extension.
2. The migration of v1 recovery packets, beside logins.

## 6. Not modelled

* Account deletion: the account's objects are deleted one by one, then one
  cascading `DELETE`. The code promises a deletion that can be repeated "instead of
  leaving inaccessible orphaned backups" (`routes/auth.ts:702`); what could break that,
  an export stored between the two, is in the object storage, which no module models.
  Registration is the initial state of
  `DeviceTrust`.
* Exports: single reads and writes of opaque objects.
* Rate limiter: a sliding window over wall-clock milliseconds in three statements;
  nothing else reads its count.
* Desktop: written against an earlier protocol. It sends no mutation ids, which the
  server requires, and its revision where a feed cursor is expected: a model of it
  beside this server would be one of failing requests. The desktop's offline queue
  belongs to it.
* The web client's offline queue: a number for display. Its entries hold no content,
  and a sync sends what the vault holds, whatever the queue says.
* Cryptography, sealed formats, search tokens, parsers of imports, generators, form
  heuristics, native bridges and views: functions of their inputs or layout, without
  shared state. They are most of the repository's lines.
* Parts of modelled components that are left out are named in section 2 and under
  `components` in `PROJECT.json`.
