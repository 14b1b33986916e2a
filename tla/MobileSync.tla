------------------------------ MODULE MobileSync ------------------------------
(***************************************************************************)
(* The Android client: a Room database of items, queued mutations and      *)
(* conflicts (VaultRepository.kt), the sync run over it (MobileSyncService)*)
(* and the operations of the vault screens (vault-state.ts), which wait    *)
(* for each other in one queue.  Each repository call is one transaction.  *)
(* A run ends between any two of them: the network fails, the app is       *)
(* killed.  Locking stops no run: it only keeps new operations from        *)
(* starting.                                                               *)
(*                                                                         *)
(* Unlike the browser engine, which compares vaults to find what to send,  *)
(* the phone queues what its user did, one mutation per item, and sends    *)
(* the queued ciphertext as it is until it is decided.                     *)
(***************************************************************************)
EXTENDS SharedStore

VARIABLES
  phone,  \* per client: its database, its run, and its encrypted backup
  told    \* the conflicts in the server's receipts, as they were first decided

vars == <<world, phone, told>>

\* A row of vault_ciphertexts: a tombstone keeps the ciphertext it hides.
NoRow == [stamp |-> 0, rev |-> 0, deleted |-> FALSE]
Row(stamp, rev) == [stamp |-> stamp, rev |-> rev, deleted |-> FALSE]
Tombstone(row) == [stamp |-> row.stamp, rev |-> row.rev, deleted |-> TRUE]
Visible(row) == row # NoRow /\ ~row.deleted
Shown(p) == [i \in Items |-> IF Visible(phone[p].rows[i]) THEN phone[p].rows[i].stamp ELSE 0]

\* A row of sync_conflicts: what the server has, and in which revision.
NoConflict == [status |-> "none", stamp |-> 0, rev |-> 0]
Unresolved(stamp, rev) == [status |-> "UNRESOLVED", stamp |-> stamp, rev |-> rev]
InConflict(p, i) == phone[p].conflicts[i].status = "UNRESOLVED"

\* An operation of the queue of vault-state.ts.
MayStart(p) == phone[p].pc = "idle" /\ phone[p].unlocked

----------------------------------------------------------------------------
(* Edits: a row and its mutation in one transaction.                        *)

\* The base of the queued mutation is kept, whatever it is replaced by.
BaseOf(p, i) ==
  IF phone[p].pending[i] # NoPending THEN phone[p].pending[i].base ELSE phone[p].rows[i].rev

Queued(p, kind, i, stamp, base) ==
  [kind |-> kind, mut |-> <<p, clock, i, stamp>>, stamp |-> stamp, base |-> base]

\* What a form can be about: what is shown, or what a pull took away under it.
Editable(p) == [i \in Items |-> IF i \in phone[p].taken THEN 1 ELSE Shown(p)[i]]

\* upsertLocalCiphertextAndEnqueue.  A save that waited for a run may find no row.
SaveItem(p, i) ==
  /\ MayStart(p)
  /\ MakeVersion(Editable(p), i)
  /\ phone' = [phone EXCEPT
       ![p].rows[i] = Row(clock + 1, phone[p].rows[i].rev),
       ![p].pending[i] = Queued(p, "upsert", i, clock + 1, BaseOf(p, i))]
  /\ UNCHANGED <<store, told>>

\* deleteLocalAndEnqueue: an item the server is not known to have is forgotten,
\* but not its conflict, if there is one.
DeleteItem(p, i) ==
  /\ MayStart(p) /\ clock < MaxEdits
  /\ Visible(phone[p].rows[i])
  /\ phone' = [phone EXCEPT ![p] =
       IF @.pending[i].kind = "upsert" /\ @.pending[i].base = 0
       THEN [@ EXCEPT !.rows[i] = NoRow, !.pending[i] = NoPending,
                      !.left = phone[p].left \cup {j \in {i} : InConflict(p, j)}]
       ELSE [@ EXCEPT !.rows[i] = Tombstone(phone[p].rows[i]),
                      !.pending[i] = Queued(p, "delete", i, 0, BaseOf(p, i))]]
  /\ clock' = clock + 1
  /\ UNCHANGED <<store, used, told>>

\* importCryptoCoreBackup: items that are not here, whoever made them; it locks.
ImportItems(p, S) ==
  /\ MayStart(p) /\ clock < MaxEdits
  /\ \A i \in S : phone[p].rows[i] = NoRow
  /\ phone' = [phone EXCEPT
       ![p].rows = [i \in Items |-> IF i \in S THEN Row(clock + 1, 0) ELSE @[i]],
       ![p].pending = [i \in Items |-> IF i \in S THEN Queued(p, "upsert", i, clock + 1, 0)
                                                  ELSE @[i]],
       ![p].unlocked = FALSE]
  /\ clock' = clock + 1
  /\ used' = used \cup S
  /\ UNCHANGED <<store, told>>

----------------------------------------------------------------------------
(* synchronize                                                              *)

StartSync(p) ==
  /\ MayStart(p)
  /\ phone' = [phone EXCEPT ![p].pc = "push", ![p].taken = {}]
  /\ UNCHANGED <<world, told>>

\* The oldest mutations of items that are not in conflict, as many as a request
\* takes.  Those of one import are of one time: their random ids order them.
Eligible(p) == {i \in Items : phone[p].pending[i] # NoPending /\ ~InConflict(p, i)}
Batches(p) ==
  LET time(i) == phone[p].pending[i].mut[2]
      oldest == {S \in SUBSET Eligible(p) :
                   /\ Cardinality(S) <= MaxMutations
                   /\ Cardinality(S) = MaxMutations \/ S = Eligible(p)
                   /\ \A i \in S, j \in Eligible(p) \ S : time(i) <= time(j)}
  IN  {[i \in S |-> phone[p].pending[i]] : S \in oldest}

\* The server decides, and keeps with a conflict what it had of the item.
ServerState(i) ==
  [rev |-> item[i].rev, stamp |-> IF item[i].rev = 0 \/ item[i].deleted THEN 0
                                  ELSE Stamp(item[i])]
ServePhone(ops) ==
  /\ Serve(ops)
  /\ told' = told \cup {[mut |-> o.mut, remote |-> ServerState(o.item)]
                          : o \in {x \in Undecided(ops) : ~Store!Current(x)}}

\* Mutant: the revision of the receipt is not recorded.
AcknowledgedOldRevision(client, receipts) ==
  [client EXCEPT
    !.rows = [i \in Items |->
       IF i \in DOMAIN receipts /\ client.pending[i].kind = "delete" THEN NoRow ELSE @[i]],
    !.pending = [i \in Items |-> IF i \in DOMAIN receipts THEN NoPending ELSE @[i]]]

\* Mutant: what was acknowledged stays queued.
AcknowledgedStillQueued(client, receipts) ==
  [client EXCEPT
    !.rows = [i \in Items |->
       IF i \in DOMAIN receipts /\ client.pending[i].kind = "upsert"
       THEN Row(@[i].stamp, receipts[i]) ELSE @[i]]]

\* ackMutations: the rows and the queue in one transaction.
Acknowledged(client, receipts) ==
  [client EXCEPT
    !.rows = [i \in Items |->
       IF i \notin DOMAIN receipts THEN @[i]
       ELSE IF client.pending[i].kind = "delete" THEN NoRow
       ELSE Row(@[i].stamp, receipts[i])],
    !.pending = [i \in Items |-> IF i \in DOMAIN receipts THEN NoPending ELSE @[i]]]

PushBatch(p, batch) ==
  LET answer(i) == Verdict(verdict', batch, i)
      applied == {i \in DOMAIN batch : answer(i).status = "applied"}
      toldOf(i) == (CHOOSE t \in told' : t.mut = batch[i].mut).remote
  IN  /\ ServePhone(Operations(batch))
      /\ phone' = [phone EXCEPT ![p] =
           [Acknowledged(@, [i \in applied |-> answer(i).rev]) EXCEPT
             !.answered = [i \in DOMAIN batch \ applied |-> toldOf(i)],
             !.pc = IF applied = DOMAIN batch THEN "push" ELSE "conflicts"]]
      /\ UNCHANGED <<clock, used>>

Push(p) ==
  /\ phone[p].pc = "push" /\ Eligible(p) # {}
  /\ \E batch \in Batches(p) : PushBatch(p, batch)

\* saveConflicts: a transaction of its own.
SaveConflicts(p) ==
  /\ phone[p].pc = "conflicts"
  /\ phone' = [phone EXCEPT
       ![p].conflicts = [i \in Items |->
          IF i \in DOMAIN phone[p].answered
          THEN Unresolved(phone[p].answered[i].stamp, phone[p].answered[i].rev) ELSE @[i]],
       ![p].answered = <<>>, ![p].pc = "push"]
  /\ UNCHANGED <<world, told>>

PushDone(p) ==
  /\ phone[p].pc = "push" /\ Eligible(p) = {}
  /\ phone' = [phone EXCEPT ![p].pc = "pull"]
  /\ UNCHANGED <<world, told>>

\* applyPull: the last change of every item of the page, and the cursor.  What
\* is queued stays, and what the server has is kept as a conflict.
LastChanges(p) ==
  LET page == Page(feed, phone[p].cursor)
      last == {k \in DOMAIN page : \A l \in DOMAIN page : page[l].item = page[k].item => l <= k}
  IN  {page[k] : k \in last}

\* Mutant: a change replaces the row, whatever is queued.
PulledRowAnyway(client, change) ==
  IF change.kind = "delete" THEN NoRow ELSE Row(change.stamp, change.rev)

PulledRow(client, change) ==
  IF client.pending[change.item] # NoPending THEN client.rows[change.item]
  ELSE IF change.kind = "delete" THEN NoRow
  ELSE Row(change.stamp, change.rev)

\* Mutant: a change of a queued item leaves no conflict.
AfterPullSilently(client, changes) ==
  LET changed(i) == \E c \in changes : c.item = i
      change(i) == CHOOSE c \in changes : c.item = i
  IN  [client EXCEPT
        !.rows = [i \in Items |-> IF changed(i) THEN PulledRow(client, change(i)) ELSE @[i]],
        !.cursor = PageEnd(feed, client.cursor),
        !.pc = IF HasMore(feed, client.cursor) THEN "pull" ELSE "idle"]

\* Mutant: the cursor moves on by a whole page, however short the page was.
AfterPullByLimit(client, changes) ==
  LET changed(i) == \E c \in changes : c.item = i
      change(i) == CHOOSE c \in changes : c.item = i
  IN  [client EXCEPT
        !.rows = [i \in Items |-> IF changed(i) THEN PulledRow(client, change(i)) ELSE @[i]],
        !.conflicts = [i \in Items |->
           IF changed(i) /\ client.pending[i] # NoPending
           THEN Unresolved(change(i).stamp, change(i).rev) ELSE @[i]],
        !.cursor = @ + PageLimit,
        !.pc = IF HasMore(feed, client.cursor) THEN "pull" ELSE "idle"]

AfterPull(client, changes) ==
  LET changed(i) == \E c \in changes : c.item = i
      change(i) == CHOOSE c \in changes : c.item = i
  IN  [client EXCEPT
        !.rows = [i \in Items |-> IF changed(i) THEN PulledRow(client, change(i)) ELSE @[i]],
        !.conflicts = [i \in Items |->
           IF changed(i) /\ client.pending[i] # NoPending
           THEN Unresolved(change(i).stamp, change(i).rev) ELSE @[i]],
        !.cursor = PageEnd(feed, client.cursor),
        !.taken = @ \cup {i \in Items : /\ Visible(client.rows[i]) /\ changed(i)
                                      /\ PulledRow(client, change(i)) = NoRow},
        !.pc = IF HasMore(feed, client.cursor) THEN "pull" ELSE "idle"]

Pull(p) ==
  /\ phone[p].pc = "pull"
  /\ phone' = [phone EXCEPT ![p] = AfterPull(@, LastChanges(p))]
  /\ UNCHANGED <<world, told>>

\* A request in flight may have been served, may still be, or never.
Fail(p) ==
  /\ phone[p].pc # "idle"
  /\ IF phone[p].pc = "push" /\ Eligible(p) # {}
     THEN \E batch \in Batches(p) : GiveUp(Operations(batch))
     ELSE UNCHANGED store
  /\ phone' = [phone EXCEPT ![p].pc = "idle", ![p].answered = <<>>]
  /\ UNCHANGED <<clock, used, told>>

Lock(p) ==
  /\ phone[p].unlocked
  /\ phone' = [phone EXCEPT ![p].unlocked = FALSE]
  /\ UNCHANGED <<world, told>>

Unlock(p) ==
  /\ ~phone[p].unlocked
  /\ phone' = [phone EXCEPT ![p].unlocked = TRUE, ![p].taken = {}]
  /\ UNCHANGED <<world, told>>

----------------------------------------------------------------------------
(* resolveConflict: the conflicts on the screen are the unresolved ones.    *)

MayResolve(p, i) == MayStart(p) /\ InConflict(p, i)

\* Queue what is here on the revision of the conflict, under a new mutation id.
KeepLocal(p, i) ==
  LET row == phone[p].rows[i]
      kind == IF phone[p].pending[i] # NoPending THEN phone[p].pending[i].kind
              ELSE IF row.deleted THEN "delete" ELSE "upsert"
  IN  /\ MayResolve(p, i) /\ row # NoRow /\ clock < MaxEdits
      /\ phone' = [phone EXCEPT
           ![p].pending[i] = Queued(p, kind, i, IF kind = "delete" THEN 0 ELSE row.stamp,
                                    phone[p].conflicts[i].rev),
           ![p].conflicts[i] = NoConflict]
      /\ clock' = clock + 1
      /\ UNCHANGED <<store, used, told>>

\* Mutant: the queued mutation outlives the remote version that was accepted.
WithRemoteStillQueued(client, i) ==
  LET remote == client.conflicts[i]
  IN  [client EXCEPT
        !.rows[i] = IF remote.stamp = 0 THEN NoRow ELSE Row(remote.stamp, remote.rev),
        !.conflicts[i] = NoConflict]

\* applyRemoteConflict, and nothing of the item is queued or in conflict.
WithRemote(client, i) ==
  LET remote == client.conflicts[i]
  IN  [client EXCEPT
        !.rows[i] = IF remote.stamp = 0 THEN NoRow ELSE Row(remote.stamp, remote.rev),
        !.pending[i] = NoPending, !.conflicts[i] = NoConflict]

AcceptRemote(p, i) ==
  /\ MayResolve(p, i)
  /\ phone' = [phone EXCEPT ![p] = WithRemote(@, i)]
  /\ UNCHANGED <<world, told>>

\* The local version lives on as the new item j.
CreateCopy(p, i, j) ==
  /\ MayResolve(p, i) /\ Visible(phone[p].rows[i]) /\ j \notin used
  /\ MakeVersion(Shown(p), j)
  /\ phone' = [phone EXCEPT ![p] =
       [WithRemote(@, i) EXCEPT !.rows[j] = Row(clock + 1, 0),
                                !.pending[j] = Queued(p, "upsert", j, clock + 1, 0)]]
  /\ UNCHANGED <<store, told>>

\* The mutation stays queued, and is no longer held back by the conflict.
Skip(p, i) ==
  /\ MayResolve(p, i) /\ clock < MaxEdits
  /\ phone' = [phone EXCEPT ![p].conflicts[i].status = "SKIPPED", ![p].left = @ \cup {i}]
  /\ clock' = clock + 1
  /\ UNCHANGED <<store, used, told>>

----------------------------------------------------------------------------
(* Encrypted backups of the database.                                       *)

NoBackup == [made |-> FALSE]

\* createEncryptedBackup: rows with tombstones, queue and cursor.  The bound:
\* one backup, while it can still be restored.
CreateBackup(p) ==
  /\ MayStart(p) /\ phone[p].backup = NoBackup /\ clock < MaxEdits
  /\ \A i \in Items : ~InConflict(p, i)
  /\ phone' = [phone EXCEPT ![p].backup =
       [made |-> TRUE, rows |-> phone[p].rows, pending |-> phone[p].pending,
        cursor |-> phone[p].cursor]]
  /\ UNCHANGED <<world, told>>

\* restoreEncryptedBackup replaces all four tables, and locks; it refuses a
\* backup in which a queued mutation has no row with its ciphertext.
Restorable(backup) ==
  \A i \in Items : backup.pending[i] # NoPending =>
    /\ backup.rows[i] # NoRow
    /\ backup.pending[i].kind = "upsert" => backup.pending[i].stamp = backup.rows[i].stamp

RestoreBackup(p) ==
  LET backup == phone[p].backup
  IN  /\ MayStart(p) /\ clock < MaxEdits
      /\ backup # NoBackup /\ Restorable(backup)
      /\ phone' = [phone EXCEPT ![p] =
           [@ EXCEPT !.rows = backup.rows, !.pending = backup.pending,
                     !.cursor = backup.cursor, !.unlocked = FALSE,
                     !.conflicts = [i \in Items |-> NoConflict]]]
      /\ clock' = clock + 1
      /\ UNCHANGED <<store, used, told>>

----------------------------------------------------------------------------
(* Specification.                                                           *)

Init ==
  /\ StoreInit
  /\ told = {}
  /\ phone = [p \in Clients |->
       [unlocked |-> TRUE, pc |-> "idle", rows |-> [i \in Items |-> NoRow],
        pending |-> [i \in Items |-> NoPending], conflicts |-> [i \in Items |-> NoConflict],
        cursor |-> 0, answered |-> <<>>, backup |-> NoBackup, left |-> {}, taken |-> {}]]

\* A request of a phone that gave up on it; the account's other clients.
Elsewhere ==
  \/ \E ops \in late : ServePhone(ops) /\ UNCHANGED <<clock, used, phone>>
  \/ \E i \in Items, kind \in {"upsert", "delete"} :
       OthersWrite(i, kind) /\ UNCHANGED <<phone, told>>

PhoneNext(p) ==
  \/ StartSync(p) \/ Push(p) \/ SaveConflicts(p) \/ PushDone(p) \/ Pull(p) \/ Fail(p)
  \/ Lock(p) \/ Unlock(p) \/ CreateBackup(p) \/ RestoreBackup(p)
  \/ \E S \in SUBSET Items \ {{}} : ImportItems(p, S)
  \/ \E i \in Items :
       \/ SaveItem(p, i) \/ DeleteItem(p, i)
       \/ KeepLocal(p, i) \/ AcceptRemote(p, i) \/ Skip(p, i)
       \/ \E j \in Items : CreateCopy(p, i, j)

Next == Elsewhere \/ \E p \in Clients : PhoneNext(p)

Spec == Init /\ [][Next]_vars

\* A run starts on unlocking and every minute in the foreground; a request that
\* is made again and again is answered in the end.
Fairness(p) ==
  /\ SF_vars(StartSync(p)) /\ SF_vars(Push(p)) /\ SF_vars(SaveConflicts(p))
  /\ SF_vars(PushDone(p)) /\ SF_vars(Pull(p))

FairSpec == Spec /\ \A p \in Clients : Fairness(p)

----------------------------------------------------------------------------
(* Properties.                                                              *)

RowType == [stamp: Nat, rev: Nat, deleted: BOOLEAN]
ConflictType == [status: {"none", "UNRESOLVED", "SKIPPED"}, stamp: Nat, rev: Nat]

\* The state is of its type.
TypeOK ==
  /\ StoreTypeOK
  /\ \A p \in Clients :
       /\ phone[p].pc \in {"idle", "push", "conflicts", "pull"}
       /\ phone[p].rows \in [Items -> RowType]
       /\ phone[p].pending \in [Items -> Pending]
       /\ phone[p].conflicts \in [Items -> ConflictType]
       /\ phone[p].cursor \in 0..Len(feed)

\* What is queued is what the phone shows, and a tombstone waits for the server.
Agree(row, queued) ==
  /\ queued = NoPending \/ queued.kind \in {"upsert", "delete"}
  /\ queued.kind = "upsert" => Visible(row) /\ row.stamp = queued.stamp
  /\ queued.kind = "delete" => row # NoRow /\ row.deleted
  /\ row.deleted => queued.kind = "delete"

\* The queue and the rows agree through edits, answers, pulls, resolutions and
\* restores, in the database and in its backup: no acknowledgement misses its
\* row, and no backup that was made is refused.
QueueMatchesRows ==
  \A p \in Clients, i \in Items :
    /\ Agree(phone[p].rows[i], phone[p].pending[i])
    /\ phone[p].backup # NoBackup => Agree(phone[p].backup.rows[i], phone[p].backup.pending[i])

\* What the phone takes for synced is what the server stored: a row with
\* nothing queued has the version and the revision of one change.
RowsAreServed ==
  \A p \in Clients, i \in Items :
    LET row == phone[p].rows[i]
    IN  row # NoRow /\ phone[p].pending[i] = NoPending =>
          \E k \in DOMAIN feed :
            feed[k] = [item |-> i, kind |-> "upsert", rev |-> row.rev, stamp |-> row.stamp]

\* The phone knows what is behind its cursor: it has the version or a newer
\* one, has queued an edit of it, or shows a conflict with it.  Of an item that
\* its user once left in conflict this does not hold.  If the conflict was
\* skipped, the mutation is sent again, and its old receipt replaces what was
\* pulled since.  If the item was deleted and forgotten, the conflict stays as it
\* was while pulls go on, and accepting it takes a version that is out of date.
KnowsWhatItPulled ==
  \A p \in Clients, k \in DOMAIN feed :
    LET i == feed[k].item
    IN  k <= phone[p].cursor /\ i \notin phone[p].left =>
          \/ phone[p].rows[i].rev >= feed[k].rev
          \/ phone[p].pending[i].base >= feed[k].rev
          \/ phone[p].conflicts[i].rev >= feed[k].rev
          \/ \E l \in k..Len(feed) : feed[l].item = i /\ feed[l].kind = "delete"

\* A version or a deletion its user made is not undone by what is pulled before
\* the server has decided it, and the user resolved what was decided against it:
\* a pull replaces a version only if the server has had it, and no tombstone,
\* which is a deletion that waits.
PullErasesNoEdit ==
  [][\A p \in Clients, i \in Items :
       phone'[p].rows[i] # phone[p].rows[i] /\ Pull(p) =>
         \/ phone[p].rows[i] = NoRow
         \/ /\ ~phone[p].rows[i].deleted
            /\ \E k \in DOMAIN feed :
                 feed[k].item = i /\ feed[k].stamp = phone[p].rows[i].stamp]_vars

\* Once edits stop, a phone that is unlocked again and again ends up with what
\* the server has of every item that is not and was not left in conflict.
Converges ==
  (\A p \in Clients : []<>phone[p].unlocked) =>
    <>[](\A p \in Clients, i \in Items :
           phone[p].conflicts[i] = NoConflict /\ i \notin phone[p].left =>
             Shown(p)[i] = Latest(i) /\ phone[p].pending[i] = NoPending)

=============================================================================
