--------------------------- MODULE ItemSyncStore ---------------------------
(***************************************************************************)
(* The item-sync half of the Worker's D1 store, for one account:           *)
(* D1VaultStore.pushItemLevelSync / pushItemLevelSyncOnce, pushVault (the  *)
(* whole-envelope compatibility path), pullItemLevelSync and pullVault, in *)
(* apps/worker-api/src/store/d1-store.ts.                                  *)
(*                                                                         *)
(* Every awaited D1 statement is one step, so requests interleave between  *)
(* their reads and their write; db.batch([...]) is one atomic step that    *)
(* either commits or leaves the tables as they were.                       *)
(***************************************************************************)
EXTENDS Integers, Sequences, FiniteSets

CONSTANTS
  Items,        \* item ids (vault_items.id is one key space for all accounts)
  Mutations,    \* client mutation ids
  NoMutation,   \* "mutation id" of a change made by the whole-envelope path
  Requests,     \* concurrent push requests the Worker may be handling
  Readers,      \* devices that pull
  Plans,        \* the plans a client may send
  SharedIds,    \* item ids that another account may create as well
  MaxAttempts,  \* MAX_SYNC_REVISION_RETRIES + 1
  PageLimit,    \* rows per page of pullItemLevelSync
  MaxRevision   \* bound of the model: no push is submitted at this revision

\* strict: the item satisfies vaultItemCiphertextSchema, and not only the looser
\* schema of the whole-envelope path.  A deletion has nothing to fail it.
Op == [mut: Mutations \cup {NoMutation}, item: Items,
       kind: {"upsert", "delete"}, base: Nat, strict: BOOLEAN]

Plan == [legacy: BOOLEAN, baseRevision: Nat, ops: Seq(Op)]

\* What itemLevelSyncPlanSchema guarantees of a parsed plan: no item and no
\* mutation id occurs twice, and every item is strict.  The whole-envelope schema
\* carries no mutation ids; its only sender pushes one item (the encrypted
\* envelope) per request.
WellFormed(p) ==
  /\ \A j, k \in DOMAIN p.ops : j # k => p.ops[j].item # p.ops[k].item
  /\ p.legacy => \A k \in DOMAIN p.ops : p.ops[k].mut = NoMutation
  /\ \A k \in DOMAIN p.ops : ~p.ops[k].strict => p.legacy /\ p.ops[k].kind = "upsert"
  /\ ~p.legacy => /\ \A k \in DOMAIN p.ops : p.ops[k].mut \in Mutations
                  /\ \A j, k \in DOMAIN p.ops :
                       j # k => p.ops[j].mut # p.ops[k].mut

ASSUME StoreAssumption ==
  /\ NoMutation \notin Mutations
  /\ Plans \subseteq {p \in Plan : WellFormed(p)}
  /\ SharedIds \subseteq Items
  /\ MaxAttempts \in Nat \ {0}
  /\ PageLimit \in Nat \ {0}
  /\ MaxRevision \in Nat

VARIABLES
  serverRevision, \* users.server_revision
  claims,         \* item_sync_revision_claims.revision
  rows,           \* vault_items, per item id
  history,        \* vault_item_history
  feed,           \* item_sync_changes
  lastCursor,     \* AUTOINCREMENT position of item_sync_changes
  receipts,       \* item_sync_mutations
  req,            \* the push requests in flight
  reader          \* the pulling devices

tables == <<serverRevision, claims, rows, history, feed, lastCursor, receipts>>
vars == <<tables, req, reader>>

----------------------------------------------------------------------------
(* The tables' rows.                                                        *)

Row == [owner: {"none", "self", "other"}, rev: Nat, deleted: BOOLEAN,
        mut: Mutations \cup {NoMutation}]
NoRow == [owner |-> "none", rev |-> 0, deleted |-> FALSE, mut |-> NoMutation]

Change == [cursor: Nat, item: Items, kind: {"upsert", "delete"}, rev: Nat,
           mut: Mutations \cup {NoMutation}, strict: BOOLEAN]
Version == [item: Items, rev: Nat, mut: Mutations \cup {NoMutation}]

\* The fingerprint of a request is every logical field of its operation, so
\* a receipt simply keeps the operation.
Receipt == [op: Op, status: {"applied", "conflict"}, rev: Nat,
            reason: {"none", "invalid_server_revision", "item_owner_mismatch",
                     "item_revision_mismatch", "item_revision_advanced"},
            itemRevision: Nat]

----------------------------------------------------------------------------
(* A push request and what it has read so far.                              *)

NoPlan == [legacy |-> FALSE, baseRevision |-> 0, ops |-> <<>>]
NoAnswer == [status |-> "none", rev |-> 0, applied |-> {}, conflicts |-> {}]
Answer == [status: {"none", "ok", "sync_conflict", "error"}, rev: Nat,
           applied: SUBSET Receipt, conflicts: SUBSET Op]

Idle == [pc |-> "idle", plan |-> NoPlan, attempt |-> 1, rev |-> 0,
         rows |-> [i \in Items |-> NoRow], receipts |-> {}, answer |-> NoAnswer]

PC == {"idle", "user", "rows", "receipts", "batch", "recheckRevision",
       "recheckReceipts", "owners", "legacyBatch", "legacyRecheck",
       "done", "failed"}

Request == [pc: PC, plan: Plans \cup {NoPlan}, attempt: 1..MaxAttempts,
            rev: Nat, rows: [Items -> Row], receipts: SUBSET Receipt,
            answer: Answer]

Step(r, q) == req' = [req EXCEPT ![r] = q]

OpsOf(q) == {q.plan.ops[k] : k \in DOMAIN q.plan.ops}

\* The reads of a request are kept only for the ids its plan names.
RowsOf(q) == [i \in Items |->
                IF \E o \in OpsOf(q) : o.item = i THEN rows[i] ELSE NoRow]
ReceiptsOf(q) == {x \in receipts : \E o \in OpsOf(q) : o.mut = x.op.mut}

----------------------------------------------------------------------------
(* The decision pushItemLevelSyncOnce takes for each operation, from what   *)
(* the request has read.                                                    *)

\* A receipt for this mutation id was read.
Seen(q, o) == \E x \in q.receipts : x.op.mut = o.mut

\* Mutant: the operation's base is compared with the account's revision.
ReasonByAccount(q, o) ==
  LET row == q.rows[o.item]
  IN  CASE row.owner = "other" -> "item_owner_mismatch"
        [] row.owner # "other" /\ q.rev > o.base -> "item_revision_advanced"
        [] row.owner # "other" /\ q.rev < o.base -> "item_revision_mismatch"
        [] OTHER -> "none"

Reason(q, o) ==
  LET row == q.rows[o.item]
  IN  IF q.plan.baseRevision > q.rev THEN "invalid_server_revision"
      ELSE IF row.owner = "other" THEN "item_owner_mismatch"
      ELSE IF o.kind = "delete" /\ row.owner = "none" THEN "item_revision_mismatch"
      ELSE IF row.rev > o.base THEN "item_revision_advanced"
      ELSE IF row.rev < o.base THEN "item_revision_mismatch"
      ELSE "none"

Stale(q, o) == Reason(q, o) # "none"

Accepted(q) == {k \in DOMAIN q.plan.ops :
                  ~Seen(q, q.plan.ops[k]) /\ ~Stale(q, q.plan.ops[k])}
Rejected(q) == {k \in DOMAIN q.plan.ops :
                  ~Seen(q, q.plan.ops[k]) /\ Stale(q, q.plan.ops[k])}
Pending(q) == Accepted(q) \cup Rejected(q)

\* Mutant: a batch of nothing but conflict receipts takes a revision, too.
HasStateWriteAlways(q) == Pending(q) # {}

HasStateWrite(q) == Accepted(q) # {}
NewRevision(q) == IF HasStateWrite(q) THEN q.rev + 1 ELSE q.rev

AppliedReceipt(q, o) ==
  [op |-> o, status |-> "applied", rev |-> NewRevision(q),
   reason |-> "none", itemRevision |-> 0]
ConflictReceipt(q, o) ==
  [op |-> o, status |-> "conflict", rev |-> 0, reason |-> Reason(q, o),
   itemRevision |-> IF q.rows[o.item].owner = "self"
                    THEN q.rows[o.item].rev ELSE 0]
NewReceipts(q) ==
  {AppliedReceipt(q, q.plan.ops[k]) : k \in Accepted(q)}
    \cup {ConflictReceipt(q, q.plan.ops[k]) : k \in Rejected(q)}

\* Mutant: a receipt is replayed for whatever is sent under its mutation id.
AnswerById(q) ==
  LET applied == {x \in q.receipts : x.status = "applied"}
                   \cup {AppliedReceipt(q, q.plan.ops[k]) : k \in Accepted(q)}
      conflicts == {o \in OpsOf(q) : \A x \in applied : x.op.mut # o.mut}
  IN  [status |-> IF conflicts = {} THEN "ok" ELSE "sync_conflict",
       rev |-> NewRevision(q), applied |-> applied, conflicts |-> conflicts]

\* The response: a receipt that was read is replayed when it is for this very
\* operation and was applied; every other operation is reported in conflict.
AnswerTo(q) ==
  LET applied == {x \in q.receipts : x.status = "applied" /\ x.op \in OpsOf(q)}
                   \cup {AppliedReceipt(q, q.plan.ops[k]) : k \in Accepted(q)}
      conflicts == {o \in OpsOf(q) : \A x \in applied : x.op # o}
  IN  [status |-> IF conflicts = {} THEN "ok" ELSE "sync_conflict",
       rev |-> NewRevision(q), applied |-> applied, conflicts |-> conflicts]

----------------------------------------------------------------------------
(* The statements of the write batch.                                       *)

\* Mutant: ON CONFLICT(id) DO UPDATE without its WHERE user_id clause.
RowAfterAnyOwner(p, row, o, rev) ==
  [owner |-> "self", rev |-> rev, deleted |-> o.kind = "delete", mut |-> o.mut]

\* INSERT ... ON CONFLICT(id) DO UPDATE ... WHERE user_id = excluded.user_id,
\* or UPDATE ... SET deleted_at WHERE user_id = ?, to which the item-level
\* path adds AND revision = base.
RowAfter(p, row, o, rev) ==
  IF o.kind = "upsert" /\ row.owner # "other"
  THEN [owner |-> "self", rev |-> rev, deleted |-> FALSE, mut |-> o.mut]
  ELSE IF o.kind = "delete" /\ row.owner = "self" /\ (p.legacy \/ row.rev = o.base)
  THEN [owner |-> "self", rev |-> rev, deleted |-> TRUE, mut |-> o.mut]
  ELSE row

\* The rows, history and feed after the operations of plan p at the positions
\* in ks have been written at revision rev.
WriteOps(p, ks, rev) ==
  /\ rows' = [i \in Items |->
       IF \E k \in ks : p.ops[k].item = i
       THEN RowAfter(p, rows[i],
                     p.ops[CHOOSE k \in ks : p.ops[k].item = i], rev)
       ELSE rows[i]]
  /\ history' = history \cup
       {[item |-> p.ops[k].item, rev |-> rev, mut |-> p.ops[k].mut] :
          k \in {j \in ks : p.ops[j].kind = "upsert"}}
  /\ feed' = feed \cup
       {[cursor |-> lastCursor + k, item |-> p.ops[k].item,
         kind |-> p.ops[k].kind, rev |-> rev, mut |-> p.ops[k].mut,
         strict |-> p.ops[k].strict] : k \in ks}
  /\ lastCursor' = IF ks = {} THEN lastCursor ELSE lastCursor + Len(p.ops)

\* Mutant: no primary key on (user_id, revision).
ClaimNeverTaken(q) == FALSE

ClaimTaken(q) == HasStateWrite(q) /\ NewRevision(q) \in claims
\* Mutant: no primary key on (user_id, client_mutation_id).
ReceiptNeverTaken(q) == FALSE

ReceiptTaken(q) ==
  \E k \in Pending(q), x \in receipts : x.op.mut = q.plan.ops[k].mut

\* The whole batch, when neither primary key refuses it.
CommitBatch(q) ==
  /\ ~ClaimTaken(q)
  /\ ~ReceiptTaken(q)
  /\ claims' = IF HasStateWrite(q) THEN claims \cup {NewRevision(q)} ELSE claims
  /\ serverRevision' = IF HasStateWrite(q) THEN NewRevision(q)
                                           ELSE serverRevision
  /\ receipts' = receipts \cup NewReceipts(q)
  /\ WriteOps(q.plan, Accepted(q), NewRevision(q))

----------------------------------------------------------------------------
(* The item-level push.                                                     *)

\* A client only knows revisions the server has produced: an item revision
\* from a change or a receipt, a server revision from a response.  A base
\* revision above MaxRevision is that of a client whose server was restored.
Knows(p) ==
  /\ \A k \in DOMAIN p.ops :
       p.ops[k].base # 0 =>
         \E c \in feed : c.item = p.ops[k].item /\ c.rev = p.ops[k].base
  /\ \/ p.baseRevision <= serverRevision
     \/ ~p.legacy /\ p.baseRevision > MaxRevision + Cardinality(Requests)

Submit(r) ==
  /\ req[r].pc = "idle"
  /\ serverRevision < MaxRevision
  /\ \E p \in Plans :
       Knows(p) /\ Step(r, [Idle EXCEPT !.pc = "user", !.plan = p])
  /\ UNCHANGED <<tables, reader>>

ReadUser(r) ==
  /\ req[r].pc = "user"
  /\ Step(r, [req[r] EXCEPT !.rev = serverRevision,
                            !.pc = IF req[r].plan.legacy THEN "owners"
                                                         ELSE "rows"])
  /\ UNCHANGED <<tables, reader>>

ReadRows(r) ==
  /\ req[r].pc = "rows"
  /\ Step(r, [req[r] EXCEPT !.rows = RowsOf(req[r]), !.pc = "receipts"])
  /\ UNCHANGED <<tables, reader>>

\* Mutant: the account's revision is read after the items.
ReadReceiptsThenUser(r) ==
  /\ req[r].pc = "receipts"
  /\ Step(r, [req[r] EXCEPT !.receipts = ReceiptsOf(req[r]), !.pc = "batch",
                            !.rev = serverRevision])
  /\ UNCHANGED <<tables, reader>>

ReadReceipts(r) ==
  /\ req[r].pc = "receipts"
  /\ Step(r, [req[r] EXCEPT !.receipts = ReceiptsOf(req[r]), !.pc = "batch"])
  /\ UNCHANGED <<tables, reader>>

Reply(r, a) == Step(r, [Idle EXCEPT !.pc = "done", !.plan = req[r].plan,
                                    !.answer = a])
Fail(r) == Step(r, [Idle EXCEPT !.pc = "failed", !.plan = req[r].plan,
                                !.answer = [NoAnswer EXCEPT !.status = "error"]])

\* stmts.length = 0: every operation was answered from a receipt.
NothingToWrite(r) ==
  /\ req[r].pc = "batch"
  /\ Pending(req[r]) = {}
  /\ Reply(r, AnswerTo(req[r]))
  /\ UNCHANGED <<tables, reader>>

Commit(r) ==
  /\ req[r].pc = "batch"
  /\ Pending(req[r]) # {}
  /\ CommitBatch(req[r])
  /\ Reply(r, AnswerTo(req[r]))
  /\ UNCHANGED reader

\* The transaction commits but its acknowledgement is lost, and await throws.
CommitUnacknowledged(r) ==
  /\ req[r].pc = "batch"
  /\ Pending(req[r]) # {}
  /\ CommitBatch(req[r])
  /\ Step(r, [req[r] EXCEPT !.pc = "recheckRevision"])
  /\ UNCHANGED reader

\* A primary key refuses the batch, or D1 fails: nothing is written.
BatchRolledBack(r) ==
  /\ req[r].pc = "batch"
  /\ Pending(req[r]) # {}
  /\ Step(r, [req[r] EXCEPT !.pc = "recheckRevision"])
  /\ UNCHANGED <<tables, reader>>

\* Mutant: one attempt too many.
NextAttemptInclusive(r) ==
  IF req[r].attempt <= MaxAttempts
  THEN Step(r, [Idle EXCEPT !.pc = "user", !.plan = req[r].plan,
                            !.attempt = req[r].attempt + 1])
  ELSE Fail(r)

\* SyncRevisionClaimConflict reaches the loop of pushItemLevelSync.
NextAttempt(r) ==
  IF req[r].attempt < MaxAttempts
  THEN Step(r, [Idle EXCEPT !.pc = "user", !.plan = req[r].plan,
                            !.attempt = req[r].attempt + 1])
  ELSE Fail(r)

RecheckRevision(r) ==
  /\ req[r].pc = "recheckRevision"
  /\ IF HasStateWrite(req[r]) /\ serverRevision # req[r].rev
     THEN NextAttempt(r)
     ELSE Step(r, [req[r] EXCEPT !.pc = "recheckReceipts"])
  /\ UNCHANGED <<tables, reader>>

RecheckReceipts(r) ==
  /\ req[r].pc = "recheckReceipts"
  /\ IF ReceiptTaken(req[r]) THEN NextAttempt(r) ELSE Fail(r)
  /\ UNCHANGED <<tables, reader>>

----------------------------------------------------------------------------
(* The whole-envelope push.                                                 *)

\* The owner of each upserted id is checked before the base revision; one read,
\* as the only sender pushes one item.
ReadOwners(r) ==
  /\ req[r].pc = "owners"
  /\ IF \E o \in OpsOf(req[r]) : o.kind = "upsert" /\ rows[o.item].owner = "other"
     THEN Fail(r)
     ELSE IF req[r].plan.baseRevision # req[r].rev
     THEN Reply(r, [NoAnswer EXCEPT !.status = "sync_conflict", !.rev = req[r].rev])
     ELSE Step(r, [req[r] EXCEPT !.pc = "legacyBatch"])
  /\ UNCHANGED <<tables, reader>>

\* Mutant: the change of a delete is inserted unconditionally.
LegacyWritesAll(p) == DOMAIN p.ops

\* A delete of an id this account does not hold writes no change.
LegacyWrites(p) ==
  {k \in DOMAIN p.ops : p.ops[k].kind = "upsert" \/ rows[p.ops[k].item].owner = "self"}

LegacyCommitBatch(q) ==
  /\ q.rev + 1 \notin claims
  /\ claims' = claims \cup {q.rev + 1}
  /\ serverRevision' = q.rev + 1
  /\ WriteOps(q.plan, LegacyWrites(q.plan), q.rev + 1)
  /\ UNCHANGED receipts

LegacyCommit(r) ==
  /\ req[r].pc = "legacyBatch"
  /\ LegacyCommitBatch(req[r])
  /\ Reply(r, [NoAnswer EXCEPT !.status = "ok", !.rev = req[r].rev + 1])
  /\ UNCHANGED reader

LegacyCommitUnacknowledged(r) ==
  /\ req[r].pc = "legacyBatch"
  /\ LegacyCommitBatch(req[r])
  /\ Step(r, [req[r] EXCEPT !.pc = "legacyRecheck"])
  /\ UNCHANGED reader

LegacyRolledBack(r) ==
  /\ req[r].pc = "legacyBatch"
  /\ Step(r, [req[r] EXCEPT !.pc = "legacyRecheck"])
  /\ UNCHANGED <<tables, reader>>

LegacyRecheck(r) ==
  /\ req[r].pc = "legacyRecheck"
  /\ IF serverRevision # req[r].rev
     THEN Reply(r, [NoAnswer EXCEPT !.status = "sync_conflict", !.rev = serverRevision])
     ELSE Fail(r)
  /\ UNCHANGED <<tables, reader>>

----------------------------------------------------------------------------
(* Environment of the pushes.                                               *)

\* The response reaches the client, or it is lost, or the Worker is evicted in
\* the middle of a request: nothing of the request is left on the server.
Leave(r) ==
  /\ req[r].pc # "idle"
  /\ Step(r, Idle)
  /\ UNCHANGED <<tables, reader>>

\* Another account creates an item whose id this account may use as well.
ForeignCreate(i) ==
  /\ rows[i].owner = "none"
  /\ rows' = [rows EXCEPT ![i] = [NoRow EXCEPT !.owner = "other", !.rev = 1]]
  /\ UNCHANGED <<serverRevision, claims, history, feed, lastCursor, receipts,
                 req, reader>>

----------------------------------------------------------------------------
(* Pulls.                                                                   *)

NoEntry == [rev |-> 0, deleted |-> FALSE, mut |-> NoMutation]
Entry == [rev: Nat, deleted: BOOLEAN, mut: Mutations \cup {NoMutation}]

NewReader == [pc |-> "idle", rev |-> 0, cursor |-> 0, hasMore |-> FALSE,
              view |-> [i \in Items |-> NoEntry], live |-> {}, gone |-> {}]
Reader == [pc: {"idle", "page", "pulled", "live", "deleted", "vaultPulled"},
           rev: Nat, cursor: Nat, hasMore: BOOLEAN, view: [Items -> Entry],
           live: SUBSET Version, gone: SUBSET Items]

AtRest(d) == reader[d].pc \in {"idle", "pulled", "vaultPulled"}

\* GET /vault/item-sync: the account's revision first, then one page.
PullReadUser(d) ==
  /\ AtRest(d)
  /\ reader' = [reader EXCEPT ![d].pc = "page", ![d].rev = serverRevision]
  /\ UNCHANGED <<tables, req>>

\* WHERE cursor > ? ORDER BY cursor LIMIT ?
After(cursor) == {c \in feed : c.cursor > cursor}
Page(cursor) ==
  {c \in After(cursor) :
     Cardinality({b \in After(cursor) : b.cursor < c.cursor}) < PageLimit}

\* The changes of a page that are returned: one that fails
\* itemLevelSyncChangeSchema is dropped.
Readable(page) == {c \in page : c.strict}

\* The device replays them on what it has: the last change of an item wins.
Applied(view, page) ==
  [i \in Items |->
     IF \E c \in page : c.item = i
     THEN LET last == CHOOSE c \in page :
                        /\ c.item = i
                        /\ \A b \in page : b.item = i => b.cursor <= c.cursor
          IN  [rev |-> last.rev, deleted |-> last.kind = "delete", mut |-> last.mut]
     ELSE view[i]]

\* Mutant: the cursor jumps to the end of the feed.
PageEndOfFeed(cursor, page) == IF page = {} THEN cursor ELSE lastCursor

\* Mutant: the cursor stops at the last change that is returned.
PageEndOfReadable(cursor, page) ==
  IF Readable(page) = {} THEN cursor
  ELSE CHOOSE n \in {c.cursor : c \in Readable(page)} :
         \A c \in Readable(page) : c.cursor <= n

\* The last row of the page, returned or not.
PageEnd(cursor, page) ==
  IF page = {} THEN cursor
  ELSE CHOOSE n \in {c.cursor : c \in page} : \A c \in page : c.cursor <= n

\* Mutant: LIMIT n instead of n + 1, so a full page looks like the last one.
HasMoreNever(cursor, page) == Cardinality(page) > PageLimit

HasMore(cursor, page) == page # After(cursor)

PullReadPage(d) ==
  /\ reader[d].pc = "page"
  /\ LET page == Page(reader[d].cursor)
     IN  reader' = [reader EXCEPT
           ![d].pc = "pulled",
           ![d].hasMore = HasMore(reader[d].cursor, page),
           ![d].cursor = PageEnd(reader[d].cursor, page),
           ![d].view = Applied(@, Readable(page))]
  /\ UNCHANGED <<tables, req>>

\* GET /vault/sync: the revision, then the live rows, then the deleted ids.
VaultReadUser(d) ==
  /\ AtRest(d)
  /\ reader' = [reader EXCEPT ![d].pc = "live", ![d].rev = serverRevision,
                              ![d].live = {}, ![d].gone = {}]
  /\ UNCHANGED <<tables, req>>

VaultReadLive(d) ==
  /\ reader[d].pc = "live"
  /\ reader' = [reader EXCEPT
       ![d].pc = "deleted",
       ![d].live = {[item |-> i, rev |-> rows[i].rev, mut |-> rows[i].mut] :
                      i \in {j \in Items : rows[j].owner = "self" /\ ~rows[j].deleted}}]
  /\ UNCHANGED <<tables, req>>

\* Mutant: the revision is read last.
VaultReadDeletedThenUser(d) ==
  /\ reader[d].pc = "deleted"
  /\ reader' = [reader EXCEPT
       ![d].pc = "vaultPulled",
       ![d].rev = serverRevision,
       ![d].gone = {i \in Items : rows[i].owner = "self" /\ rows[i].deleted}]
  /\ UNCHANGED <<tables, req>>

VaultReadDeleted(d) ==
  /\ reader[d].pc = "deleted"
  /\ reader' = [reader EXCEPT
       ![d].pc = "vaultPulled",
       ![d].gone = {i \in Items : rows[i].owner = "self" /\ rows[i].deleted}]
  /\ UNCHANGED <<tables, req>>

----------------------------------------------------------------------------
Init ==
  /\ serverRevision = 0
  /\ claims = {}
  /\ rows = [i \in Items |-> NoRow]
  /\ history = {}
  /\ feed = {}
  /\ lastCursor = 0
  /\ receipts = {}
  /\ req = [r \in Requests |-> Idle]
  /\ reader = [d \in Readers |-> NewReader]

Push(r) ==
  \/ Submit(r)
  \/ ReadUser(r)
  \/ ReadRows(r)
  \/ ReadReceipts(r)
  \/ NothingToWrite(r)
  \/ Commit(r)
  \/ CommitUnacknowledged(r)
  \/ BatchRolledBack(r)
  \/ RecheckRevision(r)
  \/ RecheckReceipts(r)
  \/ Leave(r)

LegacyPush(r) ==
  \/ ReadOwners(r)
  \/ LegacyCommit(r)
  \/ LegacyCommitUnacknowledged(r)
  \/ LegacyRolledBack(r)
  \/ LegacyRecheck(r)

Pull(d) ==
  \/ PullReadUser(d)
  \/ PullReadPage(d)
  \/ VaultReadUser(d)
  \/ VaultReadLive(d)
  \/ VaultReadDeleted(d)

Next ==
  \/ \E r \in Requests : Push(r) \/ LegacyPush(r)
  \/ \E d \in Readers : Pull(d)
  \/ \E i \in SharedIds : ForeignCreate(i)

Spec == Init /\ [][Next]_vars

----------------------------------------------------------------------------
(* Properties.                                                              *)

\* Every table and every request in flight has the shape the code gives it.
TypeOK ==
  /\ serverRevision \in Nat
  /\ claims \subseteq Nat
  /\ rows \in [Items -> Row]
  /\ history \subseteq Version
  /\ feed \subseteq Change
  /\ lastCursor \in Nat
  /\ receipts \subseteq Receipt
  /\ req \in [Requests -> Request]
  /\ reader \in [Readers -> Reader]

\* The revision claim serializes the writers (migration 0006): the claims are
\* exactly the revisions up to the account's, and a change of a later
\* revision is later in the feed.
RevisionsInOrder ==
  /\ claims = 1..serverRevision
  /\ \A c \in feed : c.rev \in claims /\ c.cursor <= lastCursor
  /\ \A b, c \in feed : b.rev < c.rev => b.cursor < c.cursor

\* No lost update: an applied operation replaced exactly the revision its
\* client had seen; no change of the item lies between that base and it, although
\* the base was compared with a row read before the transaction.
NoLostUpdate ==
  \A x \in receipts : x.status = "applied" =>
    /\ x.op.base < x.rev
    /\ \A c \in feed : c.item = x.op.item /\ c.mut # x.op.mut =>
                        c.rev <= x.op.base \/ x.rev < c.rev

\* A mutation id is decided once, and an applied one wrote exactly one change:
\* a retry after a lost response, or a twin of the request running beside it,
\* never applies the operation again and never finds a second verdict.
MutationDecidedOnce ==
  /\ \A x, y \in receipts : x.op.mut = y.op.mut => x = y
  /\ \A x \in receipts : x.status = "applied" =>
       \E c \in feed : /\ c.mut = x.op.mut /\ c.item = x.op.item
                      /\ c.kind = x.op.kind /\ c.rev = x.rev
  /\ \A c \in feed : c.mut # NoMutation =>
       \E x \in receipts : x.status = "applied" /\ x.op.mut = c.mut /\ x.rev = c.rev
  /\ \A b, c \in feed : b.mut = c.mut /\ b.mut # NoMutation => b = c

\* The newest change of an item in the feed is what vault_items holds, and the
\* history has every version that was ever upserted: the three tables that one
\* batch writes never disagree.
FeedDescribesRows ==
  /\ \A c \in feed :
       (\A b \in feed : b.item = c.item => b.rev <= c.rev) =>
         rows[c.item] = [owner |-> "self", rev |-> c.rev,
                         deleted |-> c.kind = "delete", mut |-> c.mut]
  /\ \A i \in Items : rows[i].owner = "self" => \E c \in feed : c.item = i
  /\ history = {[item |-> c.item, rev |-> c.rev, mut |-> c.mut] :
                  c \in {b \in feed : b.kind = "upsert"}}

\* What a response acknowledges is in the receipts, for this very operation
\* and not for another one under the same mutation id; and a response of the
\* item-level push gives every operation of its plan one verdict.
AnswersAreDurable ==
  \A r \in Requests : req[r].pc = "done" /\ ~req[r].plan.legacy =>
    LET a == req[r].answer
    IN  /\ a.applied \subseteq receipts
        /\ \A o \in OpsOf(req[r]) :
             o \in a.conflicts \/ \E x \in a.applied : x.op = o
        /\ \A o \in a.conflicts :
             ~\E x \in receipts : x.op = o /\ x.status = "applied"

\* A recorded revision conflict is final: although a batch without a state
\* write claims no revision, and so commits against rows that may have moved
\* since they were read, the operation it refused could not be applied now.
ConflictStaysConflict ==
  \A x \in receipts :
    x.reason \in {"item_revision_mismatch", "item_revision_advanced"} =>
      \/ rows[x.op.item].rev # x.op.base
      \/ x.op.kind = "delete" /\ rows[x.op.item].owner = "none"

\* A device that has read up to a cursor has, of every item, the newest change
\* at or below it that the item-level schema admits: a page skips only the
\* envelope path's malformed rows, and none of them hides a change around it.
ReaderMissesNothing ==
  \A d \in Readers, c \in Readable(feed) :
    /\ c.cursor <= reader[d].cursor
    /\ \A b \in Readable(feed) :
         b.item = c.item /\ b.cursor <= reader[d].cursor => b.cursor <= c.cursor
    => reader[d].view[c.item] =
         [rev |-> c.rev, deleted |-> c.kind = "delete", mut |-> c.mut]

\* A page that announces another one moves the cursor, even when none of its
\* rows is returned: no malformed row keeps a device that asks until hasMore is
\* false in a loop.
PagesAdvance ==
  [][\A d \in Readers : PullReadPage(d) /\ reader'[d].hasMore =>
       reader[d].cursor < reader'[d].cursor]_reader

\* The revision a pull returns is covered by where it ends: the cursor of the
\* last page is past every change of it, although the two are read one after
\* the other.
PulledRevisionIsCovered ==
  \A d \in Readers : reader[d].pc = "pulled" /\ ~reader[d].hasMore =>
    \A c \in feed : c.rev <= reader[d].rev => c.cursor <= reader[d].cursor

\* The same of the whole-vault pull, which reads three times: an item that
\* has not changed since the returned revision is returned as it is.
VaultPullIsCurrent ==
  \A d \in Readers : reader[d].pc = "vaultPulled" =>
    \A i \in Items : rows[i].owner = "self" /\ rows[i].rev <= reader[d].rev =>
      IF rows[i].deleted
      THEN i \in reader[d].gone /\ \A v \in reader[d].live : v.item # i
      ELSE i \notin reader[d].gone /\
           [item |-> i, rev |-> rows[i].rev, mut |-> rows[i].mut] \in reader[d].live

\* The account's history only grows: no step takes back a receipt, a change,
\* a version or a revision, and an item that changes gets a later revision.
NothingIsTakenBack ==
  [][/\ receipts \subseteq receipts'
     /\ feed \subseteq feed'
     /\ history \subseteq history'
     /\ serverRevision <= serverRevision'
     /\ \A i \in Items : rows'[i] = rows[i] \/ rows'[i].rev > rows[i].rev]_tables

\* Whatever two accounts do with one item id, a row of the other account is
\* never changed by a push of this one.
ForeignRowsUntouched ==
  [][\A i \in Items : rows[i].owner = "other" => rows'[i] = rows[i]]_tables

\* What a response reports as applied was stored for this account.
AppliedIsStored ==
  \A x \in receipts : x.status = "applied" => rows[x.op.item].owner = "self"

=============================================================================
