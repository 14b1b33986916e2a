----------------------------- MODULE SyncEngine -----------------------------
(***************************************************************************)
(* The sync engine that the web client and the browser extension share     *)
(* (packages/browser-vault): what one run of syncVault computes from a     *)
(* vault and a sync state.  Its two effects, the requests and the commits, *)
(* belong to its hosts.                                                    *)
(*                                                                         *)
(* A version of an item is a stamp, which stands for updatedAt and the     *)
(* content together; 0 is no item.  A mutation id carries the stamp of the *)
(* ciphertext it was sent with: a replay sends the same envelope.          *)
(***************************************************************************)
EXTENDS Integers, SequencesExt

CONSTANTS
  Items,
  NoMutation,
  MaxMutations,  \* MAX_SYNC_MUTATIONS: operations in one plan
  PageLimit      \* changes in one page of the feed

ASSUME EngineAssumption == MaxMutations \in Nat \ {0} /\ PageLimit \in Nat \ {0}

----------------------------------------------------------------------------
(* SyncState.                                                               *)

NoRevision == -1   \* the item has no entry in revisions
NoPending == [kind |-> "none", mut |-> NoMutation, stamp |-> 0, base |-> 0]

EmptyVault == [i \in Items |-> 0]
EmptySyncState ==
  [cursor |-> 0, serverRevision |-> 0,
   revisions |-> [i \in Items |-> NoRevision], timestamps |-> [i \in Items |-> 0],
   pending |-> [i \in Items |-> NoPending], conflicts |-> {}]

\* Mutant: the base of a new item is the absent revision itself.
BaseOfNothing(revision) == revision

Base(revision) == IF revision = NoRevision THEN 0 ELSE revision

----------------------------------------------------------------------------
(* buildItemLevelSyncPlan.                                                  *)

\* The items to upsert: a local item that is not in conflict, unless its
\* version is the one that was synced last and nothing of it is pending.
Edited(vault, s) ==
  {i \in Items : /\ vault[i] # 0 /\ i \notin s.conflicts
                 /\ s.timestamps[i] # vault[i] \/ s.pending[i] # NoPending}

\* The items to delete: known to the server or on their way, and not local.
Dropped(vault, s) ==
  {i \in Items : /\ vault[i] = 0 /\ i \notin s.conflicts
                 /\ s.revisions[i] # NoRevision \/ s.pending[i] # NoPending}

\* A pending upsert of this very version is replayed as it was sent.
CanReplay(vault, s, i) ==
  s.pending[i].kind = "upsert" /\ s.pending[i].stamp = vault[i]

\* The operation on item i; n numbers the plan, so that the id is fresh.
Upsert(vault, s, i, c, n) ==
  IF CanReplay(vault, s, i) THEN s.pending[i]
  ELSE [kind |-> "upsert", mut |-> <<c, n, i, vault[i]>>, stamp |-> vault[i],
        base |-> Base(s.revisions[i])]

Delete(s, i, c, n) ==
  LET previous == s.pending[i]
      base == IF s.revisions[i] # NoRevision THEN s.revisions[i] ELSE previous.base
  IN  IF previous.kind = "delete" /\ previous.base = base THEN previous
      ELSE [kind |-> "delete", mut |-> <<c, n, i, 0>>, stamp |-> 0, base |-> base]

\* As many of S as there is room for.
UpTo(n, S) == {T \in SUBSET S : Cardinality(T) = IF Cardinality(S) < n THEN Cardinality(S) ELSE n}

\* The plans that may be built: the operation of every item that is in the plan.
Plans(vault, s, c, n) ==
  UNION {{[i \in U \cup D |-> IF i \in U THEN Upsert(vault, s, i, c, n)
                                         ELSE Delete(s, i, c, n)]
            : D \in UpTo(MaxMutations - Cardinality(U), Dropped(vault, s))}
         : U \in UpTo(MaxMutations, Edited(vault, s))}

\* state.pending = built.pendingMutations
WithPending(s, plan) ==
  [s EXCEPT !.pending = [i \in Items |-> IF i \in DOMAIN plan THEN plan[i] ELSE @[i]]]

\* The operations of a plan, as the server sees them.
Operations(plan) ==
  {[mut |-> plan[i].mut, item |-> i, kind |-> plan[i].kind, base |-> plan[i].base]
     : i \in DOMAIN plan}

----------------------------------------------------------------------------
(* syncVault: the answer to a push.                                         *)

\* What the answer says of the operation on item i.
Verdict(verdicts, plan, i) == CHOOSE v \in verdicts : v.op.mut = plan[i].mut

\* Every operation has one receipt above its base, or one conflict on its base.
ValidAnswer(s, plan, verdicts, revision) ==
  /\ revision >= s.serverRevision
  /\ \A i \in DOMAIN plan :
       /\ \E v \in verdicts : v.op.mut = plan[i].mut
       /\ LET v == Verdict(verdicts, plan, i)
          IN  /\ v.op.item = i /\ v.op.kind = plan[i].kind
              /\ IF v.status = "applied" THEN v.rev \in (plan[i].base + 1)..revision
                                         ELSE v.op.base = plan[i].base

\* Mutant: a receipt is recorded at the answer's revision, not at its own.
AfterPushAtOnce(s, plan, verdicts, revision) ==
  LET applied == {i \in DOMAIN plan : Verdict(verdicts, plan, i).status = "applied"}
      upserted == {i \in applied : plan[i].kind = "upsert"}
  IN  [s EXCEPT
        !.serverRevision = revision,
        !.revisions = [i \in Items |->
           IF i \in upserted THEN revision ELSE IF i \in applied THEN NoRevision ELSE @[i]],
        !.timestamps = [i \in Items |-> IF i \in upserted THEN plan[i].stamp ELSE @[i]],
        !.pending = [i \in Items |-> IF i \in applied THEN NoPending ELSE @[i]],
        !.conflicts = @ \cup (DOMAIN plan \ applied)]

\* Mutant: what was acknowledged stays pending.
AfterPushStillPending(s, plan, verdicts, revision) ==
  LET applied == {i \in DOMAIN plan : Verdict(verdicts, plan, i).status = "applied"}
  IN  [s EXCEPT
        !.serverRevision = revision,
        !.revisions = [i \in Items |->
           IF i \in applied THEN Verdict(verdicts, plan, i).rev ELSE @[i]],
        !.timestamps = [i \in Items |-> IF i \in applied THEN plan[i].stamp ELSE @[i]],
        !.conflicts = @ \cup (DOMAIN plan \ applied)]

AfterPush(s, plan, verdicts, revision) ==
  LET applied == {i \in DOMAIN plan : Verdict(verdicts, plan, i).status = "applied"}
      upserted == {i \in applied : plan[i].kind = "upsert"}
  IN  [s EXCEPT
        !.serverRevision = revision,
        !.revisions = [i \in Items |->
           IF i \in upserted THEN Verdict(verdicts, plan, i).rev
           ELSE IF i \in applied THEN NoRevision ELSE @[i]],
        !.timestamps = [i \in Items |->
           IF i \in upserted THEN plan[i].stamp
           ELSE IF i \in applied THEN 0 ELSE @[i]],
        !.pending = [i \in Items |-> IF i \in applied THEN NoPending ELSE @[i]],
        !.conflicts = @ \cup (DOMAIN plan \ applied)]

----------------------------------------------------------------------------
(* syncVault: a page of the feed.                                           *)

\* GET /vault/item-sync?cursor=: the next changes, and where they end.
PageEnd(feed, cursor) ==
  IF Len(feed) < cursor + PageLimit THEN Len(feed) ELSE cursor + PageLimit
Page(feed, cursor) == SubSeq(feed, cursor + 1, PageEnd(feed, cursor))
HasMore(feed, cursor) == PageEnd(feed, cursor) < Len(feed)

\* What a change does to a replica, a vault with its sync state: nothing when
\* the item is pending or in conflict, or known at a later revision.
\* Mutant: a change is applied whatever is pending or in conflict.
ApplyChangeAnyway(replica, change) ==
  [replica EXCEPT
    !.vault[change.item] = change.stamp,
    !.sync.revisions[change.item] =
       IF change.kind = "upsert" THEN change.rev ELSE NoRevision,
    !.sync.timestamps[change.item] = change.stamp]

\* Mutant: a pulled deletion leaves the revision of the item.
ApplyChangeKeepRevision(replica, change) ==
  LET i == change.item
      s == replica.sync
  IN  IF \/ s.pending[i] # NoPending \/ i \in s.conflicts
         \/ s.revisions[i] > change.rev
      THEN replica
      ELSE [replica EXCEPT !.vault[i] = change.stamp, !.sync.revisions[i] = change.rev,
                           !.sync.timestamps[i] = change.stamp]

ApplyChange(replica, change) ==
  LET i == change.item
      s == replica.sync
  IN  IF \/ s.pending[i] # NoPending \/ i \in s.conflicts
         \/ s.revisions[i] > change.rev
      THEN replica
      ELSE [replica EXCEPT
             !.vault[i] = change.stamp,
             !.sync.revisions[i] = IF change.kind = "upsert" THEN change.rev ELSE NoRevision,
             !.sync.timestamps[i] = change.stamp]

\* The changes of a page, applied one after the other.
Replay(vault, s, page) ==
  LET replica[k \in 0..Len(page)] ==
        IF k = 0 THEN [vault |-> vault, sync |-> s] ELSE ApplyChange(replica[k - 1], page[k])
  IN  replica[Len(page)]

\* Mutant: the cursor is committed as the end of the feed, not of the page.
AfterPageToEnd(vault, s, feed, revision) ==
  [Replay(vault, s, Page(feed, s.cursor)) EXCEPT
     !.sync.serverRevision = revision, !.sync.cursor = Len(feed)]

AfterPage(vault, s, feed, revision) ==
  [Replay(vault, s, Page(feed, s.cursor)) EXCEPT
     !.sync.serverRevision = revision, !.sync.cursor = PageEnd(feed, s.cursor)]

----------------------------------------------------------------------------
(* A conflict that the user has settled.                                    *)

\* The last change of item i in the feed, if there is one.
HasRemote(feed, i) == \E k \in DOMAIN feed : feed[k].item = i
Remote(feed, i) ==
  LET k == CHOOSE k \in DOMAIN feed :
             feed[k].item = i /\ \A l \in DOMAIN feed : feed[l].item = i => l <= k
  IN  feed[k]
RemoteIsLive(feed, i) == HasRemote(feed, i) /\ Remote(feed, i).kind = "upsert"

\* No longer pending, no longer in conflict.
Settled(s, i, revision, stamp) ==
  [s EXCEPT !.revisions[i] = revision, !.timestamps[i] = stamp,
            !.pending[i] = NoPending, !.conflicts = @ \ {i}]

\* Take the version of the server, or its deletion.
TakeRemote(vault, s, feed, i) ==
  IF RemoteIsLive(feed, i)
  THEN [vault |-> [vault EXCEPT ![i] = Remote(feed, i).stamp],
        sync |-> Settled(s, i, Remote(feed, i).rev, Remote(feed, i).stamp)]
  ELSE [vault |-> [vault EXCEPT ![i] = 0], sync |-> Settled(s, i, NoRevision, 0)]

=============================================================================
