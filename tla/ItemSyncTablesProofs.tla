------------------------ MODULE ItemSyncTablesProofs ------------------------
(***************************************************************************)
(* The tables of the store agree with each other, are never taken back and *)
(* bear out every answer, for every number of requests, items, plans and   *)
(* attempts.                                                               *)
(*                                                                         *)
(* The argument.  A batch either writes nothing but conflict receipts, or  *)
(* lands: it takes the account's next revision, and each change it writes  *)
(* has its row.  A change of a later revision is thus the row's, and a row *)
(* that is written is past every base that a client may know.              *)
(***************************************************************************)
EXTENDS ItemSyncStoreProofs

----------------------------------------------------------------------------
(* What a batch does to the tables.                                         *)

\* The operations of p at ks become the account's next revision, and each of
\* them is an upsert or finds the row that it deletes.
Lands(p, ks) ==
  /\ serverRevision' = serverRevision + 1
  /\ WriteOps(p, ks, serverRevision + 1)
  /\ \A k \in ks : Overwrites(p, k)

NoItemWritten ==
  UNCHANGED <<serverRevision, claims, rows, history, feed, lastCursor>>

\* The item-level transaction lands the operations it accepts, or accepts none
\* and writes receipts only.
LEMMA CommitWrites ==
  ASSUME OrderInv, NEW r \in Requests, req[r].pc = "batch", CommitBatch(req[r])
  PROVE  \/ Accepted(req[r]) = {} /\ NoItemWritten
         \/ /\ Lands(req[r].plan, Accepted(req[r]))
            /\ req[r].rev = serverRevision /\ HasStateWrite(req[r])
<1> DEFINE q == req[r]
<1>1. /\ q \in Request /\ q.plan \in Plans \cup {NoPlan} /\ serverRevision \in Nat
      /\ TypeInv /\ InFlight(q, serverRevision, rows, feed)
  BY DEF OrderInv, TypeInv, TypeOK, Request
<1>2. /\ WriteOps(q.plan, Accepted(q), NewRevision(q))
      /\ ~ClaimTaken(q)
  BY DEF CommitBatch
<1>3. CASE HasStateWrite(q)
  <2>1. q.rev = serverRevision
    BY <1>2, <1>3, CommitIsCurrent
  <2>2. NewRevision(q) = serverRevision + 1
    BY <1>3, <2>1 DEF NewRevision
  <2>3. serverRevision' = serverRevision + 1
    BY <1>3, <2>2 DEF CommitBatch
  <2>4. ASSUME NEW k \in Accepted(q)
        PROVE  \/ q.plan.ops[k].kind = "upsert"
               \/ /\ rows[q.plan.ops[k].item].owner = "self"
                  /\ q.plan.legacy \/ rows[q.plan.ops[k].item].rev = q.plan.ops[k].base
    <3> DEFINE o == q.plan.ops[k]
    <3>1. /\ o \in Op /\ o \in OpsOf(q)
          /\ q.rows[o.item].rev = o.base
          /\ o.kind = "delete" => q.rows[o.item].owner = "self"
      BY <1>1, AcceptedBase
    <3>2. Snapshot(q, serverRevision, rows, feed)
      BY <1>1 DEF InFlight
    <3>3. q.rows[o.item].owner = "self" => rows[o.item] = q.rows[o.item]
      BY <2>1, <3>1, <3>2 DEF Snapshot
    <3>4. o.kind \in {"upsert", "delete"}
      BY <3>1 DEF Op
    <3> QED BY <3>1, <3>3, <3>4
  <2>5. WriteOps(q.plan, Accepted(q), serverRevision + 1)
    BY <1>2, <2>2
  <2> QED BY <1>3, <2>1, <2>3, <2>4, <2>5 DEF Lands, Overwrites
<1>4. CASE ~HasStateWrite(q)
  <2>1. Accepted(q) = {} /\ serverRevision' = serverRevision /\ claims' = claims
    BY <1>4 DEF CommitBatch, HasStateWrite
  <2>2. rows' = rows /\ feed' = feed /\ lastCursor' = lastCursor
    BY <1>1, <1>2, <2>1, NothingWritten
  <2>3. history' = history
    BY <1>2, <2>1 DEF WriteOps
  <2> QED BY <2>1, <2>2, <2>3 DEF NoItemWritten
<1> QED BY <1>3, <1>4

\* The whole-envelope transaction always lands.
LEMMA LegacyCommitWrites ==
  ASSUME OrderInv, NEW r \in Requests, req[r].pc = "legacyBatch",
         LegacyCommitBatch(req[r])
  PROVE  /\ Lands(req[r].plan, LegacyWrites(req[r].plan))
         /\ req[r].rev = serverRevision /\ receipts' = receipts
<1> DEFINE q == req[r]
<1>1. /\ q \in Request /\ q.plan \in Plans \cup {NoPlan} /\ serverRevision \in Nat
      /\ q.rev \in Nat /\ RevisionsInOrder
      /\ q.rev <= serverRevision /\ q.plan.legacy
  BY DEF OrderInv, TypeInv, TypeOK, Request, InFlight, LegacyPC
<1>2. q.rev + 1 \notin 1..serverRevision
  BY <1>1 DEF LegacyCommitBatch, RevisionsInOrder
<1>3. q.rev = serverRevision
  BY <1>1, <1>2
<1>4. \A k \in LegacyWrites(q.plan) :
        \/ q.plan.ops[k].kind = "upsert"
        \/ /\ rows[q.plan.ops[k].item].owner = "self"
           /\ q.plan.legacy \/ rows[q.plan.ops[k].item].rev = q.plan.ops[k].base
  BY <1>1 DEF LegacyWrites
<1> QED BY <1>3, <1>4 DEF LegacyCommitBatch, Lands, Overwrites

\* Only the two batches, and the other account, change a table.
LEMMA TablesChange ==
  ASSUME [Next]_vars
  PROVE  \/ UNCHANGED tables
         \/ \E r \in Requests : req[r].pc = "batch" /\ CommitBatch(req[r])
         \/ \E r \in Requests : req[r].pc = "legacyBatch" /\ LegacyCommitBatch(req[r])
         \/ \E i \in SharedIds : ForeignCreate(i)
<1>1. ASSUME NEW r \in Requests, Push(r)
      PROVE  UNCHANGED tables \/ (req[r].pc = "batch" /\ CommitBatch(req[r]))
  BY <1>1 DEF Push, Submit, ReadUser, ReadRows, ReadReceipts, NothingToWrite,
              Commit, CommitUnacknowledged, BatchRolledBack, RecheckRevision,
              RecheckReceipts, Leave
<1>2. ASSUME NEW r \in Requests, LegacyPush(r)
      PROVE  UNCHANGED tables \/ (req[r].pc = "legacyBatch" /\ LegacyCommitBatch(req[r]))
  BY <1>2 DEF LegacyPush, ReadOwners, LegacyCommit, LegacyRolledBack,
              LegacyCommitUnacknowledged, LegacyRecheck
<1>3. ASSUME NEW d \in Readers, Pull(d) PROVE UNCHANGED tables
  BY <1>3 DEF Pull, PullReadUser, PullReadPage, VaultReadUser, VaultReadLive,
              VaultReadDeleted
<1>4. CASE UNCHANGED vars
  BY <1>4 DEF vars
<1> QED BY <1>1, <1>2, <1>3, <1>4 DEF Next

\* A step leaves the item tables alone, lands a batch, or is that of another
\* account.
LEMMA TableSteps ==
  ASSUME OrderInv, [Next]_vars
  PROVE  \/ NoItemWritten /\ receipts \subseteq receipts'
         \/ \E r \in Requests :
              /\ req[r].pc = "batch" /\ CommitBatch(req[r])
              /\ Lands(req[r].plan, Accepted(req[r]))
         \/ \E r \in Requests :
              /\ req[r].pc = "legacyBatch" /\ LegacyCommitBatch(req[r])
              /\ Lands(req[r].plan, LegacyWrites(req[r].plan)) /\ receipts' = receipts
         \/ \E i \in SharedIds : ForeignCreate(i)
<1>1. CASE UNCHANGED tables
  BY <1>1 DEF tables, NoItemWritten
<1>2. ASSUME NEW r \in Requests, req[r].pc = "batch", CommitBatch(req[r])
      PROVE  \/ NoItemWritten /\ receipts \subseteq receipts'
             \/ Lands(req[r].plan, Accepted(req[r]))
  BY <1>2, CommitWrites DEF CommitBatch
<1>3. ASSUME NEW r \in Requests, req[r].pc = "legacyBatch", LegacyCommitBatch(req[r])
      PROVE  Lands(req[r].plan, LegacyWrites(req[r].plan)) /\ receipts' = receipts
  BY <1>3, LegacyCommitWrites
<1> QED BY <1>1, <1>2, <1>3, TablesChange

----------------------------------------------------------------------------
(* Feed, rows and history.                                                  *)

RowOf(c) == [owner |-> "self", rev |-> c.rev, deleted |-> c.kind = "delete", mut |-> c.mut]
VersionOf(c) == [item |-> c.item, rev |-> c.rev, mut |-> c.mut]

\* FeedDescribesRows, but for the items that the other account has taken, and
\* with what it leaves open: an item without a row has no change.
TablesAgree ==
  /\ \A c \in feed :
       /\ rows[c.item].owner # "other"
       /\ \A b \in feed : b.item = c.item => b.rev <= c.rev
       => rows[c.item] = RowOf(c)
  /\ \A i \in Items : rows[i].owner = "self" => \E c \in feed : c.item = i
  /\ \A i \in Items : rows[i].owner = "none" => rows[i] = NoRow /\ \A c \in feed : c.item # i
  /\ history = {VersionOf(c) : c \in {b \in feed : b.kind = "upsert"}}

\* A position that lands on a row of this account, or on none, is its row.
LEMMA RowLands ==
  ASSUME TypeInv, NEW p \in Plans \cup {NoPlan}, NEW ks \in SUBSET DOMAIN p.ops,
         Lands(p, ks), NEW k \in ks, rows[p.ops[k].item].owner # "other"
  PROVE  rows'[p.ops[k].item] =
           [owner |-> "self", rev |-> serverRevision + 1,
            deleted |-> p.ops[k].kind = "delete", mut |-> p.ops[k].mut]
<1> DEFINE i == p.ops[k].item
<1>1. i \in Items /\ p.ops[k].kind \in {"upsert", "delete"}
  BY PlanType DEF Op
<1>2. \A j \in ks : p.ops[j].item = i => j = k
  BY PlanType DEF WellFormed
<1>3. (CHOOSE j \in ks : p.ops[j].item = i) = k
  BY <1>2
<1>4. rows'[i] = RowAfter(p, rows[i], p.ops[k], serverRevision + 1)
  BY <1>1, <1>3 DEF Lands, WriteOps
<1> QED BY <1>1, <1>4 DEF RowAfter, Lands, Overwrites

\* An item that a batch does not write keeps its row and its changes.
LEMMA RowStays ==
  ASSUME NEW p, NEW ks, NEW rev, WriteOps(p, ks, rev), TypeInv,
         NEW i \in Items, \A k \in ks : p.ops[k].item # i
  PROVE  rows'[i] = rows[i]
  BY DEF WriteOps, TypeInv, TypeOK

\* The tables agree after a batch that lands.
LEMMA LandsAgree ==
  ASSUME OrderInv, TablesAgree, NEW p \in Plans \cup {NoPlan},
         NEW ks \in SUBSET DOMAIN p.ops, Lands(p, ks)
  PROVE  TablesAgree'
<1> DEFINE n == serverRevision + 1
<1>1. /\ TypeInv /\ serverRevision \in Nat /\ n \in Nat /\ lastCursor \in Nat
      /\ rows \in [Items -> Row] /\ RevisionsInOrder /\ WriteOps(p, ks, n)
  BY DEF OrderInv, TypeInv, TypeOK, Lands
<1>2. \A c \in feed : c.item \in Items /\ c.rev \in Nat /\ c.rev < n
  BY <1>1 DEF RevisionsInOrder, TypeInv, TypeOK, Change
<1> DEFINE new(k) == ChangeAt(p, k, n, lastCursor)
<1>3. /\ feed \subseteq feed'
      /\ \A c \in feed' \ feed : \E k \in ks : c = new(k)
      /\ \A k \in ks : new(k) \in feed'
  <2> HIDE DEF n
  <2> QED BY <1>1, ChangesWritten
<1>4. \A k \in ks : /\ new(k).item = p.ops[k].item /\ new(k).rev = n
                    /\ new(k).kind = p.ops[k].kind /\ new(k).mut = p.ops[k].mut
                    /\ p.ops[k].item \in Items
  BY PlanType DEF ChangeAt, Op
<1>5. \A i \in Items : rows[i].owner = "other" => rows'[i] = rows[i]
  <2> HIDE DEF n
  <2> QED BY <1>1, RowsWritten
<1>6. \A k \in ks : rows[p.ops[k].item].owner # "other" =>
        rows'[p.ops[k].item] = RowOf(new(k))
  BY <1>1, <1>4, RowLands DEF RowOf
<1>7. \A i \in Items : (\A k \in ks : p.ops[k].item # i) => rows'[i] = rows[i]
  <2> HIDE DEF n
  <2> QED BY <1>1, RowStays
<1> HIDE DEF n, new
<1>8. ASSUME NEW c \in feed', rows'[c.item].owner # "other",
             \A b \in feed' : b.item = c.item => b.rev <= c.rev
      PROVE  rows'[c.item] = RowOf(c)
  <2>1. CASE \E k \in ks : p.ops[k].item = c.item
    <3>1. PICK k \in ks : p.ops[k].item = c.item
      BY <2>1
    <3>2. n <= c.rev
      BY <1>3, <1>4, <1>8, <3>1
    <3>3. c \notin feed
      BY <1>1, <1>2, <3>2
    <3>4. PICK j \in ks : c = new(j)
      BY <1>3, <3>3
    <3>5. rows[c.item].owner # "other"
      BY <1>4, <1>5, <1>8, <3>4
    <3> QED BY <1>4, <1>6, <3>4, <3>5
  <2>2. CASE \A k \in ks : p.ops[k].item # c.item
    <3>1. c \in feed
      BY <1>3, <1>4, <2>2
    <3>2. rows'[c.item] = rows[c.item]
      BY <1>2, <1>7, <2>2, <3>1
    <3> QED BY <1>3, <1>8, <3>1, <3>2 DEF TablesAgree
  <2> QED BY <2>1, <2>2
<1>9. ASSUME NEW i \in Items, rows'[i].owner = "self"
      PROVE  \E c \in feed' : c.item = i
  <2>1. CASE \E k \in ks : p.ops[k].item = i
    BY <1>3, <1>4, <2>1
  <2>2. CASE \A k \in ks : p.ops[k].item # i
    BY <1>3, <1>7, <1>9, <2>2 DEF TablesAgree
  <2> QED BY <2>1, <2>2
<1>10. ASSUME NEW i \in Items, rows'[i].owner = "none"
       PROVE  rows'[i] = NoRow /\ \A c \in feed' : c.item # i
  <2>1. ASSUME NEW k \in ks, p.ops[k].item = i
        PROVE  FALSE
    <3>1. rows[i].owner # "other"
      BY <1>5, <1>10
    <3>2. rows'[i] = RowOf(new(k))
      BY <1>6, <2>1, <3>1
    <3> QED BY <1>10, <3>2 DEF RowOf
  <2>2. rows'[i] = rows[i]
    BY <1>7, <2>1
  <2> QED BY <1>3, <1>4, <1>10, <2>1, <2>2 DEF TablesAgree
<1>11. history' = {VersionOf(c) : c \in {b \in feed' : b.kind = "upsert"}}
  <2> DEFINE written == {[item |-> p.ops[k].item, rev |-> n, mut |-> p.ops[k].mut] :
                           k \in {j \in ks : p.ops[j].kind = "upsert"}}
  <2>1. history' = history \cup written
    BY <1>1 DEF WriteOps
  <2>2. \A k \in ks : VersionOf(new(k)) = [item |-> p.ops[k].item, rev |-> n, mut |-> p.ops[k].mut]
    BY <1>4 DEF VersionOf
  <2>3. \A v \in written : \E k \in ks : v = VersionOf(new(k)) /\ new(k).kind = "upsert"
    BY <1>4, <2>2
  <2>4. \A k \in ks : new(k).kind = "upsert" => VersionOf(new(k)) \in written
    BY <1>4, <2>2
  <2>5. history = {VersionOf(c) : c \in {b \in feed : b.kind = "upsert"}}
    BY DEF TablesAgree
  <2> HIDE DEF written
  <2>6. ASSUME NEW v \in history'
        PROVE  \E c \in feed' : c.kind = "upsert" /\ v = VersionOf(c)
    <3>1. CASE v \in history
      BY <1>3, <2>5, <3>1
    <3>2. CASE v \in written
      BY <1>3, <2>3, <3>2
    <3> QED BY <2>1, <3>1, <3>2
  <2>7. ASSUME NEW c \in feed', c.kind = "upsert"
        PROVE  VersionOf(c) \in history'
    <3>1. CASE c \in feed
      BY <2>1, <2>5, <2>7, <3>1
    <3>2. CASE c \notin feed
      BY <1>3, <2>1, <2>4, <2>7, <3>2
    <3> QED BY <3>1, <3>2
  <2> QED BY <2>6, <2>7
<1> QED BY <1>8, <1>9, <1>10, <1>11 DEF TablesAgree

\* The tables agree after every step: whoever wrote them last.
LEMMA AgreeStep ==
  ASSUME OrderInv, TablesAgree, [Next]_vars
  PROVE  TablesAgree'
<1>1. CASE NoItemWritten
  BY <1>1 DEF NoItemWritten, TablesAgree
<1>2. ASSUME NEW r \in Requests,
             \/ Lands(req[r].plan, Accepted(req[r]))
             \/ Lands(req[r].plan, LegacyWrites(req[r].plan))
      PROVE  TablesAgree'
  <2>1. req[r] \in Request /\ req[r].plan \in Plans \cup {NoPlan}
    BY DEF OrderInv, TypeInv, TypeOK, Request
  <2>2. /\ Accepted(req[r]) \in SUBSET DOMAIN req[r].plan.ops
        /\ LegacyWrites(req[r].plan) \in SUBSET DOMAIN req[r].plan.ops
    BY <2>1, DecisionType DEF LegacyWrites
  <2> QED BY <1>2, <2>1, <2>2, LandsAgree
<1>3. ASSUME NEW i \in SharedIds, ForeignCreate(i)
      PROVE  TablesAgree'
  <2>1. /\ rows \in [Items -> Row] /\ i \in Items /\ rows[i].owner = "none"
        /\ rows' = [rows EXCEPT ![i] = [NoRow EXCEPT !.owner = "other", !.rev = 1]]
        /\ feed' = feed /\ history' = history
    BY <1>3, StoreAssumption DEF ForeignCreate, OrderInv, TypeInv, TypeOK
  <2>2. /\ rows'[i].owner = "other"
        /\ \A j \in Items : j # i => rows'[j] = rows[j]
    BY <2>1 DEF NoRow
  <2>3. \A c \in feed : c.item \in Items
    BY DEF OrderInv, TypeInv, TypeOK, Change
  <2> QED BY <2>1, <2>2, <2>3 DEF TablesAgree
<1> QED BY <1>1, <1>2, <1>3, TableSteps

\* Empty tables agree.
LEMMA AgreeInit == Init => TablesAgree
  BY DEF Init, TablesAgree, NoRow

\* No row is another account's while no id is shared with one.
LEMMA NobodyElse ==
  ASSUME SharedIds = {}
  PROVE  Spec => [](\A i \in Items : rows[i].owner # "other")
<1> DEFINE Inv == \A i \in Items : rows[i].owner # "other"
<1>1. Init => OrderInv /\ Inv
  BY OrderInit DEF Init, NoRow
<1>2. OrderInv /\ Inv /\ [Next]_vars => (OrderInv /\ Inv)'
  <2> SUFFICES ASSUME OrderInv, Inv, [Next]_vars PROVE OrderInv' /\ Inv'
    OBVIOUS
  <2>1. OrderInv'
    BY OrderStep
  <2>2. CASE NoItemWritten
    BY <2>1, <2>2 DEF NoItemWritten
  <2>3. ASSUME NEW r \in Requests,
               \/ Lands(req[r].plan, Accepted(req[r]))
               \/ Lands(req[r].plan, LegacyWrites(req[r].plan))
        PROVE  Inv'
    <3>1. /\ req[r] \in Request /\ req[r].plan \in Plans \cup {NoPlan} /\ TypeInv
          /\ serverRevision + 1 \in Nat
      BY DEF OrderInv, TypeInv, TypeOK, Request
    <3>2. /\ Accepted(req[r]) \in SUBSET DOMAIN req[r].plan.ops
          /\ LegacyWrites(req[r].plan) \in SUBSET DOMAIN req[r].plan.ops
      BY <3>1, DecisionType DEF LegacyWrites
    <3>3. \A i \in Items : rows'[i] = rows[i] \/ rows'[i].owner = "self"
      BY <2>3, <3>1, <3>2, RowsWritten DEF Lands
    <3> QED BY <3>3
  <2> QED BY <2>1, <2>2, <2>3, TableSteps
<1> QED BY <1>1, <1>2, PTL DEF Spec

\* Feed, rows and history agree: the newest change of an item is its row, and
\* every version that was upserted is in the history, whichever requests wrote
\* them.  It takes that no other account creates an item of the same id: else
\* the upsert of an id it has just taken leaves a change without a row.
THEOREM FeedAndRowsAgree ==
  ASSUME SharedIds = {}
  PROVE  Spec => []FeedDescribesRows
<1>1. Init => OrderInv /\ TablesAgree
  BY OrderInit, AgreeInit
<1>2. OrderInv /\ TablesAgree /\ [Next]_vars => (OrderInv /\ TablesAgree)'
  BY OrderStep, AgreeStep
<1>3. OrderInv /\ TablesAgree /\ (\A i \in Items : rows[i].owner # "other")
        => FeedDescribesRows
  <2>1. OrderInv => \A c \in feed : c.item \in Items
    BY DEF OrderInv, TypeInv, TypeOK, Change
  <2> QED BY <2>1 DEF TablesAgree, FeedDescribesRows, RowOf, VersionOf
<1> QED BY <1>1, <1>2, <1>3, NobodyElse, PTL DEF Spec

----------------------------------------------------------------------------
(* Nothing is taken back.                                                   *)

\* A row that changes gets a later revision.
LEMMA RowsAdvance ==
  ASSUME OrderInv, TablesAgree, [Next]_vars, NEW i \in Items
  PROVE  rows'[i] = rows[i] \/ (rows[i].owner # "other" /\ rows'[i].rev > rows[i].rev)
<1>1. rows \in [Items -> Row] /\ serverRevision \in Nat /\ rows[i].rev \in Nat /\ TypeInv
  BY DEF OrderInv, TypeInv, TypeOK, Row
<1>2. CASE NoItemWritten
  BY <1>2 DEF NoItemWritten
<1>3. ASSUME NEW r \in Requests,
             \/ Lands(req[r].plan, Accepted(req[r]))
             \/ Lands(req[r].plan, LegacyWrites(req[r].plan))
      PROVE  rows'[i] = rows[i] \/ (rows[i].owner # "other" /\ rows'[i].rev > rows[i].rev)
  <2>1. /\ req[r] \in Request /\ req[r].plan \in Plans \cup {NoPlan}
        /\ serverRevision + 1 \in Nat
    BY <1>1 DEF OrderInv, TypeInv, TypeOK, Request
  <2>2. /\ Accepted(req[r]) \in SUBSET DOMAIN req[r].plan.ops
        /\ LegacyWrites(req[r].plan) \in SUBSET DOMAIN req[r].plan.ops
    BY <2>1, DecisionType DEF LegacyWrites
  <2>3. /\ rows'[i] = rows[i] \/ rows'[i].rev = serverRevision + 1
        /\ rows[i].owner = "other" => rows'[i] = rows[i]
    BY <1>1, <1>3, <2>1, <2>2, RowsWritten DEF Lands
  <2>4. rows[i].owner # "other" => rows[i].rev <= serverRevision
    BY DEF OrderInv, Bounded
  <2> QED BY <1>1, <2>3, <2>4
<1>4. ASSUME NEW j \in SharedIds, ForeignCreate(j)
      PROVE  rows'[i] = rows[i] \/ (rows[i].owner # "other" /\ rows'[i].rev > rows[i].rev)
  <2>1. CASE i # j
    BY <1>1, <1>4, <2>1 DEF ForeignCreate
  <2>2. CASE i = j
    <3>1. rows[i].owner = "none" /\ rows[i].rev = 0
      BY <1>4, <2>2 DEF ForeignCreate, TablesAgree, NoRow
    <3>2. rows'[i].rev = 1
      BY <1>1, <1>4, <2>2 DEF ForeignCreate, NoRow
    <3> QED BY <3>1, <3>2
  <2> QED BY <2>1, <2>2
<1> QED BY <1>2, <1>3, <1>4, TableSteps

\* No step takes back a receipt, a change, a version or a revision.
LEMMA TablesGrow ==
  ASSUME OrderInv, TablesAgree, [Next]_vars
  PROVE  /\ receipts \subseteq receipts' /\ feed \subseteq feed' /\ history \subseteq history'
         /\ serverRevision <= serverRevision'
<1>1. serverRevision \in Nat /\ TypeInv
  BY DEF OrderInv, TypeInv, TypeOK
<1>2. CASE NoItemWritten /\ receipts \subseteq receipts'
  BY <1>1, <1>2 DEF NoItemWritten
<1>3. ASSUME NEW p, NEW ks, Lands(p, ks)
      PROVE  /\ feed \subseteq feed' /\ history \subseteq history'
             /\ serverRevision <= serverRevision'
  BY <1>1, <1>3 DEF Lands, WriteOps
<1>4. ASSUME NEW q, CommitBatch(q) PROVE receipts \subseteq receipts'
  BY <1>4 DEF CommitBatch
<1>5. ASSUME NEW i \in SharedIds, ForeignCreate(i)
      PROVE  /\ receipts \subseteq receipts' /\ feed \subseteq feed' /\ history \subseteq history'
             /\ serverRevision <= serverRevision'
  BY <1>1, <1>5 DEF ForeignCreate
<1> QED BY <1>2, <1>3, <1>4, <1>5, TableSteps

\* The account's history only grows, and an item that changes gets a later
\* revision: what a client has been told by a receipt, a change or a revision
\* remains true, whatever the other requests do.
THEOREM HistoryOnlyGrows == Spec => NothingIsTakenBack
<1>1. Init => OrderInv /\ TablesAgree
  BY OrderInit, AgreeInit
<1>2. OrderInv /\ TablesAgree /\ [Next]_vars => (OrderInv /\ TablesAgree)'
  BY OrderStep, AgreeStep
<1>3. OrderInv /\ TablesAgree /\ [Next]_vars =>
        [/\ receipts \subseteq receipts'
         /\ feed \subseteq feed'
         /\ history \subseteq history'
         /\ serverRevision <= serverRevision'
         /\ \A i \in Items : rows'[i] = rows[i] \/ rows'[i].rev > rows[i].rev]_tables
  BY TablesGrow, RowsAdvance
<1> QED BY <1>1, <1>2, <1>3, PTL DEF Spec, NothingIsTakenBack

\* A row of another account is never changed by this one, although both may
\* have read that there was none.
THEOREM ForeignRowsAreSafe == Spec => ForeignRowsUntouched
<1>1. Init => OrderInv /\ TablesAgree
  BY OrderInit, AgreeInit
<1>2. OrderInv /\ TablesAgree /\ [Next]_vars => (OrderInv /\ TablesAgree)'
  BY OrderStep, AgreeStep
<1>3. OrderInv /\ TablesAgree /\ [Next]_vars =>
        [\A i \in Items : rows[i].owner = "other" => rows'[i] = rows[i]]_tables
  BY RowsAdvance
<1> QED BY <1>1, <1>2, <1>3, PTL DEF Spec, ForeignRowsUntouched

----------------------------------------------------------------------------
(* What a step does to one request.                                         *)

LEMMA OneRequestSteps ==
  ASSUME TypeInv, [Next]_vars, NEW r \in Requests
  PROVE  \/ req'[r] = req[r]
         \/ req'[r] = Idle
         \/ /\ req'[r].pc = "user" /\ req'[r].plan \in Plans
            /\ Knows(req'[r].plan) /\ UNCHANGED tables
         \/ /\ req'[r].plan = req[r].plan
            /\ req'[r].pc = "receipts" =>
                 req'[r].rows = RowsOf(req[r]) /\ UNCHANGED tables
            /\ req'[r].pc = "batch" =>
                 /\ req[r].pc = "receipts" /\ req'[r].rows = req[r].rows
                 /\ req'[r].receipts = ReceiptsOf(req[r]) /\ UNCHANGED tables
            /\ req'[r].pc = "done" =>
                 \/ req[r].pc \in LegacyPC
                 \/ /\ req[r].pc = "batch" /\ req'[r].answer = AnswerTo(req[r])
                    /\ \/ Pending(req[r]) = {} /\ UNCHANGED tables
                       \/ CommitBatch(req[r])
<1>1. /\ req \in [Requests -> Request]
      /\ \A s \in Requests : req[s] \in Request
  BY DEF TypeInv, TypeOK
<1> DEFINE Done(s) ==
      \/ req'[s] = Idle
      \/ /\ req'[s].pc = "user" /\ req'[s].plan \in Plans
         /\ Knows(req'[s].plan) /\ UNCHANGED tables
      \/ /\ req'[s].plan = req[s].plan
         /\ req'[s].pc = "receipts" =>
              req'[s].rows = RowsOf(req[s]) /\ UNCHANGED tables
         /\ req'[s].pc = "batch" =>
              /\ req[s].pc = "receipts" /\ req'[s].rows = req[s].rows
              /\ req'[s].receipts = ReceiptsOf(req[s]) /\ UNCHANGED tables
         /\ req'[s].pc = "done" =>
              \/ req[s].pc \in LegacyPC
              \/ /\ req[s].pc = "batch" /\ req'[s].answer = AnswerTo(req[s])
                 /\ \/ Pending(req[s]) = {} /\ UNCHANGED tables
                    \/ CommitBatch(req[s])
<1>2. ASSUME NEW s \in Requests, NEW q, Step(s, q)
      PROVE  req'[s] = q /\ \A t \in Requests : t # s => req'[t] = req[t]
  BY <1>1, <1>2 DEF Step
<1>3. ASSUME NEW s \in Requests, Push(s) \/ LegacyPush(s)
      PROVE  Done(s) /\ \A t \in Requests : t # s => req'[t] = req[t]
  <2> DEFINE q == req[s]
  <2>0. q \in Request
    BY <1>1
  <2>1. CASE Submit(s)
    <3>1. PICK p \in Plans : Knows(p) /\ Step(s, [Idle EXCEPT !.pc = "user", !.plan = p])
      BY <2>1 DEF Submit
    <3> DEFINE n == [Idle EXCEPT !.pc = "user", !.plan = p]
    <3>2. n.pc = "user" /\ n.plan = p
      BY DEF Idle
    <3> HIDE DEF n
    <3>3. req'[s] = n /\ \A t \in Requests : t # s => req'[t] = req[t]
      BY <1>2, <3>1 DEF n
    <3> QED BY <2>1, <3>1, <3>2, <3>3 DEF Submit
  <2>2. CASE ReadUser(s)
    <3> DEFINE n == [q EXCEPT !.rev = serverRevision,
                              !.pc = IF q.plan.legacy THEN "owners" ELSE "rows"]
    <3>1. n.plan = q.plan /\ n.pc \in {"owners", "rows"}
      BY <2>0 DEF Request
    <3>2. Step(s, n)
      BY <2>2 DEF ReadUser
    <3> HIDE DEF n
    <3> QED BY <1>2, <3>1, <3>2
  <2>3. CASE ReadRows(s)
    <3> DEFINE n == [q EXCEPT !.rows = RowsOf(q), !.pc = "receipts"]
    <3>1. n.plan = q.plan /\ n.pc = "receipts" /\ n.rows = RowsOf(q)
      BY <2>0 DEF Request
    <3>2. Step(s, n) /\ UNCHANGED tables
      BY <2>3 DEF ReadRows
    <3> HIDE DEF n
    <3> QED BY <1>2, <3>1, <3>2
  <2>4. CASE ReadReceipts(s)
    <3> DEFINE n == [q EXCEPT !.receipts = ReceiptsOf(q), !.pc = "batch"]
    <3>1. n.plan = q.plan /\ n.pc = "batch" /\ n.rows = q.rows /\ n.receipts = ReceiptsOf(q)
      BY <2>0 DEF Request
    <3>2. Step(s, n) /\ UNCHANGED tables /\ q.pc = "receipts"
      BY <2>4 DEF ReadReceipts
    <3> HIDE DEF n
    <3> QED BY <1>2, <3>1, <3>2
  <2>5. ASSUME NEW a, Reply(s, a)
        PROVE  /\ req'[s].pc = "done" /\ req'[s].plan = q.plan /\ req'[s].answer = a
               /\ \A t \in Requests : t # s => req'[t] = req[t]
    <3> DEFINE n == [Idle EXCEPT !.pc = "done", !.plan = q.plan, !.answer = a]
    <3>1. n.pc = "done" /\ n.plan = q.plan /\ n.answer = a
      BY DEF Idle
    <3>2. Step(s, n)
      BY <2>5 DEF Reply
    <3> HIDE DEF n
    <3> QED BY <1>2, <3>1, <3>2
  <2>6. ASSUME Fail(s)
        PROVE  /\ req'[s].pc = "failed" /\ req'[s].plan = q.plan
               /\ \A t \in Requests : t # s => req'[t] = req[t]
    <3> DEFINE n == [Idle EXCEPT !.pc = "failed", !.plan = q.plan,
                                 !.answer = [NoAnswer EXCEPT !.status = "error"]]
    <3>1. n.pc = "failed" /\ n.plan = q.plan
      BY DEF Idle
    <3>2. Step(s, n)
      BY <2>6 DEF Fail
    <3> HIDE DEF n
    <3> QED BY <1>2, <3>1, <3>2
  <2>7. ASSUME NEW pc \in {"recheckRevision", "recheckReceipts", "legacyBatch", "legacyRecheck"},
               Step(s, [q EXCEPT !.pc = pc])
        PROVE  /\ req'[s].pc = pc /\ req'[s].plan = q.plan
               /\ \A t \in Requests : t # s => req'[t] = req[t]
    <3> DEFINE n == [q EXCEPT !.pc = pc]
    <3>1. n.pc = pc /\ n.plan = q.plan
      BY <2>0 DEF Request
    <3> HIDE DEF n
    <3>2. Step(s, n)
      BY <2>7 DEF n
    <3> QED BY <1>2, <3>1, <3>2
  <2>8. ASSUME NextAttempt(s)
        PROVE  /\ req'[s].pc \in {"user", "failed"} /\ req'[s].plan = q.plan
               /\ \A t \in Requests : t # s => req'[t] = req[t]
    <3> DEFINE n == [Idle EXCEPT !.pc = "user", !.plan = q.plan, !.attempt = q.attempt + 1]
    <3>1. n.pc = "user" /\ n.plan = q.plan
      BY DEF Idle
    <3>2. Step(s, n) \/ Fail(s)
      BY <2>8 DEF NextAttempt
    <3> HIDE DEF n
    <3> QED BY <1>2, <2>6, <3>1, <3>2
  <2>9. CASE NothingToWrite(s)
    BY <2>5, <2>9 DEF NothingToWrite
  <2>10. CASE Commit(s)
    BY <2>5, <2>10 DEF Commit
  <2>11. CASE CommitUnacknowledged(s)
    BY <2>7, <2>11 DEF CommitUnacknowledged
  <2>12. CASE BatchRolledBack(s)
    BY <2>7, <2>12 DEF BatchRolledBack
  <2>13. CASE RecheckRevision(s)
    BY <2>7, <2>8, <2>13 DEF RecheckRevision
  <2>14. CASE RecheckReceipts(s)
    BY <2>6, <2>8, <2>14 DEF RecheckReceipts
  <2>15. CASE Leave(s)
    BY <1>2, <2>15 DEF Leave
  <2>16. CASE ReadOwners(s)
    BY <2>5, <2>6, <2>7, <2>16 DEF ReadOwners, LegacyPC
  <2>17. CASE LegacyCommit(s)
    BY <2>5, <2>17 DEF LegacyCommit, LegacyPC
  <2>18. CASE LegacyCommitUnacknowledged(s)
    BY <2>7, <2>18 DEF LegacyCommitUnacknowledged
  <2>19. CASE LegacyRolledBack(s)
    BY <2>7, <2>19 DEF LegacyRolledBack
  <2>20. CASE LegacyRecheck(s)
    BY <2>5, <2>6, <2>20 DEF LegacyRecheck, LegacyPC
  <2> HIDE DEF Done
  <2> QED BY <1>3, <2>1, <2>2, <2>3, <2>4, <2>9, <2>10, <2>11, <2>12, <2>13, <2>14,
             <2>15, <2>16, <2>17, <2>18, <2>19, <2>20 DEF Push, LegacyPush
<1>4. ASSUME (\E d \in Readers : Pull(d)) \/ (\E i \in SharedIds : ForeignCreate(i))
             \/ UNCHANGED vars
      PROVE  req'[r] = req[r]
  BY <1>4 DEF Pull, PullReadUser, PullReadPage, VaultReadUser, VaultReadLive,
              VaultReadDeleted, ForeignCreate, vars
<1>5. req'[r] = req[r] \/ Done(r)
  <2> HIDE DEF Done
  <2> QED BY <1>3, <1>4 DEF Next
<1> QED BY <1>5

----------------------------------------------------------------------------
(* A conflict is final.                                                     *)

\* A base revision is that of a change of the item, or that of a new item.
KnownBase(o, changes) ==
  o.base # 0 => \E c \in changes : c.item = o.item /\ c.rev = o.base

\* A row that a request has read is the item's, or the item is past the base
\* the operation names: it was written since, and later than any base known.
ReadOrNewer(q, items) ==
  \A o \in OpsOf(q) : items[o.item] = q.rows[o.item] \/ items[o.item].rev > o.base

ConflictInv ==
  /\ \A x \in receipts : KnownBase(x.op, feed)
  /\ \A r \in Requests : \A o \in OpsOf(req[r]) : KnownBase(o, feed)
  /\ \A r \in Requests :
       req[r].pc \in {"receipts", "batch"} => ReadOrNewer(req[r], rows)
  /\ ConflictStaysConflict

\* A row that is written is past every base known before.
LEMMA WrittenPastBase ==
  ASSUME OrderInv, TablesAgree, [Next]_vars, NEW o \in Op, KnownBase(o, feed)
  PROVE  rows'[o.item] = rows[o.item] \/ rows'[o.item].rev > o.base
<1> DEFINE i == o.item
<1>1. /\ i \in Items /\ o.base \in Nat /\ serverRevision \in Nat /\ TypeInv
      /\ rows \in [Items -> Row]
  BY DEF Op, OrderInv, TypeInv, TypeOK
<1>2. o.base <= serverRevision
  BY <1>1 DEF KnownBase, OrderInv, RevisionsInOrder
<1>3. ASSUME NEW r \in Requests,
             \/ Lands(req[r].plan, Accepted(req[r]))
             \/ Lands(req[r].plan, LegacyWrites(req[r].plan))
      PROVE  rows'[i] = rows[i] \/ rows'[i].rev = serverRevision + 1
  <2>1. /\ req[r] \in Request /\ req[r].plan \in Plans \cup {NoPlan}
        /\ serverRevision + 1 \in Nat
    BY <1>1 DEF OrderInv, TypeInv, TypeOK, Request
  <2>2. /\ Accepted(req[r]) \in SUBSET DOMAIN req[r].plan.ops
        /\ LegacyWrites(req[r].plan) \in SUBSET DOMAIN req[r].plan.ops
    BY <2>1, DecisionType DEF LegacyWrites
  <2> HIDE DEF i
  <2> QED BY <1>1, <1>3, <2>1, <2>2, RowsWritten DEF Lands
<1>4. ASSUME NEW j \in SharedIds, ForeignCreate(j), i = j
      PROVE  rows'[i].rev = 1 /\ o.base = 0
  <2>1. rows[i].owner = "none" /\ rows'[i].rev = 1
    BY <1>1, <1>4 DEF ForeignCreate, NoRow
  <2> QED BY <1>1, <2>1 DEF TablesAgree, KnownBase
<1>5. ASSUME NEW j \in SharedIds, ForeignCreate(j), i # j
      PROVE  rows'[i] = rows[i]
  BY <1>1, <1>5 DEF ForeignCreate
<1> QED BY <1>1, <1>2, <1>3, <1>4, <1>5, TableSteps DEF NoItemWritten

\* The operations of a request, and those of the request it becomes.
LEMMA OpsOfType ==
  ASSUME NEW q \in Request
  PROVE  \A o \in OpsOf(q) : o \in Op /\ o.item \in Items /\ o.base \in Nat
<1>1. q.plan \in Plans \cup {NoPlan}
  BY DEF Request
<1> QED BY <1>1, PlanType DEF OpsOf, Op

\* The receipts a step writes are of the operations of a request in flight; a
\* conflict of revisions was decided on a row of another revision, or on none.
LEMMA NewReceiptOrigin ==
  ASSUME TypeInv, [Next]_vars, NEW x \in receipts', x \notin receipts
  PROVE  \E r \in Requests :
           /\ req[r].pc = "batch" /\ CommitBatch(req[r]) /\ x \in NewReceipts(req[r])
<1>1. PICK r \in Requests : req[r].pc = "batch" /\ CommitBatch(req[r])
  BY OnlyBatchesWrite DEF LegacyCommitBatch
<1> QED BY <1>1 DEF CommitBatch

\* An operation refused for its revision in a batch could not be applied after it.
LEMMA RefusedStaysRefused ==
  ASSUME OrderInv, TablesAgree, ConflictInv, [Next]_vars,
         NEW r \in Requests, req[r].pc = "batch", CommitBatch(req[r]),
         NEW x \in NewReceipts(req[r]),
         x.reason \in {"item_revision_mismatch", "item_revision_advanced"}
  PROVE  \/ rows'[x.op.item].rev # x.op.base
         \/ x.op.kind = "delete" /\ rows'[x.op.item].owner = "none"
<1> DEFINE q == req[r]
<1>1. /\ q \in Request /\ q.plan \in Plans \cup {NoPlan} /\ TypeInv
      /\ rows \in [Items -> Row]
  BY DEF OrderInv, TypeInv, TypeOK, Request
<1>2. PICK k \in Rejected(q) : k \in DOMAIN q.plan.ops /\ x = ConflictReceipt(q, q.plan.ops[k])
  <2>1. x.status = "applied" => x.reason = "none"
    BY <1>1, ReceiptsWritten DEF AppliedReceipt
  <2> QED BY <1>1, <2>1, ReceiptsWritten
<1> DEFINE o == q.plan.ops[k]
           row == q.rows[o.item]
<1>3. x.op = o /\ x.reason = Reason(q, o)
  BY <1>2 DEF ConflictReceipt
<1>4. o \in OpsOf(q) /\ o \in Op /\ o.item \in Items /\ o.base \in Nat
  BY <1>1, <1>2, OpsOfType DEF OpsOf
<1>5. row \in Row /\ row.rev \in Nat /\ rows[o.item].rev \in Nat
  BY <1>1, <1>4 DEF Request, Row
<1>6. \/ row.rev # o.base
      \/ o.kind = "delete" /\ row.owner = "none"
  BY ONLY x.reason \in {"item_revision_mismatch", "item_revision_advanced"},
          <1>3, <1>4, <1>5, ReasonIs
<1>7. rows[o.item] = row \/ rows[o.item].rev > o.base
  BY <1>4 DEF ConflictInv, ReadOrNewer
<1>8. rows'[o.item] = rows[o.item]
  <2>1. k \notin Accepted(q)
    BY <1>2 DEF Accepted, Rejected
  <2>2. \A j \in Accepted(q) : j \in DOMAIN q.plan.ops /\ j # k
    BY <2>1 DEF Accepted
  <2>3. \A j \in Accepted(q) : q.plan.ops[j].item # o.item
    BY <1>1, <1>2, <2>2, PlanType DEF WellFormed
  <2>4. WriteOps(q.plan, Accepted(q), NewRevision(q))
    BY DEF CommitBatch
  <2> HIDE DEF q, o
  <2> QED BY <1>1, <1>4, <2>3, <2>4, RowStays
<1> HIDE DEF row, o
<1>9. CASE rows[o.item] = row
  BY <1>3, <1>6, <1>8, <1>9
<1>10. CASE rows[o.item].rev > o.base
  <2>1. rows[o.item].rev # o.base
    BY <1>4, <1>5, <1>10
  <2> QED BY <1>3, <1>8, <2>1
<1> QED BY <1>7, <1>9, <1>10

LEMMA ConflictStep ==
  ASSUME OrderInv, TablesAgree, ConflictInv, [Next]_vars
  PROVE  ConflictInv'
<1>1. /\ TypeInv /\ feed \subseteq feed' /\ receipts \subseteq receipts'
      /\ receipts \subseteq Receipt /\ \A r \in Requests : req[r] \in Request
  BY TablesGrow DEF OrderInv, TypeInv, TypeOK
<1>2. \A o : KnownBase(o, feed) => KnownBase(o, feed')
  BY <1>1 DEF KnownBase
<1>3. ASSUME NEW x \in receipts'
      PROVE  KnownBase(x.op, feed')
  <2>1. CASE x \in receipts
    BY <1>2, <2>1 DEF ConflictInv
  <2>2. CASE x \notin receipts
    <3>1. PICK r \in Requests : x \in NewReceipts(req[r])
      BY <1>1, <2>2, NewReceiptOrigin
    <3>2. x.op \in OpsOf(req[r])
      BY <1>1, <3>1, ReceiptsWritten DEF OpsOf
    <3> QED BY <1>2, <3>2 DEF ConflictInv
  <2> QED BY <2>1, <2>2
<1>4. ASSUME NEW r \in Requests
      PROVE  /\ \A o \in OpsOf(req'[r]) : KnownBase(o, feed')
             /\ req'[r].pc \in {"receipts", "batch"} => ReadOrNewer(req'[r], rows')
  <2>1. CASE req'[r] = req[r]
    <3>1. ASSUME NEW o \in OpsOf(req[r])
          PROVE  KnownBase(o, feed) /\ (rows'[o.item] = rows[o.item] \/ rows'[o.item].rev > o.base)
      BY <1>1, <3>1, OpsOfType, WrittenPastBase DEF ConflictInv
    <3>2. ASSUME req[r].pc \in {"receipts", "batch"}, NEW o \in OpsOf(req[r])
          PROVE  rows'[o.item] = req[r].rows[o.item] \/ rows'[o.item].rev > o.base
      <4>1. rows[o.item] = req[r].rows[o.item] \/ rows[o.item].rev > o.base
        BY <3>2 DEF ConflictInv, ReadOrNewer
      <4>2. rows'[o.item] = rows[o.item] \/ rows'[o.item].rev > o.base
        BY <3>1
      <4> QED BY <4>1, <4>2
    <3> QED BY <1>2, <2>1, <3>1, <3>2 DEF ReadOrNewer
  <2>2. CASE req'[r] = Idle
    BY <2>2 DEF Idle, OpsOf, NoPlan
  <2>3. CASE req'[r].pc = "user" /\ Knows(req'[r].plan) /\ UNCHANGED tables
    BY <2>3 DEF Knows, KnownBase, OpsOf, tables
  <2>4. CASE /\ req'[r].plan = req[r].plan
             /\ req'[r].pc = "receipts" => req'[r].rows = RowsOf(req[r]) /\ UNCHANGED tables
             /\ req'[r].pc = "batch" =>
                  /\ req[r].pc = "receipts" /\ req'[r].rows = req[r].rows
                  /\ req'[r].receipts = ReceiptsOf(req[r]) /\ UNCHANGED tables
    <3>1. OpsOf(req'[r]) = OpsOf(req[r])
      BY <2>4 DEF OpsOf
    <3>2. CASE req'[r].pc = "receipts"
      <4>1. \A o \in OpsOf(req[r]) : req'[r].rows[o.item] = rows'[o.item]
        BY <1>1, <2>4, <3>2, OpsOfType DEF RowsOf, tables
      <4> QED BY <1>2, <3>1, <3>2, <4>1 DEF ConflictInv, ReadOrNewer
    <3>3. CASE req'[r].pc = "batch"
      BY <1>2, <2>4, <3>1, <3>3 DEF ConflictInv, ReadOrNewer, tables
    <3> QED BY <1>2, <3>1, <3>2, <3>3 DEF ConflictInv
  <2> QED BY <1>1, <2>1, <2>2, <2>3, <2>4, OneRequestSteps
<1>5. ASSUME NEW x \in receipts',
             x.reason \in {"item_revision_mismatch", "item_revision_advanced"}
      PROVE  \/ rows'[x.op.item].rev # x.op.base
             \/ x.op.kind = "delete" /\ rows'[x.op.item].owner = "none"
  <2>1. CASE x \in receipts
    <3>1. x.op \in Op /\ x.op.base \in Nat /\ KnownBase(x.op, feed)
      BY <1>1, <2>1 DEF Receipt, Op, ConflictInv
    <3>2. rows'[x.op.item] = rows[x.op.item] \/ rows'[x.op.item].rev > x.op.base
      BY <3>1, WrittenPastBase
    <3>3. \/ rows[x.op.item].rev # x.op.base
          \/ x.op.kind = "delete" /\ rows[x.op.item].owner = "none"
      BY <1>5, <2>1 DEF ConflictInv, ConflictStaysConflict
    <3> QED BY <3>1, <3>2, <3>3
  <2>2. CASE x \notin receipts
    BY <1>1, <1>5, <2>2, NewReceiptOrigin, RefusedStaysRefused
  <2> QED BY <2>1, <2>2
<1> QED BY <1>3, <1>4, <1>5 DEF ConflictInv, ConflictStaysConflict

LEMMA ConflictInit == Init => ConflictInv
  BY DEF Init, ConflictInv, ConflictStaysConflict, Idle, OpsOf, NoPlan

\* A recorded revision conflict is final, although a batch of conflicts only
\* claims no revision and its rows may have moved since they were read.
THEOREM ConflictsAreFinal == Spec => []ConflictStaysConflict
<1>1. Init => OrderInv /\ TablesAgree /\ ConflictInv
  BY OrderInit, AgreeInit, ConflictInit
<1>2. OrderInv /\ TablesAgree /\ ConflictInv /\ [Next]_vars
        => (OrderInv /\ TablesAgree /\ ConflictInv)'
  BY OrderStep, AgreeStep, ConflictStep
<1>3. ConflictInv => ConflictStaysConflict
  BY DEF ConflictInv
<1> QED BY <1>1, <1>2, <1>3, PTL DEF Spec

----------------------------------------------------------------------------
(* An answer is what the receipts say.                                      *)

\* What the response tells of each operation is in the receipts: an applied one
\* is there, and of one in conflict there is another verdict.
Recorded(q) ==
  /\ q.answer.applied \subseteq receipts
  /\ \A o \in OpsOf(q) : o \in q.answer.conflicts \/ \E x \in q.answer.applied : x.op = o
  /\ \A o \in q.answer.conflicts :
       \E x \in receipts : x.op.mut = o.mut /\ ~(x.op = o /\ x.status = "applied")

AnswerInv ==
  \A r \in Requests :
    /\ req[r].pc = "batch" => req[r].receipts \subseteq receipts
    /\ req[r].pc = "done" /\ ~req[r].plan.legacy => Recorded(req[r])

\* The answer of a request whose batch has committed, or had nothing to write,
\* is recorded in the receipts there are then.
LEMMA AnswerRecorded ==
  ASSUME OrderInv, MutationDecidedOnce', NEW r \in Requests, req[r].pc = "batch",
         req[r].receipts \subseteq receipts,
         \/ Pending(req[r]) = {} /\ receipts' = receipts
         \/ CommitBatch(req[r])
  PROVE  LET a == AnswerTo(req[r])
         IN  /\ a.applied \subseteq receipts'
             /\ \A o \in OpsOf(req[r]) : o \in a.conflicts \/ \E x \in a.applied : x.op = o
             /\ \A o \in a.conflicts :
                  \E x \in receipts' : x.op.mut = o.mut /\ ~(x.op = o /\ x.status = "applied")
<1> DEFINE q == req[r]
           a == AnswerTo(q)
<1>1. q \in Request /\ q.plan \in Plans \cup {NoPlan}
  BY DEF OrderInv, TypeInv, TypeOK, Request
<1>2. receipts \subseteq receipts'
  BY DEF CommitBatch
<1>3. ASSUME NEW k \in Pending(q)
      PROVE  /\ k \in Accepted(q) => AppliedReceipt(q, q.plan.ops[k]) \in receipts'
             /\ k \in Rejected(q) => ConflictReceipt(q, q.plan.ops[k]) \in receipts'
  BY <1>3 DEF CommitBatch, NewReceipts
<1>4. a.applied = {x \in q.receipts : x.status = "applied" /\ x.op \in OpsOf(q)}
                    \cup {AppliedReceipt(q, q.plan.ops[k]) : k \in Accepted(q)}
  BY DEF AnswerTo
<1>5. a.conflicts = {o \in OpsOf(q) : \A x \in a.applied : x.op # o}
  BY DEF AnswerTo
<1>6. Accepted(q) \subseteq Pending(q)
  BY DEF Pending
<1> HIDE DEF a
<1>7. a.applied \subseteq receipts'
  BY <1>2, <1>3, <1>4, <1>6
<1>8. \A o \in OpsOf(q) : o \in a.conflicts \/ \E x \in a.applied : x.op = o
  BY <1>5
<1>9. ASSUME NEW o \in a.conflicts
      PROVE  \E x \in receipts' : x.op.mut = o.mut /\ ~(x.op = o /\ x.status = "applied")
  <2>1. o \in OpsOf(q) /\ \A x \in a.applied : x.op # o
    BY <1>5
  <2>2. PICK k \in DOMAIN q.plan.ops : o = q.plan.ops[k]
    BY <2>1 DEF OpsOf
  <2>3. CASE Seen(q, o)
    <3>1. PICK x \in q.receipts : x.op.mut = o.mut
      BY <2>3 DEF Seen
    <3>2. ~(x.op = o /\ x.status = "applied")
      BY <1>4, <2>1, <3>1
    <3> QED BY <1>2, <3>1, <3>2
  <2>4. CASE ~Seen(q, o)
    <3>1. k \notin Accepted(q)
      <4>1. ASSUME k \in Accepted(q) PROVE FALSE
        <5>1. AppliedReceipt(q, o) \in a.applied
          BY <1>4, <2>2, <4>1
        <5> QED BY <2>1, <5>1 DEF AppliedReceipt
      <4> QED BY <4>1
    <3>2. k \in Rejected(q)
      BY <2>2, <2>4, <3>1 DEF Accepted, Rejected
    <3>3. ConflictReceipt(q, o) \in receipts'
      BY <1>3, <2>2, <3>2 DEF Pending
    <3> QED BY <3>3 DEF ConflictReceipt
  <2> QED BY <2>3, <2>4
<1> QED BY <1>7, <1>8, <1>9 DEF a

LEMMA AnswerStep ==
  ASSUME OrderInv, TablesAgree, AnswerInv, MutationDecidedOnce', [Next]_vars
  PROVE  AnswerInv'
<1>1. /\ TypeInv /\ receipts \subseteq receipts'
      /\ \A r \in Requests : req[r] \in Request
  BY TablesGrow DEF OrderInv, TypeInv, TypeOK
<1> SUFFICES ASSUME NEW r \in Requests
             PROVE  /\ req'[r].pc = "batch" => req'[r].receipts \subseteq receipts'
                    /\ req'[r].pc = "done" /\ ~req'[r].plan.legacy => Recorded(req[r])'
  BY DEF AnswerInv
<1>2. CASE req'[r] = req[r]
  BY <1>1, <1>2 DEF AnswerInv, Recorded, OpsOf
<1>3. CASE req'[r] = Idle \/ req'[r].pc = "user"
  BY <1>3 DEF Idle
<1>4. CASE /\ req'[r].plan = req[r].plan
           /\ req'[r].pc = "batch" =>
                req'[r].receipts = ReceiptsOf(req[r]) /\ UNCHANGED tables
           /\ req'[r].pc = "done" =>
                \/ req[r].pc \in LegacyPC
                \/ /\ req[r].pc = "batch" /\ req'[r].answer = AnswerTo(req[r])
                   /\ \/ Pending(req[r]) = {} /\ UNCHANGED tables
                      \/ CommitBatch(req[r])
  <2>1. CASE req'[r].pc = "batch"
    BY <1>4, <2>1 DEF ReceiptsOf, tables
  <2>2. CASE req'[r].pc = "done" /\ ~req'[r].plan.legacy
    <3>1. req[r].pc \notin LegacyPC
      BY <1>4, <2>2 DEF OrderInv, InFlight
    <3>2. /\ req[r].pc = "batch" /\ req[r].receipts \subseteq receipts
          /\ \/ Pending(req[r]) = {} /\ receipts' = receipts
             \/ CommitBatch(req[r])
      BY <1>4, <2>2, <3>1 DEF AnswerInv, tables
    <3> DEFINE p == req'[r]
    <3>3. p.plan = req[r].plan /\ p.answer = AnswerTo(req[r])
      BY <1>4, <2>2, <3>1
    <3>4. OpsOf(p) = OpsOf(req[r])
      BY <3>3 DEF OpsOf
    <3>5. /\ p.answer.applied \subseteq receipts'
          /\ \A o \in OpsOf(p) : o \in p.answer.conflicts \/ \E x \in p.answer.applied : x.op = o
          /\ \A o \in p.answer.conflicts :
               \E x \in receipts' : x.op.mut = o.mut /\ ~(x.op = o /\ x.status = "applied")
      BY <3>2, <3>3, <3>4, AnswerRecorded
    <3> QED BY <2>2, <3>5 DEF Recorded
  <2> QED BY <2>1, <2>2
<1> QED BY <1>1, <1>2, <1>3, <1>4, OneRequestSteps

\* What a response acknowledges is in the receipts, now and for good, and what
\* it refuses is applied by nobody: neither a retry nor a twin of the request
\* makes it false.
THEOREM AnswersAreRecorded == Spec => []AnswersAreDurable
<1> DEFINE Inv == OrderInv /\ TablesAgree /\ MutationDecidedOnce /\ AnswerInv
<1>1. Init => OrderInv /\ TablesAgree /\ AnswerInv
  BY OrderInit, AgreeInit DEF Init, AnswerInv, Idle
<1>2. OrderInv /\ TablesAgree /\ AnswerInv /\ MutationDecidedOnce' /\ [Next]_vars
        => (OrderInv /\ TablesAgree /\ AnswerInv)'
  BY OrderStep, AgreeStep, AnswerStep
<1>3. AnswerInv /\ MutationDecidedOnce => AnswersAreDurable
  BY DEF AnswerInv, Recorded, AnswersAreDurable, MutationDecidedOnce
<1> QED BY <1>1, <1>2, <1>3, MutationsAreDecidedOnce, PTL DEF Spec

=============================================================================
