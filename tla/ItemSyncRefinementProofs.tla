---------------------- MODULE ItemSyncRefinementProofs ----------------------
(***************************************************************************)
(* The store implements the atomic compare-and-set of ItemSyncAtomic, for  *)
(* every number of requests, items, plans and attempts, as long as no id   *)
(* is taken by another account.                                            *)
(*                                                                         *)
(* The argument.  A batch that writes state finds the rows as its request  *)
(* has read them, so what it accepts is what the items allow.  One that    *)
(* writes only conflicts may find later rows, but each is the row that was *)
(* read or past the operation's base: the items refuse it as well.         *)
(***************************************************************************)
EXTENDS ItemSyncTablesProofs, ItemSyncRefinement

NobodyElsesRows == \A i \in Items : rows[i].owner # "other"

StoreInv == OrderInv /\ TablesAgree /\ ConflictInv /\ NobodyElsesRows

OpsAt(p, ks) == {p.ops[k] : k \in ks}

----------------------------------------------------------------------------
(* What the items are to a client.                                          *)

\* The row of an item that the account has is that of one of its changes.
LEMMA NewestChange ==
  ASSUME OrderInv, TablesAgree, NEW i \in Items, rows[i].owner = "self"
  PROVE  \E c \in feed : c.item = i /\ rows[i] = RowOf(c)
<1> DEFINE revs == {c.rev : c \in {b \in feed : b.item = i}}
<1>1. /\ serverRevision \in Nat /\ feed \subseteq Change
      /\ \A c \in feed : c.rev \in Nat /\ c.rev <= serverRevision
  BY DEF OrderInv, TypeInv, TypeOK, RevisionsInOrder, Change
<1>2. revs \in SUBSET Nat /\ revs # {} /\ \A n \in revs : n <= serverRevision
  BY <1>1 DEF TablesAgree
<1>3. \E m \in revs : \A n \in revs : n <= m
  <2> HIDE DEF revs
  <2> QED BY <1>1, <1>2, MaximumExists
<1>4. PICK c \in feed : c.item = i /\ \A b \in feed : b.item = i => b.rev <= c.rev
  BY <1>3
<1> QED BY <1>4 DEF TablesAgree

\* The account has an item exactly when the abstract store does.
LEMMA MissingRow ==
  ASSUME StoreInv, NEW i \in Items
  PROVE  /\ ItemStates[i] = [rev |-> rows[i].rev, deleted |-> rows[i].deleted,
                             mut |-> rows[i].mut]
         /\ rows[i].owner = "self" <=> ItemStates[i] # Atomic!Missing
         /\ rows[i].owner = "none" => rows[i].rev = 0
<1>1. rows[i].owner \in {"none", "self"}
  BY DEF StoreInv, NobodyElsesRows, OrderInv, TypeInv, TypeOK, Row
<1>2. ItemStates[i] = [rev |-> rows[i].rev, deleted |-> rows[i].deleted, mut |-> rows[i].mut]
  BY DEF ItemStates
<1>3. CASE rows[i].owner = "none"
  <2>1. rows[i] = NoRow
    BY <1>3 DEF StoreInv, TablesAgree
  <2> QED BY <1>2, <1>3, <2>1 DEF NoRow, Atomic!Missing
<1>4. CASE rows[i].owner = "self"
  <2>1. PICK c \in feed : rows[i] = RowOf(c)
    BY <1>4, NewestChange DEF StoreInv
  <2>2. rows[i].rev # 0
    BY <2>1 DEF RowOf, StoreInv, OrderInv, RevisionsInOrder, TypeInv, TypeOK
  <2> QED BY <1>2, <1>4, <2>2 DEF Atomic!Missing
<1> QED BY <1>1, <1>2, <1>3, <1>4

\* A batch that lands writes the items as the abstract store does.
LEMMA LandsIsWrite ==
  ASSUME StoreInv, NEW p \in Plans \cup {NoPlan}, NEW ks \in SUBSET DOMAIN p.ops,
         Lands(p, ks)
  PROVE  /\ ks # {} => Atomic!Write(OpsAt(p, ks))
         /\ ks = {} => ItemStates' = ItemStates
<1> DEFINE n == serverRevision + 1
<1>1. /\ TypeInv /\ n \in Nat /\ rows \in [Items -> Row] /\ WriteOps(p, ks, n)
      /\ serverRevision' = n
  BY DEF StoreInv, OrderInv, TypeInv, TypeOK, Lands
<1>2. ASSUME NEW i \in Items, \A k \in ks : p.ops[k].item # i
      PROVE  ItemStates'[i] = ItemStates[i]
  <2> HIDE DEF n
  <2>1. rows'[i] = rows[i]
    BY <1>1, <1>2, RowStays
  <2> QED BY <2>1 DEF ItemStates
<1>3. ASSUME NEW k \in ks
      PROVE  /\ p.ops[k].item \in Items
             /\ ItemStates'[p.ops[k].item] =
                  [rev |-> n, deleted |-> p.ops[k].kind = "delete", mut |-> p.ops[k].mut]
  <2>1. p.ops[k].item \in Items
    BY PlanType DEF Op
  <2>2. rows'[p.ops[k].item] =
           [owner |-> "self", rev |-> n,
            deleted |-> p.ops[k].kind = "delete", mut |-> p.ops[k].mut]
    BY <1>1, <2>1, RowLands DEF StoreInv, NobodyElsesRows
  <2> QED BY <2>1, <2>2 DEF ItemStates
<1>4. ItemStates' = [i \in Items |-> ItemStates'[i]] /\ ItemStates = [i \in Items |-> ItemStates[i]]
  BY DEF ItemStates
<1>5. CASE ks = {}
  BY <1>2, <1>4, <1>5
<1>6. CASE ks # {}
  <2> DEFINE S == OpsAt(p, ks)
             Written(i) == LET o == CHOOSE o \in S : o.item = i
                           IN  [rev |-> n, deleted |-> o.kind = "delete", mut |-> o.mut]
  <2>1. S # {} /\ \A o \in S : \E k \in ks : o = p.ops[k]
    BY <1>6 DEF OpsAt
  <2>2. ASSUME NEW i \in Items, \E o \in S : o.item = i
        PROVE  ItemStates'[i] = Written(i)
    <3>1. PICK k \in ks : p.ops[k].item = i
      BY <2>1, <2>2
    <3>2. \A o \in S : o.item = i => o = p.ops[k]
      BY <2>1, <3>1, PlanType DEF WellFormed
    <3>3. (CHOOSE o \in S : o.item = i) = p.ops[k]
      BY <2>2, <3>2
    <3> QED BY <1>3, <3>1, <3>3
  <2>3. ASSUME NEW i \in Items, ~\E o \in S : o.item = i
        PROVE  ItemStates'[i] = ItemStates[i]
    BY <1>2, <2>3 DEF OpsAt
  <2>4. ItemStates' = [i \in Items |-> IF \E o \in S : o.item = i THEN Written(i)
                                                                  ELSE ItemStates[i]]
    <3> HIDE DEF S, Written
    <3> QED BY <1>4, <2>2, <2>3
  <2> QED BY <1>1, <1>6, <2>1, <2>4 DEF Atomic!Write
<1> QED BY <1>5, <1>6

----------------------------------------------------------------------------
(* The item-level batch is one decision.                                    *)

\* A request decides an operation as the items at the time of its batch do.
LEMMA DecidedAsCurrent ==
  ASSUME StoreInv, NEW r \in Requests, req[r].pc = "batch", CommitBatch(req[r]),
         req[r].plan.baseRevision <= req[r].rev, NEW k \in Pending(req[r])
  PROVE  k \in Accepted(req[r]) <=> Atomic!Current(req[r].plan.ops[k])
<1> DEFINE q == req[r]
           o == q.plan.ops[k]
           i == o.item
           row == q.rows[i]
<1>1. /\ q \in Request /\ TypeInv /\ InFlight(q, serverRevision, rows, feed)
      /\ rows \in [Items -> Row] /\ OrderInv /\ TablesAgree
  BY DEF StoreInv, OrderInv, TypeInv, TypeOK
<1>2. k \in DOMAIN q.plan.ops /\ o \in OpsOf(q)
  BY DEF Pending, Accepted, Rejected, OpsOf
<1>3. o \in Op /\ i \in Items /\ o.base \in Nat /\ o.kind \in {"upsert", "delete"}
  BY <1>1, <1>2, OpsOfType DEF Op
<1>4. row \in Row /\ row.rev \in Nat /\ rows[i].rev \in Nat
      /\ q.rev \in Nat /\ q.plan.baseRevision \in Nat
  <2>1. q.plan \in Plan
    BY <1>1, PlanType DEF Request
  <2> QED BY <1>1, <1>3, <2>1 DEF Request, Row, Plan
<1>5. rows[i] = row \/ rows[i].rev > o.base
  BY <1>2 DEF StoreInv, ConflictInv, ReadOrNewer
<1>6. k \in Accepted(q) => /\ row.rev = o.base /\ row.owner # "other"
                           /\ o.kind = "delete" => row.owner = "self"
  BY <1>1, AcceptedBase
<1>7. k \in Accepted(q) \/ Reason(q, o) # "none"
  BY DEF Pending, Rejected, Stale
<1>8. ~(q.plan.baseRevision > q.rev)
  <2>1. q.plan.baseRevision \in Nat /\ q.rev \in Nat /\ q.plan.baseRevision <= q.rev
    BY <1>4, Zenon
  <2> HIDE DEF q
  <2> QED BY ONLY <2>1
<1>9. /\ row.rev # o.base \/ (o.kind = "delete" /\ row.owner = "none")
      \/ Reason(q, o) = "none" \/ row.owner = "other"
  BY <1>3, <1>4, <1>8, ReasonIs
<1>10. o.item = i
  OBVIOUS
<1> HIDE DEF o, i, row
<1>11. Atomic!Current(o) <=> o.base = rows[i].rev /\ (o.kind = "delete" => rows[i].owner = "self")
  <2>1. /\ ItemStates[i].rev = rows[i].rev
        /\ rows[i].owner = "self" <=> ItemStates[i] # Atomic!Missing
    <3>1. /\ ItemStates[i] = [rev |-> rows[i].rev, deleted |-> rows[i].deleted,
                              mut |-> rows[i].mut]
          /\ rows[i].owner = "self" <=> ItemStates[i] # Atomic!Missing
      BY <1>3, MissingRow
    <3> QED BY ONLY <3>1
  <2> QED BY <1>10, <2>1 DEF Atomic!Current
<1>12. rows[i].owner \in {"none", "self"}
  BY <1>1, <1>3 DEF StoreInv, NobodyElsesRows, Row
<1>13. CASE k \in Accepted(q)
  <2>1. q.rev = serverRevision
    BY <1>1, <1>13, CommitIsCurrent DEF CommitBatch, HasStateWrite
  <2>2. Snapshot(q, serverRevision, rows, feed)
    BY <1>1 DEF InFlight
  <2>3. rows[i].rev <= o.base
    <3>1. CASE rows[i].owner = "none"
      <4>1. rows[i].rev = 0
        BY <1>3, <3>1, MissingRow
      <4> QED BY <1>3, <4>1
    <3>2. CASE rows[i].owner = "self"
      <4>1. PICK c \in feed : c.item = i /\ rows[i] = RowOf(c)
        BY <1>1, <1>3, <3>2, NewestChange
      <4>2. row.owner # "other" => \A d \in feed : d.item = i => d.rev <= row.rev
        BY <1>2, <2>1, <2>2 DEF Snapshot, o, i, row
      <4>3. c.rev <= row.rev
        BY <1>6, <1>13, <4>1, <4>2
      <4> QED BY <1>6, <1>13, <4>1, <4>3 DEF RowOf
    <3> QED BY <1>12, <3>1, <3>2
  <2>4. ~(rows[i].rev > o.base)
    BY <1>3, <1>4, <2>3
  <2> QED BY <1>5, <1>6, <1>11, <1>13, <2>4 DEF o
<1>14. CASE k \notin Accepted(q)
  <2>1. CASE rows[i].rev > o.base
    <3>1. o.base # rows[i].rev
      BY <1>3, <1>4, <2>1
    <3> QED BY <1>11, <1>14, <3>1 DEF o
  <2>2. CASE rows[i] = row
    BY <1>7, <1>9, <1>11, <1>12, <1>14, <2>2 DEF o
  <2> QED BY <1>5, <2>1, <2>2
<1> QED BY <1>13, <1>14

\* The verdicts that a batch adds.
LEMMA VerdictsWritten ==
  ASSUME NEW q \in Request, CommitBatch(q)
  PROVE  Verdicts' = Verdicts
           \cup {VerdictOf(AppliedReceipt(q, q.plan.ops[k])) : k \in Accepted(q)}
           \cup {VerdictOf(ConflictReceipt(q, q.plan.ops[k])) : k \in Rejected(q)}
BY DEF CommitBatch, NewReceipts, Verdicts

LEMMA BatchIsDecision ==
  ASSUME StoreInv, NEW r \in Requests, req[r].pc = "batch", CommitBatch(req[r])
  PROVE  Atomic!Next
<1> DEFINE q == req[r]
           p == req[r].plan
           S == OpsAt(p, Pending(q))
<1>1. /\ q \in Request /\ TypeInv /\ OrderInv /\ InFlight(q, serverRevision, rows, feed)
      /\ p \in Plans /\ ~p.legacy /\ serverRevision \in Nat
  BY DEF StoreInv, OrderInv, TypeInv, TypeOK, InFlight, ItemLevelPC
<1>2. Pending(q) \subseteq DOMAIN p.ops
  BY DEF Pending, Accepted, Rejected
<1>3. S \in OpSets
  BY <1>1, <1>2 DEF OpSets, OpsAt
<1>4. \A o \in S : o.mut # NoMutation
  <2>1. \A k \in DOMAIN p.ops : p.ops[k].mut \in Mutations
    BY <1>1, PlanType DEF WellFormed
  <2> QED BY <1>2, <2>1, StoreAssumption DEF OpsAt
<1>5. Atomic!Fresh(S)
  BY DEF Atomic!Fresh, CommitBatch, ReceiptTaken, OpsAt, Verdicts, VerdictOf
<1>6. Accepted(q) \cup Rejected(q) = Pending(q) /\ Accepted(q) \cap Rejected(q) = {}
  BY DEF Pending, Accepted, Rejected
<1>7. \/ Accepted(q) = {} /\ NoItemWritten
      \/ Lands(p, Accepted(q)) /\ q.rev = serverRevision /\ HasStateWrite(q)
  BY <1>1, CommitWrites
<1>8. p.baseRevision \in Nat /\ q.rev \in Nat
  BY <1>1, PlanType DEF Plan, Request
<1>9. CASE p.baseRevision > q.rev
  <2>1. \A k \in DOMAIN p.ops : Reason(q, p.ops[k]) = "invalid_server_revision"
    BY <1>9 DEF Reason
  <2>2. Accepted(q) = {} /\ Rejected(q) = Pending(q)
    BY <1>6, <2>1 DEF Accepted, Stale
  <2>3. NoItemWritten
    BY <1>7, <2>2 DEF HasStateWrite
  <2>4. \A k \in Rejected(q) : VerdictOf(ConflictReceipt(q, p.ops[k])) =
          [op |-> p.ops[k], status |-> "refused", rev |-> 0]
    BY <1>2, <2>1, <2>2 DEF VerdictOf, ConflictReceipt
  <2>5. Verdicts' = Verdicts
          \cup {VerdictOf(ConflictReceipt(q, p.ops[k])) : k \in Rejected(q)}
    BY <1>1, <2>2, VerdictsWritten
  <2>6. {VerdictOf(ConflictReceipt(q, p.ops[k])) : k \in Rejected(q)}
          = Atomic!Unapplied(S, "refused")
    BY <2>2, <2>4 DEF Atomic!Unapplied, OpsAt
  <2>7. Atomic!Refuse(S)
    BY <1>5, <2>3, <2>5, <2>6 DEF Atomic!Refuse, NoItemWritten, ItemStates
  <2> QED BY <1>3, <1>4, <2>7 DEF Atomic!Next
<1>10. CASE p.baseRevision <= q.rev
  <2> DEFINE applied == {o \in S : Atomic!Current(o)}
  <2>1. \A k \in Pending(q) : k \in Accepted(q) <=> Atomic!Current(p.ops[k])
    BY <1>10, DecidedAsCurrent
  <2>2. applied = OpsAt(p, Accepted(q))
    BY <1>6, <2>1 DEF OpsAt
  <2>3. S \ applied = OpsAt(p, Rejected(q))
    BY <1>6, <2>1 DEF OpsAt
  <2>4. Atomic!Write(applied)
    <3>1. CASE Accepted(q) = {} /\ NoItemWritten
      <4>1. applied = {}
        BY <2>2, <3>1 DEF OpsAt
      <4> HIDE DEF applied
      <4> QED BY <3>1, <4>1 DEF Atomic!Write, NoItemWritten, ItemStates
    <3>2. CASE Lands(p, Accepted(q)) /\ HasStateWrite(q)
      <4>1. Accepted(q) \in SUBSET DOMAIN p.ops /\ Accepted(q) # {}
        BY <1>2, <1>6, <3>2 DEF HasStateWrite
      <4>2. Atomic!Write(OpsAt(p, Accepted(q)))
        BY <1>1, <3>2, <4>1, LandsIsWrite
      <4> HIDE DEF applied
      <4> QED BY <2>2, <4>2
    <3> QED BY <1>7, <3>1, <3>2
  <2>5. \A k \in Accepted(q) : VerdictOf(AppliedReceipt(q, p.ops[k])) =
          [op |-> p.ops[k], status |-> "applied", rev |-> serverRevision + 1]
    BY <1>7 DEF VerdictOf, AppliedReceipt, NewRevision
  <2>6. \A k \in Rejected(q) : VerdictOf(ConflictReceipt(q, p.ops[k])) =
          [op |-> p.ops[k], status |-> "conflict", rev |-> 0]
    <3>1. ~(p.baseRevision > q.rev)
      BY <1>8, <1>10
    <3>2. \A k \in Rejected(q) : Reason(q, p.ops[k]) # "invalid_server_revision"
      BY <3>1, Zenon DEF Reason
    <3> QED BY <3>2 DEF VerdictOf, ConflictReceipt
  <2>7. {VerdictOf(AppliedReceipt(q, p.ops[k])) : k \in Accepted(q)}
          = Atomic!Applied(OpsAt(p, Accepted(q)))
    BY <2>5 DEF Atomic!Applied, OpsAt
  <2>8. {VerdictOf(ConflictReceipt(q, p.ops[k])) : k \in Rejected(q)}
          = Atomic!Unapplied(OpsAt(p, Rejected(q)), "conflict")
    BY <2>6 DEF Atomic!Unapplied, OpsAt
  <2>9. Verdicts' = Verdicts \cup Atomic!Applied(applied)
                             \cup Atomic!Unapplied(S \ applied, "conflict")
    BY <1>1, <2>2, <2>3, <2>7, <2>8, VerdictsWritten
  <2>10. Atomic!Decide(S)
    <3> HIDE DEF S
    <3> QED BY <1>5, <2>4, <2>9 DEF Atomic!Decide
  <2> QED BY <1>3, <1>4, <2>10 DEF Atomic!Next
<1> QED BY <1>8, <1>9, <1>10

----------------------------------------------------------------------------
(* The whole-envelope batch overwrites.                                     *)

LEMMA LegacyBatchIsOverwrite ==
  ASSUME StoreInv, NEW r \in Requests, req[r].pc = "legacyBatch",
         LegacyCommitBatch(req[r])
  PROVE  Atomic!Next
<1> DEFINE p == req[r].plan
           S == OpsAt(p, DOMAIN p.ops)
           ks == LegacyWrites(p)
           written == {o \in S : o.kind = "delete" => ItemStates[o.item] # Atomic!Missing}
<1>1. /\ OrderInv /\ p \in Plans /\ p.legacy
      /\ Lands(p, ks) /\ receipts' = receipts
  BY LegacyCommitWrites DEF StoreInv, OrderInv, InFlight, LegacyPC
<1>2. \A k \in DOMAIN p.ops : p.ops[k].item \in Items /\ p.ops[k].kind \in {"upsert", "delete"}
                              /\ p.ops[k].mut = NoMutation
  BY <1>1, PlanType DEF Op, WellFormed
<1>3. S \in OpSets /\ \A o \in S : o.mut = NoMutation
  BY <1>1, <1>2 DEF OpSets, OpsAt
<1>4. ks \in SUBSET DOMAIN p.ops
  BY DEF LegacyWrites
<1>5. \A k \in DOMAIN p.ops :
        k \in ks <=> (p.ops[k].kind = "delete" => ItemStates[p.ops[k].item] # Atomic!Missing)
  BY <1>2, MissingRow DEF LegacyWrites
<1>6. written = OpsAt(p, ks)
  <2> HIDE DEF ks
  <2> QED BY <1>4, <1>5 DEF OpsAt
<1>7. /\ serverRevision' = serverRevision + 1 /\ Verdicts' = Verdicts
      /\ IF written = {} THEN UNCHANGED ItemStates ELSE Atomic!Write(written)
  <2>1. /\ ks # {} => Atomic!Write(OpsAt(p, ks))
        /\ ks = {} => ItemStates' = ItemStates
    <3> HIDE DEF ks
    <3> QED BY <1>1, <1>4, LandsIsWrite
  <2>2. OpsAt(p, ks) = {} <=> ks = {}
    BY DEF OpsAt
  <2> HIDE DEF written, ks
  <2> QED BY <1>1, <1>6, <2>1, <2>2 DEF Lands, Verdicts
<1>8. Atomic!Overwrite(S)
  <2> HIDE DEF S
  <2> QED BY <1>7 DEF Atomic!Overwrite
<1> QED BY <1>3, <1>8 DEF Atomic!Next

----------------------------------------------------------------------------
(* Every step.                                                              *)

LEMMA StepIsAtomic ==
  ASSUME SharedIds = {}, StoreInv, [Next]_vars
  PROVE  [Atomic!Next]_<<serverRevision, ItemStates, Verdicts>>
<1>1. CASE UNCHANGED tables
  BY <1>1 DEF tables, ItemStates, Verdicts
<1> QED BY <1>1, BatchIsDecision, LegacyBatchIsOverwrite, TablesChange

\* The store is linearizable to one compare-and-set per batch: every push, with
\* the reads that come before its transaction and the retries that follow it,
\* is one decision on the items as they are at one instant, or nothing.
THEOREM StoreIsAtomic ==
  ASSUME SharedIds = {}
  PROVE  Spec => ImplementsAtomicStore
<1>1. Init => OrderInv /\ TablesAgree /\ ConflictInv /\ Atomic!Init
  <2>1. Init => Atomic!Init
    BY DEF Init, Atomic!Init, Atomic!Missing, ItemStates, Verdicts, NoRow
  <2> QED BY <2>1, OrderInit, AgreeInit, ConflictInit
<1>2. OrderInv /\ TablesAgree /\ ConflictInv /\ [Next]_vars
        => (OrderInv /\ TablesAgree /\ ConflictInv)'
  BY OrderStep, AgreeStep, ConflictStep
<1>3. OrderInv /\ TablesAgree /\ ConflictInv /\ (\A i \in Items : rows[i].owner # "other")
        /\ [Next]_vars => [Atomic!Next]_<<serverRevision, ItemStates, Verdicts>>
  BY StepIsAtomic DEF StoreInv, NobodyElsesRows
<1> QED BY <1>1, <1>2, <1>3, NobodyElse, PTL DEF Spec, ImplementsAtomicStore, Atomic!Spec

=============================================================================
