------------------------ MODULE ItemSyncStoreProofs ------------------------
(***************************************************************************)
(* Type correctness and the order of revisions, proved for every number of *)
(* requests, items, plans and attempts: revisions and cursors advance      *)
(* together, no update is lost, and a mutation is decided once.            *)
(*                                                                         *)
(* The argument.  A batch that writes state carries the claim on revision  *)
(* q.rev + 1, which is free only if q.rev is still the account's revision. *)
(* Everything the request read before that was read at this very revision, *)
(* so no change of an item is later than the row that was read of it.      *)
(***************************************************************************)
EXTENDS ItemSyncStore, WellFoundedInduction, TLAPS

----------------------------------------------------------------------------
(* Facts about data.                                                        *)

\* A non-empty set of naturals with an upper bound has a greatest element: it
\* is what makes the CHOOSE in PageEnd and Applied denote.
LEMMA MaximumExists ==
  ASSUME NEW N \in Nat, NEW T \in SUBSET Nat, T # {}, \A t \in T : t <= N
  PROVE  \E m \in T : \A t \in T : t <= m
<1> DEFINE R == {ss \in Nat \X Nat : ss[1] < ss[2]}
           U == {N - t : t \in T}
<1>1. IsWellFoundedOn(R, Nat)
  BY NatLessThanWellFounded DEF OpToRel
<1>2. U \subseteq Nat /\ U # {}
  <2>1. \A t \in T : N - t \in Nat
    OBVIOUS
  <2>2. PICK t \in T : TRUE
    OBVIOUS
  <2>3. N - t \in U
    BY <2>2
  <2> QED BY <2>1, <2>3
<1>3. \E x \in U : \A y \in U : ~(<<y, x>> \in R)
  <2> HIDE DEF R, U
  <2> QED BY <1>1, <1>2, WFMin
<1>4. PICK x \in U : \A y \in U : ~(<<y, x>> \in R)
  BY <1>3
<1>5. PICK m \in T : x = N - m
  OBVIOUS
<1>6. ASSUME NEW t \in T PROVE t <= m
  <2>1. N - t \in U
    OBVIOUS
  <2>2. ~(<<N - t, x>> \in R)
    BY <1>4, <2>1
  <2>3. N - t \in Nat /\ x \in Nat /\ t \in Nat /\ m \in Nat
    BY <1>2, <2>1
  <2>4. ~(N - t < x)
    BY <2>2, <2>3
  <2> QED BY <1>5, <2>3, <2>4
<1> QED BY <1>6

\* A request's plan is well formed whenever it has one.
LEMMA PlanType ==
  ASSUME NEW p \in Plans \cup {NoPlan}
  PROVE  /\ p \in Plan
         /\ WellFormed(p)
         /\ \A k \in DOMAIN p.ops : p.ops[k] \in Op /\ k \in Nat
         /\ Len(p.ops) \in Nat
<1>1. NoPlan \in Plan /\ WellFormed(NoPlan)
  BY DEF NoPlan, Plan, WellFormed
<1>2. p \in Plan /\ WellFormed(p)
  BY <1>1, StoreAssumption
<1>3. p.ops \in Seq(Op)
  BY <1>2 DEF Plan
<1> QED BY <1>2, <1>3

\* The values requests and rows start from (a request not yet sent, an answer
\* not yet given, an id nobody has used) are of their types.
LEMMA IdleType == Idle \in Request /\ NoAnswer \in Answer /\ NoRow \in Row
<1>1. NoRow \in Row
  BY DEF NoRow, Row
<1>2. NoAnswer \in Answer
  BY DEF NoAnswer, Answer
<1>3. 1 \in 1..MaxAttempts
  BY StoreAssumption
<1> QED BY <1>1, <1>2, <1>3 DEF Idle, Request, PC

----------------------------------------------------------------------------
(* Type correctness.                                                        *)

TypeInv == TypeOK /\ \A c \in feed : c.cursor <= lastCursor

\* What a request decides from its reads is well typed.
LEMMA DecisionType ==
  ASSUME NEW q \in Request
  PROVE  /\ Accepted(q) \subseteq DOMAIN q.plan.ops
         /\ Rejected(q) \subseteq DOMAIN q.plan.ops
         /\ NewRevision(q) \in Nat
         /\ NewReceipts(q) \subseteq Receipt
         /\ AnswerTo(q) \in Answer
<1>1. q.plan \in Plans \cup {NoPlan} /\ q.rev \in Nat /\ q.rows \in [Items -> Row]
      /\ q.receipts \subseteq Receipt
  BY DEF Request
<1>2. \A k \in DOMAIN q.plan.ops : q.plan.ops[k] \in Op
  BY <1>1, PlanType
<1>3. Accepted(q) \subseteq DOMAIN q.plan.ops /\ Rejected(q) \subseteq DOMAIN q.plan.ops
  BY DEF Accepted, Rejected
<1>4. NewRevision(q) \in Nat
  BY <1>1 DEF NewRevision
<1>5. \A k \in Accepted(q) : AppliedReceipt(q, q.plan.ops[k]) \in Receipt
  BY <1>2, <1>3, <1>4 DEF AppliedReceipt, Receipt
<1>6. \A k \in Rejected(q) : ConflictReceipt(q, q.plan.ops[k]) \in Receipt
  <2> SUFFICES ASSUME NEW k \in Rejected(q)
               PROVE  ConflictReceipt(q, q.plan.ops[k]) \in Receipt
    OBVIOUS
  <2> DEFINE o == q.plan.ops[k]
  <2>1. o \in Op /\ o.item \in Items
    BY <1>2, <1>3 DEF Op
  <2>2. q.rows[o.item].rev \in Nat
    BY <1>1, <2>1 DEF Row
  <2>3. Reason(q, o) \in {"none", "invalid_server_revision", "item_owner_mismatch",
                         "item_revision_mismatch", "item_revision_advanced"}
    BY DEF Reason
  <2> QED BY <2>1, <2>2, <2>3 DEF ConflictReceipt, Receipt
<1>7. NewReceipts(q) \subseteq Receipt
  BY <1>5, <1>6 DEF NewReceipts
<1>8. AnswerTo(q) \in Answer
  <2>1. {x \in q.receipts : x.status = "applied" /\ x.op \in OpsOf(q)}
          \cup {AppliedReceipt(q, q.plan.ops[k]) : k \in Accepted(q)} \in SUBSET Receipt
    BY <1>1, <1>5
  <2>2. OpsOf(q) \subseteq Op
    BY <1>2 DEF OpsOf
  <2> QED BY <1>4, <2>1, <2>2 DEF AnswerTo, Answer
<1> QED BY <1>3, <1>4, <1>7, <1>8

\* The write statements of a batch keep the tables' types.
LEMMA WriteType ==
  ASSUME TypeInv, NEW p \in Plans \cup {NoPlan}, NEW ks \in SUBSET DOMAIN p.ops,
         NEW rev \in Nat, WriteOps(p, ks, rev)
  PROVE  /\ rows' \in [Items -> Row]
         /\ history' \subseteq Version
         /\ feed' \subseteq Change
         /\ lastCursor' \in Nat
         /\ \A c \in feed' : c.cursor <= lastCursor'
<1>1. \A k \in ks : p.ops[k] \in Op /\ k \in Nat /\ k <= Len(p.ops)
  <2>1. p.ops \in Seq(Op)
    BY PlanType DEF Plan
  <2> QED BY <2>1, PlanType
<1>2. Len(p.ops) \in Nat /\ lastCursor \in Nat
  BY PlanType DEF TypeInv, TypeOK
<1>3. rows' \in [Items -> Row]
  <2> SUFFICES ASSUME NEW i \in Items, NEW o \in Op
               PROVE  RowAfter(p, rows[i], o, rev) \in Row
    <3>1. \A i \in Items : rows[i] \in Row
      BY DEF TypeInv, TypeOK
    <3>2. \A i \in Items : (\E k \in ks : p.ops[k].item = i) =>
            (CHOOSE k \in ks : p.ops[k].item = i) \in ks
      OBVIOUS
    <3> QED BY <1>1, <3>1, <3>2 DEF WriteOps
  <2>1. rows[i] \in Row
    BY DEF TypeInv, TypeOK
  <2> QED BY ONLY <2>1, o \in Op, rev \in Nat DEF RowAfter, Row, Op
<1>4. history' \subseteq Version
  BY <1>1 DEF WriteOps, Version, Op, TypeInv, TypeOK
<1>5. feed' \subseteq Change
  BY <1>1, <1>2 DEF WriteOps, Change, Op, TypeInv, TypeOK
<1>6. lastCursor' \in Nat /\ lastCursor <= lastCursor'
  BY <1>2 DEF WriteOps
<1>7. \A c \in feed' : c.cursor <= lastCursor'
  <2> SUFFICES ASSUME NEW c \in feed' PROVE c.cursor <= lastCursor'
    OBVIOUS
  <2>1. CASE c \in feed
    <3>1. c.cursor \in Nat /\ c.cursor <= lastCursor
      BY <2>1 DEF TypeInv, TypeOK, Change
    <3> QED BY <1>2, <1>6, <3>1
  <2>2. CASE c \notin feed
    <3>1. PICK k \in ks : c.cursor = lastCursor + k
      BY <2>2 DEF WriteOps
    <3>2. lastCursor' = lastCursor + Len(p.ops)
      BY <3>1 DEF WriteOps
    <3> QED BY <1>1, <1>2, <3>1, <3>2
  <2> QED BY <2>1, <2>2
<1> QED BY <1>3, <1>4, <1>5, <1>6, <1>7

\* A step of one request to a well-typed state.
LEMMA RequestStepType ==
  ASSUME TypeInv, NEW r \in Requests, NEW q \in Request, Step(r, q)
  PROVE  req' \in [Requests -> Request]
BY DEF Step, TypeInv, TypeOK

TablesType ==
  /\ serverRevision \in Nat
  /\ claims \subseteq Nat
  /\ rows \in [Items -> Row]
  /\ history \subseteq Version
  /\ feed \subseteq Change
  /\ lastCursor \in Nat
  /\ receipts \subseteq Receipt
  /\ \A c \in feed : c.cursor <= lastCursor

\* The transaction of a push, item-level or whole-envelope, keeps every table
\* well typed and every change at or below the feed's last cursor.
LEMMA BatchType ==
  ASSUME TypeInv, NEW q \in Request, CommitBatch(q) \/ LegacyCommitBatch(q)
  PROVE  TablesType'
<1>1. q.plan \in Plans \cup {NoPlan} /\ q.rev \in Nat
  BY DEF Request
<1>2. CASE CommitBatch(q)
  <2>1. WriteOps(q.plan, Accepted(q), NewRevision(q))
    BY <1>2 DEF CommitBatch
  <2>2. Accepted(q) \in SUBSET DOMAIN q.plan.ops /\ NewRevision(q) \in Nat
        /\ NewReceipts(q) \subseteq Receipt
    BY DecisionType
  <2> QED BY <1>1, <1>2, <2>1, <2>2, WriteType DEF CommitBatch, TablesType, TypeInv, TypeOK
<1>3. CASE LegacyCommitBatch(q)
  <2>1. WriteOps(q.plan, LegacyWrites(q.plan), q.rev + 1)
    BY <1>3 DEF LegacyCommitBatch
  <2>2. LegacyWrites(q.plan) \in SUBSET DOMAIN q.plan.ops /\ q.rev + 1 \in Nat
    BY <1>1 DEF LegacyWrites
  <2> QED BY <1>1, <1>3, <2>1, <2>2, WriteType
          DEF LegacyCommitBatch, TablesType, TypeInv, TypeOK
<1> QED BY <1>2, <1>3

\* Every push action leaves requests and tables well typed.
LEMMA PushType ==
  ASSUME TypeInv, NEW r \in Requests, Push(r) \/ LegacyPush(r)
  PROVE  TypeInv'
<1>1. req[r] \in Request /\ Idle \in Request /\ NoAnswer \in Answer
  BY IdleType DEF TypeInv, TypeOK
<1>2. serverRevision \in Nat /\ RowsOf(req[r]) \in [Items -> Row]
      /\ ReceiptsOf(req[r]) \subseteq Receipt
  BY IdleType DEF TypeInv, TypeOK, RowsOf, ReceiptsOf
<1>3. reader' = reader
  BY DEF Push, LegacyPush, Submit, ReadUser, ReadRows, ReadReceipts, NothingToWrite,
         Commit, CommitUnacknowledged, BatchRolledBack, RecheckRevision,
         RecheckReceipts, Leave, ReadOwners, LegacyCommit, LegacyRolledBack,
         LegacyCommitUnacknowledged, LegacyRecheck
<1>4. ASSUME NEW q \in Request, Step(r, q), TablesType'
      PROVE  TypeInv'
  BY <1>3, <1>4, RequestStepType DEF TypeInv, TypeOK, TablesType
<1>5. ASSUME NEW q \in Request, Step(r, q), UNCHANGED tables
      PROVE  TypeInv'
  <2>1. TablesType'
    BY <1>5 DEF TablesType, tables, TypeInv, TypeOK
  <2> QED BY <1>4, <1>5, <2>1
<1>6. ASSUME NEW a \in Answer
      PROVE  [Idle EXCEPT !.pc = "done", !.plan = req[r].plan, !.answer = a] \in Request
  BY <1>1 DEF Request, PC
<1>7. [Idle EXCEPT !.pc = "failed", !.plan = req[r].plan,
                   !.answer = [NoAnswer EXCEPT !.status = "error"]] \in Request
  BY <1>1 DEF Request, PC, Answer
<1>8. ASSUME NEW p \in PC PROVE [req[r] EXCEPT !.pc = p] \in Request
  BY <1>1 DEF Request
<1>9. CASE NextAttempt(r) /\ UNCHANGED tables
  <2>1. CASE req[r].attempt < MaxAttempts
    <3>1. req[r].attempt + 1 \in 1..MaxAttempts
      BY <1>1, <2>1, StoreAssumption DEF Request
    <3>2. [Idle EXCEPT !.pc = "user", !.plan = req[r].plan,
                       !.attempt = req[r].attempt + 1] \in Request
      BY <1>1, <3>1 DEF Request, PC
    <3> QED BY <1>5, <1>9, <2>1, <3>2 DEF NextAttempt
  <2>2. CASE ~(req[r].attempt < MaxAttempts)
    BY <1>5, <1>7, <1>9, <2>2 DEF NextAttempt, Fail
  <2> QED BY <2>1, <2>2
<1>10. CASE Submit(r)
  <2>1. PICK p \in Plans : Step(r, [Idle EXCEPT !.pc = "user", !.plan = p])
    BY <1>10 DEF Submit
  <2>2. [Idle EXCEPT !.pc = "user", !.plan = p] \in Request
    BY <1>1 DEF Request, PC
  <2> QED BY <1>5, <1>10, <2>1, <2>2 DEF Submit
<1>11. CASE ReadUser(r)
  <2>1. [req[r] EXCEPT !.rev = serverRevision,
            !.pc = IF req[r].plan.legacy THEN "owners" ELSE "rows"] \in Request
    BY <1>1, <1>2 DEF Request, PC
  <2> QED BY <1>5, <1>11, <2>1 DEF ReadUser
<1>12. CASE ReadRows(r)
  <2>1. [req[r] EXCEPT !.rows = RowsOf(req[r]), !.pc = "receipts"] \in Request
    BY <1>1, <1>2 DEF Request, PC
  <2> QED BY <1>5, <1>12, <2>1 DEF ReadRows
<1>13. CASE ReadReceipts(r)
  <2>1. [req[r] EXCEPT !.receipts = ReceiptsOf(req[r]), !.pc = "batch"] \in Request
    BY <1>1, <1>2 DEF Request, PC
  <2> QED BY <1>5, <1>13, <2>1 DEF ReadReceipts
<1>14. CASE NothingToWrite(r)
  BY <1>1, <1>5, <1>6, <1>14, DecisionType DEF NothingToWrite, Reply
<1>15. CASE Commit(r)
  BY <1>1, <1>4, <1>6, <1>15, DecisionType, BatchType DEF Commit, Reply
<1>16. CASE CommitUnacknowledged(r)
  BY <1>1, <1>4, <1>8, <1>16, BatchType DEF CommitUnacknowledged, PC
<1>17. CASE BatchRolledBack(r)
  BY <1>5, <1>8, <1>17 DEF BatchRolledBack, PC
<1>18. CASE RecheckRevision(r)
  BY <1>5, <1>8, <1>9, <1>18 DEF RecheckRevision, PC
<1>19. CASE RecheckReceipts(r)
  BY <1>5, <1>7, <1>9, <1>19 DEF RecheckReceipts, Fail
<1>20. CASE Leave(r)
  BY <1>1, <1>5, <1>20 DEF Leave
<1>21. ASSUME NEW n \in Nat, NEW st \in {"ok", "sync_conflict"}
       PROVE  [NoAnswer EXCEPT !.status = st, !.rev = n] \in Answer
  BY <1>1 DEF Answer
<1>22. req[r].rev \in Nat /\ req[r].rev + 1 \in Nat
  BY <1>1 DEF Request
<1>23. CASE ReadOwners(r)
  BY <1>5, <1>6, <1>7, <1>8, <1>21, <1>22, <1>23 DEF ReadOwners, Fail, Reply, PC
<1>24. CASE LegacyCommit(r)
  BY <1>1, <1>4, <1>6, <1>21, <1>22, <1>24, BatchType DEF LegacyCommit, Reply
<1>25. CASE LegacyCommitUnacknowledged(r)
  BY <1>1, <1>4, <1>8, <1>25, BatchType DEF LegacyCommitUnacknowledged, PC
<1>26. CASE LegacyRolledBack(r)
  BY <1>5, <1>8, <1>26 DEF LegacyRolledBack, PC
<1>27. CASE LegacyRecheck(r)
  BY <1>2, <1>5, <1>6, <1>7, <1>21, <1>27 DEF LegacyRecheck, Fail, Reply
<1> QED BY <1>10, <1>11, <1>12, <1>13, <1>14, <1>15, <1>16, <1>17, <1>18, <1>19,
           <1>20, <1>23, <1>24, <1>25, <1>26, <1>27 DEF Push, LegacyPush


\* A page of the feed moves a reader to a cursor of the feed, and leaves every
\* entry of its view typed.
LEMMA PageType ==
  ASSUME TypeInv, NEW view \in [Items -> Entry], NEW cursor \in Nat
  PROVE  /\ PageEnd(cursor, Page(cursor)) \in Nat
         /\ Applied(view, Readable(Page(cursor))) \in [Items -> Entry]
<1> DEFINE page == Page(cursor)
           shown == Readable(page)
<1>1. page \subseteq feed /\ shown \subseteq page
  BY DEF Page, After, Readable
<1>2. lastCursor \in Nat /\ \A c \in page : c \in Change /\ c.cursor <= lastCursor
  BY <1>1 DEF TypeInv, TypeOK
<1>3. PageEnd(cursor, page) \in Nat
  <2> HIDE DEF page
  <2> DEFINE T == {c.cursor : c \in page}
  <2>1. CASE page = {}
    BY <2>1 DEF PageEnd
  <2>2. CASE page # {}
    <3>1. T \in SUBSET Nat /\ T # {} /\ \A t \in T : t <= lastCursor
      BY <1>2, <2>2 DEF Change
    <3>2. \E m \in T : \A t \in T : t <= m
      <4> HIDE DEF T
      <4> QED BY <1>2, <3>1, MaximumExists
    <3>3. \E n \in T : \A c \in page : c.cursor <= n
      BY <3>2
    <3>4. (CHOOSE n \in T : \A c \in page : c.cursor <= n) \in T
      <4> HIDE DEF T
      <4> QED BY <3>3
    <3> QED BY <2>2, <3>1, <3>4 DEF PageEnd
  <2> QED BY <2>1, <2>2
<1>4. ASSUME NEW i \in Items, \E c \in shown : c.item = i
      PROVE  \E c \in shown : /\ c.item = i
                             /\ \A b \in shown : b.item = i => b.cursor <= c.cursor
  <2> HIDE DEF page, shown
  <2> DEFINE T == {c.cursor : c \in {b \in shown : b.item = i}}
  <2>1. T \in SUBSET Nat /\ T # {} /\ \A t \in T : t <= lastCursor
    BY <1>1, <1>2, <1>4 DEF Change
  <2>2. \E m \in T : \A t \in T : t <= m
    <3> HIDE DEF T
    <3> QED BY <1>2, <2>1, MaximumExists
  <2> QED BY <2>2
<1>5. Applied(view, shown) \in [Items -> Entry]
  <2> HIDE DEF page, shown
  <2>1. ASSUME NEW c \in shown
        PROVE  [rev |-> c.rev, deleted |-> c.kind = "delete", mut |-> c.mut] \in Entry
    BY <1>1, <1>2, <2>1 DEF Change, Entry
  <2>2. ASSUME NEW i \in Items, \E c \in shown : c.item = i
        PROVE  (CHOOSE c \in shown : /\ c.item = i
                  /\ \A b \in shown : b.item = i => b.cursor <= c.cursor) \in shown
    BY <1>4, <2>2
  <2> QED BY <2>1, <2>2 DEF Applied
<1> QED BY <1>3, <1>5

\* Pulls read tables and change only their reader.
LEMMA PullType ==
  ASSUME TypeInv, NEW d \in Readers, Pull(d)
  PROVE  TypeInv'
<1>1. reader[d] \in Reader /\ serverRevision \in Nat /\ rows \in [Items -> Row]
  BY DEF TypeInv, TypeOK
<1>2. UNCHANGED <<tables, req>>
  BY DEF Pull, PullReadUser, PullReadPage, VaultReadUser, VaultReadLive, VaultReadDeleted
<1>3. SUFFICES reader' \in [Readers -> Reader]
  BY <1>2 DEF TypeInv, TypeOK, tables
<1>4. ASSUME NEW x \in Reader, reader' = [reader EXCEPT ![d] = x]
      PROVE  reader' \in [Readers -> Reader]
  BY <1>4 DEF TypeInv, TypeOK
<1>5. CASE PullReadUser(d)
  BY <1>1, <1>5 DEF PullReadUser, Reader, TypeInv, TypeOK
<1>6. CASE PullReadPage(d)
  <2> DEFINE page == Page(reader[d].cursor)
  <2>1. reader[d].view \in [Items -> Entry] /\ reader[d].cursor \in Nat
    BY <1>1 DEF Reader
  <2>2. PageEnd(reader[d].cursor, page) \in Nat
        /\ Applied(reader[d].view, Readable(page)) \in [Items -> Entry]
    BY <2>1, PageType
  <2>3. HasMore(reader[d].cursor, page) \in BOOLEAN
    BY DEF HasMore
  <2>4. reader' = [reader EXCEPT
           ![d].pc = "pulled",
           ![d].hasMore = HasMore(reader[d].cursor, page),
           ![d].cursor = PageEnd(reader[d].cursor, page),
           ![d].view = Applied(@, Readable(page))]
    BY <1>6 DEF PullReadPage
  <2> HIDE DEF page
  <2> QED BY <1>1, <2>2, <2>3, <2>4 DEF Reader, TypeInv, TypeOK
<1>7. CASE VaultReadUser(d)
  BY <1>1, <1>7 DEF VaultReadUser, Reader, TypeInv, TypeOK
<1>8. CASE VaultReadLive(d)
  <2>1. {[item |-> i, rev |-> rows[i].rev, mut |-> rows[i].mut] :
           i \in {j \in Items : rows[j].owner = "self" /\ ~rows[j].deleted}}
          \in SUBSET Version
    BY <1>1 DEF Row, Version
  <2> QED BY <1>1, <1>8, <2>1 DEF VaultReadLive, Reader, TypeInv, TypeOK
<1>9. CASE VaultReadDeleted(d)
  BY <1>1, <1>9 DEF VaultReadDeleted, Reader, TypeInv, TypeOK
<1> QED BY <1>5, <1>6, <1>7, <1>8, <1>9 DEF Pull

\* Type correctness: whatever requests, crashes and pulls interleave, no table
\* holds a row of a shape the code does not write, no request retries more than
\* MAX_SYNC_REVISION_RETRIES times, and a reader's cursor and view are the feed's.
THEOREM TypeCorrect == Spec => []TypeOK
<1>1. Init => TypeInv
  <2> SUFFICES ASSUME Init PROVE TypeInv
    OBVIOUS
  <2>1. NewReader \in Reader
    BY DEF NewReader, Reader, NoEntry, Entry
  <2> QED BY <2>1, IdleType DEF Init, TypeInv, TypeOK
<1>2. TypeInv /\ [Next]_vars => TypeInv'
  <2> SUFFICES ASSUME TypeInv, [Next]_vars PROVE TypeInv'
    OBVIOUS
  <2>1. ASSUME NEW r \in Requests, Push(r) \/ LegacyPush(r) PROVE TypeInv'
    BY <2>1, PushType
  <2>2. ASSUME NEW d \in Readers, Pull(d) PROVE TypeInv'
    BY <2>2, PullType
  <2>3. ASSUME NEW i \in SharedIds, ForeignCreate(i) PROVE TypeInv'
    <3>1. [NoRow EXCEPT !.owner = "other", !.rev = 1] \in Row
      BY IdleType DEF Row
    <3>2. rows' \in [Items -> Row]
      BY <2>3, <3>1 DEF ForeignCreate, TypeInv, TypeOK
    <3> QED BY <2>3, <3>2 DEF ForeignCreate, TypeInv, TypeOK
  <2>4. CASE UNCHANGED vars
    BY <2>4 DEF vars, tables, TypeInv, TypeOK
  <2> QED BY <2>1, <2>2, <2>3, <2>4 DEF Next
<1> QED BY <1>1, <1>2, PTL DEF Spec, TypeInv

----------------------------------------------------------------------------
(* The invariant of the order.                                              *)

ItemLevelPC == {"rows", "receipts", "batch", "recheckRevision", "recheckReceipts"}
LegacyPC == {"owners", "legacyBatch", "legacyRecheck"}

\* Rows, changes and receipts are never ahead of the account's revision, and no
\* change is ahead of the row of its item.
Bounded ==
  /\ \A i \in Items : rows[i].owner # "other" => rows[i].rev <= serverRevision
  /\ \A c \in feed : rows[c.item].owner # "other" => c.rev <= rows[c.item].rev
  /\ \A x \in receipts : x.status = "applied" => x.rev <= serverRevision

\* The rows a request has read are those of its revision, for as long as it is
\* the account's revision n; items and changes are vault_items and the feed.
Snapshot(q, n, items, changes) ==
  \A o \in OpsOf(q) :
    /\ q.rows[o.item].owner # "other" => q.rows[o.item].rev <= n
    /\ q.rev = n =>
         /\ q.rows[o.item].owner = "self" => items[o.item] = q.rows[o.item]
         /\ q.rows[o.item].owner # "other" =>
              \A c \in changes : c.item = o.item => c.rev <= q.rows[o.item].rev

InFlight(q, n, items, changes) ==
  /\ q.rev <= n
  /\ q.pc \in ItemLevelPC => q.plan \in Plans /\ ~q.plan.legacy
  /\ q.pc \in LegacyPC => q.plan \in Plans /\ q.plan.legacy
  /\ q.pc = "user" => q.plan \in Plans
  /\ q.pc \in {"receipts", "batch"} => Snapshot(q, n, items, changes)

OrderInv ==
  /\ TypeInv
  /\ RevisionsInOrder
  /\ Bounded
  /\ \A r \in Requests : InFlight(req[r], serverRevision, rows, feed)

----------------------------------------------------------------------------
(* The write batch.                                                         *)

\* A batch that writes no item leaves the item tables alone.
LEMMA NothingWritten ==
  ASSUME TypeInv, NEW p, NEW rev, WriteOps(p, {}, rev)
  PROVE  rows' = rows /\ feed' = feed /\ lastCursor' = lastCursor
<1>1. rows \in [Items -> Row]
  BY DEF TypeInv, TypeOK
<1> QED BY <1>1 DEF WriteOps

\* The change that position k of plan p appends to a feed that ends at n.
ChangeAt(p, k, rev, n) ==
  [cursor |-> n + k, item |-> p.ops[k].item, kind |-> p.ops[k].kind,
   rev |-> rev, mut |-> p.ops[k].mut, strict |-> p.ops[k].strict]

\* What a batch adds to the feed: later cursors, the new revision, and the
\* operations at the positions it writes.
LEMMA ChangesWritten ==
  ASSUME TypeInv, NEW p \in Plans \cup {NoPlan}, NEW ks \in SUBSET DOMAIN p.ops,
         NEW rev \in Nat, WriteOps(p, ks, rev)
  PROVE  /\ feed \subseteq feed'
         /\ \A c \in feed' \ feed :
              /\ c.cursor \in Nat /\ lastCursor < c.cursor /\ c.cursor <= lastCursor'
              /\ c.rev = rev
         /\ \A c \in feed' \ feed : \E k \in ks :
              c.item = p.ops[k].item /\ c.mut = p.ops[k].mut
         /\ \A c \in feed' \ feed : \E k \in ks : c = ChangeAt(p, k, rev, lastCursor)
         /\ \A k \in ks : ChangeAt(p, k, rev, lastCursor) \in feed'
<1>1. \A k \in ks : k \in Nat /\ 1 <= k /\ k <= Len(p.ops)
  <2>1. p.ops \in Seq(Op)
    BY PlanType DEF Plan
  <2> QED BY <2>1
<1>2. lastCursor \in Nat /\ Len(p.ops) \in Nat
  BY PlanType DEF TypeInv, TypeOK
<1>3. feed' = feed \cup {ChangeAt(p, k, rev, lastCursor) : k \in ks}
  BY DEF WriteOps, ChangeAt
<1>4. ASSUME NEW c \in feed' \ feed
      PROVE  /\ c.cursor \in Nat /\ lastCursor < c.cursor /\ c.cursor <= lastCursor'
             /\ c.rev = rev
             /\ \E k \in ks : c.item = p.ops[k].item /\ c.mut = p.ops[k].mut
  <2>1. PICK k \in ks : c = ChangeAt(p, k, rev, lastCursor)
    BY <1>3
  <2>2. lastCursor' = lastCursor + Len(p.ops)
    BY <2>1 DEF WriteOps
  <2> QED BY <1>1, <1>2, <2>1, <2>2 DEF ChangeAt
<1>5. \A c \in feed' \ feed : \E k \in ks : c = ChangeAt(p, k, rev, lastCursor)
  BY <1>3
<1>6. feed \subseteq feed' /\ \A k \in ks : ChangeAt(p, k, rev, lastCursor) \in feed'
  BY <1>3
<1> QED BY <1>4, <1>5, <1>6

\* A row after a batch: as it was, or of the new revision; a row of the other
\* account stays one.
LEMMA RowsWritten ==
  ASSUME TypeInv, NEW p \in Plans \cup {NoPlan}, NEW ks \in SUBSET DOMAIN p.ops,
         NEW rev \in Nat, WriteOps(p, ks, rev), NEW i \in Items
  PROVE  /\ rows'[i] = rows[i] \/ (rows'[i].rev = rev /\ rows'[i].owner = "self")
         /\ rows[i].owner = "other" => rows'[i] = rows[i]
BY DEF WriteOps, RowAfter

\* Position k writes to a row of this account as it read it, or is an upsert.
Overwrites(p, k) ==
  \/ p.ops[k].kind = "upsert"
  \/ /\ rows[p.ops[k].item].owner = "self"
     /\ p.legacy \/ rows[p.ops[k].item].rev = p.ops[k].base

\* A position that is written to a row of this account, or by an upsert to no
\* row at all, leaves the row at the new revision.
LEMMA RowWritten ==
  ASSUME TypeInv, NEW p \in Plans \cup {NoPlan}, NEW ks \in SUBSET DOMAIN p.ops,
         NEW rev \in Nat, WriteOps(p, ks, rev), NEW k \in ks, Overwrites(p, k),
         rows[p.ops[k].item].owner # "other"
  PROVE  rows'[p.ops[k].item].rev = rev /\ rows'[p.ops[k].item].owner = "self"
<1> DEFINE i == p.ops[k].item
<1>1. i \in Items /\ p.ops[k].kind \in {"upsert", "delete"}
  <2>1. p.ops[k] \in Op
    BY PlanType
  <2> QED BY ONLY <2>1 DEF Op
<1>2. \A j \in ks : p.ops[j].item = i => j = k
  BY PlanType DEF WellFormed
<1>3. (CHOOSE j \in ks : p.ops[j].item = i) = k
  BY <1>2
<1>4. rows'[i] = RowAfter(p, rows[i], p.ops[k], rev)
  BY <1>1, <1>3 DEF WriteOps
<1> QED BY <1>1, <1>4 DEF RowAfter, Overwrites

\* A batch at the revision after the account's keeps revisions, rows and feed
\* in order, if each change it writes has also written its row.
LEMMA OrderWritten ==
  ASSUME TypeInv, RevisionsInOrder, Bounded, TablesType',
         NEW p \in Plans \cup {NoPlan}, NEW ks \in SUBSET DOMAIN p.ops,
         WriteOps(p, ks, serverRevision + 1),
         serverRevision' = serverRevision + 1,
         claims' = claims \cup {serverRevision + 1},
         \A x \in receipts' : x.status = "applied" => x.rev <= serverRevision + 1,
         \A k \in ks : Overwrites(p, k)
  PROVE  RevisionsInOrder' /\ Bounded'
<1> DEFINE n == serverRevision + 1
<1>1. serverRevision \in Nat /\ n \in Nat /\ lastCursor \in Nat
      /\ feed \subseteq Change /\ rows \in [Items -> Row]
  BY DEF TypeInv, TypeOK
<1>2. claims' = 1..serverRevision'
  BY <1>1 DEF RevisionsInOrder
<1>3. \A c \in feed : c.rev \in Nat /\ c.cursor \in Nat /\ c.cursor <= lastCursor
                      /\ c.rev \in 1..serverRevision /\ c.rev <= serverRevision
                      /\ c.item \in Items
  BY <1>1 DEF RevisionsInOrder, Change
<1>4. /\ feed \subseteq feed'
      /\ \A c \in feed' \ feed :
              /\ c.cursor \in Nat /\ lastCursor < c.cursor
              /\ c.rev = n
              /\ \E k \in ks : c.item = p.ops[k].item
  BY <1>1, ChangesWritten
<1>5. RevisionsInOrder'
  <2>1. ASSUME NEW c \in feed' PROVE c.rev \in claims' /\ c.cursor <= lastCursor'
    <3>1. c.cursor <= lastCursor'
      BY DEF TablesType
    <3>2. CASE c \in feed
      BY <3>1, <3>2 DEF RevisionsInOrder
    <3>3. CASE c \notin feed
      BY <1>4, <3>1, <3>3
    <3> QED BY <3>2, <3>3
  <2>2. ASSUME NEW b \in feed', NEW c \in feed', b.rev < c.rev
        PROVE  b.cursor < c.cursor
    <3>1. CASE b \in feed /\ c \in feed
      BY <2>2, <3>1 DEF RevisionsInOrder
    <3>2. CASE b \in feed /\ c \notin feed
      BY <1>1, <1>3, <1>4, <3>2
    <3>3. CASE b \notin feed
      <4>1. b.rev = n
        BY <1>4, <3>3
      <4>2. c.rev = n \/ (c.rev \in Nat /\ c.rev <= serverRevision)
        BY <1>3, <1>4
      <4> QED BY <1>1, <2>2, <4>1, <4>2
    <3> QED BY <3>1, <3>2, <3>3
  <2> QED BY <1>2, <2>1, <2>2 DEF RevisionsInOrder
<1>6. \A i \in Items : \/ rows'[i] = rows[i]
                       \/ rows'[i].rev = n /\ rows'[i].owner = "self"
  BY <1>1, RowsWritten
<1>7. \A i \in Items : rows'[i].owner # "other" => rows'[i].rev <= serverRevision'
  <2> SUFFICES ASSUME NEW i \in Items, rows'[i].owner # "other"
               PROVE  rows'[i].rev <= n
    OBVIOUS
  <2>1. rows[i].rev \in Nat
    BY <1>1 DEF Row
  <2>2. rows[i].owner # "other" => rows[i].rev <= serverRevision
    BY DEF Bounded
  <2> QED BY <1>1, <1>6, <2>1, <2>2
<1>8. ASSUME NEW c \in feed', rows'[c.item].owner # "other"
      PROVE  c.rev <= rows'[c.item].rev
  <2>1. CASE c \in feed
    <3>1. rows[c.item].owner # "other"
      BY <1>1, <1>3, <1>8, <2>1, RowsWritten
    <3>2. c.rev <= rows[c.item].rev
      BY <2>1, <3>1 DEF Bounded
    <3>3. c.rev <= n
      BY <1>1, <1>3, <2>1
    <3> QED BY <1>3, <1>6, <2>1, <3>2, <3>3
  <2>2. CASE c \notin feed
    <3>1. PICK k \in ks : c.item = p.ops[k].item
      BY <1>4, <2>2
    <3>2. c.item \in Items
      BY <3>1, PlanType DEF Op
    <3>3. rows[c.item].owner # "other"
      BY <1>1, <1>8, <3>2, RowsWritten
    <3>4. rows'[c.item].rev = n
      <4>1. Overwrites(p, k)
        OBVIOUS
      <4>2. rows[p.ops[k].item].owner # "other"
        BY ONLY <3>1, <3>3
      <4>3. TypeInv /\ n \in Nat /\ WriteOps(p, ks, n) /\ k \in ks
            /\ p \in Plans \cup {NoPlan} /\ ks \in SUBSET DOMAIN p.ops
        BY <1>1, <3>1, Zenon
      <4> HIDE DEF n
      <4>4. rows'[p.ops[k].item].rev = n
        BY ONLY <4>1, <4>2, <4>3, RowWritten
      <4> QED BY ONLY <3>1, <4>4
    <3> QED BY <1>1, <1>4, <2>2, <3>4
  <2> QED BY <2>1, <2>2
<1> QED BY <1>5, <1>7, <1>8 DEF Bounded

----------------------------------------------------------------------------
(* The requests in flight.                                                  *)

\* What a request has read stays good as long as the account's revision and the
\* rows of this account do, and does not matter once the revision has moved.
LEMMA InFlightKept ==
  ASSUME NEW q \in Request, NEW n \in Nat, NEW m \in Nat,
         NEW items, NEW items2, NEW changes, NEW changes2,
         InFlight(q, n, items, changes),
         \/ /\ m = n /\ changes2 = changes
            /\ \A i \in Items : items[i].owner = "self" => items2[i] = items[i]
         \/ m = n + 1
  PROVE  InFlight(q, m, items2, changes2)
<1>1. q.rev \in Nat /\ q.rows \in [Items -> Row] /\ q.plan \in Plans \cup {NoPlan}
  BY DEF Request
<1>2. \A o \in OpsOf(q) : o.item \in Items
  BY <1>1, PlanType DEF OpsOf, Op
<1>3. q.rev <= m
  BY <1>1 DEF InFlight
<1>4. ASSUME Snapshot(q, n, items, changes) PROVE Snapshot(q, m, items2, changes2)
  <2> SUFFICES ASSUME NEW o \in OpsOf(q)
               PROVE  /\ q.rows[o.item].owner # "other" => q.rows[o.item].rev <= m
                      /\ q.rev = m =>
                           /\ q.rows[o.item].owner = "self" => items2[o.item] = q.rows[o.item]
                           /\ q.rows[o.item].owner # "other" =>
                                \A c \in changes2 : c.item = o.item => c.rev <= q.rows[o.item].rev
    BY DEF Snapshot
  <2>1. o.item \in Items /\ q.rows[o.item].rev \in Nat
    BY <1>1, <1>2 DEF Row
  <2>2. CASE m = n /\ changes2 = changes
                   /\ \A i \in Items : items[i].owner = "self" => items2[i] = items[i]
    BY <1>4, <2>1, <2>2 DEF Snapshot
  <2>3. CASE m = n + 1
    <3>1. q.rev # m
      BY <1>1, <2>3 DEF InFlight
    <3>2. q.rows[o.item].owner # "other" => q.rows[o.item].rev <= n
      BY <1>4 DEF Snapshot
    <3> QED BY <2>1, <2>3, <3>1, <3>2
  <2> QED BY <2>2, <2>3
<1> QED BY <1>3, <1>4 DEF InFlight

\* A request that is at rest has read nothing that matters.
LEMMA AtRestInFlight ==
  ASSUME NEW q \in Request, NEW n \in Nat, NEW items, NEW changes,
         q.rev = 0, \/ q.pc \in {"idle", "done", "failed"}
                    \/ q.pc = "user" /\ q.plan \in Plans
  PROVE  InFlight(q, n, items, changes)
BY DEF InFlight, ItemLevelPC, LegacyPC

\* One request takes a step, to a state that is in order with the tables it
\* leaves: so are all the others.
LEMMA RequestStep ==
  ASSUME OrderInv, TypeInv', NEW r \in Requests, NEW q \in Request, Step(r, q),
         RevisionsInOrder', Bounded',
         InFlight(q, serverRevision', rows', feed'),
         \/ serverRevision' = serverRevision + 1
         \/ /\ serverRevision' = serverRevision /\ feed' = feed /\ rows' = rows
  PROVE  OrderInv'
<1>1. ASSUME NEW s \in Requests
      PROVE  InFlight(req'[s], serverRevision', rows', feed')
  <2>1. CASE s = r
    BY <2>1 DEF Step, OrderInv, TypeInv, TypeOK
  <2>2. CASE s # r
    <3>1. req'[s] = req[s] /\ req[s] \in Request
      BY <2>2 DEF Step, OrderInv, TypeInv, TypeOK
    <3>2. serverRevision \in Nat /\ serverRevision' \in Nat
      BY DEF OrderInv, TypeInv, TypeOK
    <3>3. InFlight(req[s], serverRevision, rows, feed)
      BY DEF OrderInv
    <3>4. InFlight(req[s], serverRevision', rows', feed')
      BY <3>1, <3>2, <3>3, InFlightKept
    <3> QED BY <3>1, <3>4
  <2> QED BY <2>1, <2>2
<1> QED BY <1>1 DEF OrderInv

\* The receipts of a batch are of its request's operations, and no applied one
\* is of a later revision than the batch.
LEMMA ReceiptsWritten ==
  ASSUME NEW q \in Request, NEW x \in NewReceipts(q)
  PROVE  \E k \in Pending(q) :
           /\ k \in DOMAIN q.plan.ops
           /\ x.op = q.plan.ops[k]
           /\ x.status = "applied" =>
                /\ k \in Accepted(q)
                /\ x = AppliedReceipt(q, q.plan.ops[k])
                /\ x.rev = NewRevision(q)
           /\ x.status # "applied" =>
                k \in Rejected(q) /\ x = ConflictReceipt(q, q.plan.ops[k])
<1>1. CASE \E k \in Accepted(q) : x = AppliedReceipt(q, q.plan.ops[k])
  BY <1>1, DecisionType DEF AppliedReceipt, Pending
<1>2. CASE \E k \in Rejected(q) : x = ConflictReceipt(q, q.plan.ops[k])
  <2>1. PICK k \in Rejected(q) : x = ConflictReceipt(q, q.plan.ops[k])
    BY <1>2
  <2>2. x.op = q.plan.ops[k] /\ x.status = "conflict"
    BY <2>1 DEF ConflictReceipt
  <2>3. k \in Pending(q) /\ k \in DOMAIN q.plan.ops
    BY DecisionType DEF Pending
  <2> QED BY <2>1, <2>2, <2>3
<1> QED BY <1>1, <1>2 DEF NewReceipts

\* What the reasons say of the row that was read, the account's revision aside.
LEMMA ReasonIs ==
  ASSUME NEW q, NEW o, q.rows[o.item].rev \in Nat, o.base \in Nat
  PROVE  LET row == q.rows[o.item]
             Misses == row.rev # o.base \/ (o.kind = "delete" /\ row.owner = "none")
         IN  /\ Reason(q, o) = "none" => row.owner # "other" /\ ~Misses
             /\ Reason(q, o) \in {"item_revision_mismatch", "item_revision_advanced"} => Misses
             /\ /\ Reason(q, o) # "none" /\ ~(q.plan.baseRevision > q.rev)
                /\ row.owner # "other"
                => Misses
<1> DEFINE row == q.rows[o.item]
<1>1. \/ row.rev > o.base /\ row.rev # o.base
      \/ row.rev < o.base /\ row.rev # o.base /\ ~(row.rev > o.base)
      \/ row.rev = o.base /\ ~(row.rev > o.base) /\ ~(row.rev < o.base)
  OBVIOUS
<1> QED BY <1>1, Zenon DEF Reason

\* An accepted operation's base is the revision of the row that was read.
LEMMA AcceptedBase ==
  ASSUME NEW q \in Request, NEW k \in Accepted(q)
  PROVE  LET o == q.plan.ops[k]
         IN  /\ o \in Op /\ o \in OpsOf(q) /\ o.item \in Items
             /\ q.rows[o.item].owner # "other"
             /\ q.rows[o.item].rev = o.base
             /\ o.kind = "delete" => q.rows[o.item].owner = "self"
<1> DEFINE o == q.plan.ops[k]
           row == q.rows[o.item]
<1>1. q.plan \in Plans \cup {NoPlan} /\ q.rows \in [Items -> Row]
  BY DEF Request
<1>2. k \in DOMAIN q.plan.ops /\ ~Stale(q, o)
  BY DEF Accepted
<1>3. o \in Op /\ o \in OpsOf(q) /\ o.item \in Items /\ o.base \in Nat
  BY <1>1, <1>2, PlanType DEF Op, OpsOf
<1>4. row \in Row /\ row.rev \in Nat /\ row.owner \in {"none", "self", "other"}
  BY <1>1, <1>3 DEF Row
<1>5. Reason(q, o) = "none"
  BY <1>2 DEF Stale
<1> HIDE DEF o
<1>6. /\ row.rev = o.base /\ row.owner # "other"
      /\ o.kind = "delete" => row.owner # "none"
  BY <1>3, <1>4, <1>5, ReasonIs
<1>7. o.kind = "delete" => row.owner = "self"
  BY <1>4, <1>6
<1> QED BY <1>3, <1>6, <1>7 DEF o

----------------------------------------------------------------------------
(* Both kinds of batch keep the order.                                      *)

\* A batch that claims its revision was decided on the account as it is.
LEMMA CommitIsCurrent ==
  ASSUME OrderInv, NEW r \in Requests, req[r].pc = "batch",
         ~ClaimTaken(req[r]), HasStateWrite(req[r])
  PROVE  req[r].rev = serverRevision
<1>1. req[r].rev \in Nat /\ serverRevision \in Nat /\ req[r].rev <= serverRevision
  BY DEF OrderInv, TypeInv, TypeOK, Request, InFlight
<1>2. req[r].rev + 1 \notin 1..serverRevision
  BY DEF ClaimTaken, NewRevision, OrderInv, RevisionsInOrder
<1> QED BY <1>1, <1>2

\* The item-level transaction keeps the order, and every request in
\* flight keeps what it has read: what Commit and CommitUnacknowledged have in common.
LEMMA CommitOrder ==
  ASSUME OrderInv, TablesType', NEW r \in Requests, req[r].pc = "batch",
         CommitBatch(req[r])
  PROVE  /\ RevisionsInOrder' /\ Bounded'
         /\ \/ serverRevision' = serverRevision + 1
            \/ serverRevision' = serverRevision /\ feed' = feed /\ rows' = rows
<1> DEFINE q == req[r]
<1>1. /\ q \in Request /\ q.plan \in Plans \cup {NoPlan} /\ serverRevision \in Nat
      /\ TypeInv /\ RevisionsInOrder /\ Bounded
      /\ InFlight(q, serverRevision, rows, feed)
  BY DEF OrderInv, TypeInv, TypeOK, Request
<1>2. Accepted(q) \in SUBSET DOMAIN q.plan.ops
  BY <1>1, DecisionType
<1>3. receipts' = receipts \cup NewReceipts(q)
      /\ WriteOps(q.plan, Accepted(q), NewRevision(q))
      /\ ~ClaimTaken(q)
  BY DEF CommitBatch
<1>4. \A x \in NewReceipts(q) : x.status = "applied" =>
        x.rev = NewRevision(q) /\ Accepted(q) # {}
  BY <1>1, ReceiptsWritten
<1>5. CASE HasStateWrite(q)
  <2>1. q.rev = serverRevision
    BY <1>3, <1>5, CommitIsCurrent
  <2>2. NewRevision(q) = serverRevision + 1
    BY <1>5, <2>1 DEF NewRevision
  <2>3. serverRevision' = serverRevision + 1 /\ claims' = claims \cup {serverRevision + 1}
    BY <1>5, <2>2 DEF CommitBatch
  <2>4. \A x \in receipts' : x.status = "applied" => x.rev <= serverRevision + 1
    <3> SUFFICES ASSUME NEW x \in receipts', x.status = "applied"
                 PROVE  x.rev <= serverRevision + 1
      OBVIOUS
    <3>1. CASE x \in receipts
      <4>1. x.rev \in Nat /\ x.rev <= serverRevision
        BY <1>1, <3>1 DEF Bounded, TypeInv, TypeOK, Receipt
      <4> QED BY <1>1, <4>1
    <3>2. CASE x \in NewReceipts(q)
      BY <1>1, <1>4, <2>2, <3>2
    <3> QED BY <1>3, <3>1, <3>2
  <2>5. ASSUME NEW k \in Accepted(q)
        PROVE  Overwrites(q.plan, k)
    <3> DEFINE o == q.plan.ops[k]
    <3>1. /\ o \in Op /\ o \in OpsOf(q)
          /\ q.rows[o.item].rev = o.base
          /\ o.kind = "delete" => q.rows[o.item].owner = "self"
      BY <1>1, AcceptedBase
    <3>2. Snapshot(q, serverRevision, rows, feed)
      BY <1>1 DEF InFlight
    <3>3. q.rows[o.item].owner = "self" => rows[o.item] = q.rows[o.item]
      BY <2>1, <3>1, <3>2 DEF Snapshot
    <3>4. o.kind \in {"upsert", "delete"}
      BY <3>1 DEF Op
    <3>5. o.kind = "upsert" \/ (rows[o.item].owner = "self" /\ rows[o.item].rev = o.base)
      BY <3>1, <3>3, <3>4
    <3> QED BY ONLY <3>5 DEF Overwrites
  <2>6. WriteOps(q.plan, Accepted(q), serverRevision + 1)
    BY <1>3, <2>2
  <2>7. RevisionsInOrder' /\ Bounded'
    <3> HIDE DEF q
    <3> QED BY <1>1, <1>2, <2>3, <2>4, <2>5, <2>6, OrderWritten
  <2> QED BY <2>3, <2>7
<1>6. CASE ~HasStateWrite(q)
  <2>1. Accepted(q) = {} /\ serverRevision' = serverRevision /\ claims' = claims
    BY <1>6 DEF CommitBatch, HasStateWrite
  <2>2. rows' = rows /\ feed' = feed /\ lastCursor' = lastCursor
    BY <1>1, <1>3, <2>1, NothingWritten
  <2>3. \A x \in receipts' : x.status = "applied" => x \in receipts
    BY <1>3, <1>4, <2>1
  <2> QED BY <1>1, <2>1, <2>2, <2>3 DEF RevisionsInOrder, Bounded
<1> QED BY <1>5, <1>6

\* The same of the whole-envelope transaction, which checks no item revision
\* and so relies on the claim of its revision alone.
LEMMA LegacyCommitOrder ==
  ASSUME OrderInv, TablesType', NEW r \in Requests, req[r].pc = "legacyBatch",
         LegacyCommitBatch(req[r])
  PROVE  RevisionsInOrder' /\ Bounded' /\ serverRevision' = serverRevision + 1
<1> DEFINE q == req[r]
<1>1. /\ q \in Request /\ q.plan \in Plans \cup {NoPlan} /\ serverRevision \in Nat
      /\ q.rev \in Nat /\ TypeInv /\ RevisionsInOrder /\ Bounded
      /\ q.rev <= serverRevision /\ q.plan.legacy
  BY DEF OrderInv, TypeInv, TypeOK, Request, InFlight, LegacyPC
<1>2. q.rev + 1 \notin 1..serverRevision
  BY <1>1 DEF LegacyCommitBatch, RevisionsInOrder
<1>3. q.rev = serverRevision
  BY <1>1, <1>2
<1>4. /\ serverRevision' = serverRevision + 1
      /\ claims' = claims \cup {serverRevision + 1}
      /\ WriteOps(q.plan, LegacyWrites(q.plan), serverRevision + 1)
      /\ receipts' = receipts
  BY <1>3 DEF LegacyCommitBatch
<1>5. \A x \in receipts' : x.status = "applied" => x.rev <= serverRevision + 1
  <2> SUFFICES ASSUME NEW x \in receipts, x.status = "applied"
               PROVE  x.rev <= serverRevision + 1
    BY <1>4
  <2>1. x.rev \in Nat /\ x.rev <= serverRevision
    BY <1>1 DEF Bounded, TypeInv, TypeOK, Receipt
  <2> QED BY <1>1, <2>1
<1>6. LegacyWrites(q.plan) \in SUBSET DOMAIN q.plan.ops
  BY DEF LegacyWrites
<1>7. \A k \in LegacyWrites(q.plan) : Overwrites(q.plan, k)
  BY <1>1 DEF LegacyWrites, Overwrites
<1>8. RevisionsInOrder' /\ Bounded'
  <2> HIDE DEF q
  <2> QED BY <1>1, <1>4, <1>5, <1>6, <1>7, OrderWritten
<1> QED BY <1>4, <1>8

----------------------------------------------------------------------------
(* Every step keeps the order.                                              *)

\* Every step of a push request, item-level or whole-envelope, keeps the order:
\* one step of the proof per action.
LEMMA PushOrder ==
  ASSUME OrderInv, NEW r \in Requests, Push(r) \/ LegacyPush(r)
  PROVE  OrderInv'
<1> DEFINE q == req[r]
<1>1. /\ q \in Request /\ q.rev \in Nat /\ serverRevision \in Nat /\ serverRevision' \in Nat
      /\ TypeInv /\ RevisionsInOrder /\ Bounded /\ TypeInv' /\ TablesType'
      /\ InFlight(q, serverRevision, rows, feed) /\ rows \in [Items -> Row]
  <2>1. TypeInv'
    BY PushType DEF OrderInv
  <2> QED BY <2>1 DEF OrderInv, TypeInv, TypeOK, Request, TablesType
<1>2. ASSUME NEW p \in Request, Step(r, p), UNCHANGED tables,
             InFlight(p, serverRevision, rows, feed)
      PROVE  OrderInv'
  <2>1. RevisionsInOrder' /\ Bounded'
    BY <1>1, <1>2 DEF tables, RevisionsInOrder, Bounded
  <2>2. /\ serverRevision' = serverRevision /\ feed' = feed /\ rows' = rows
        /\ InFlight(p, serverRevision', rows', feed')
    BY <1>2 DEF tables
  <2> QED BY <1>1, <1>2, <2>1, <2>2, RequestStep
<1>3. ASSUME NEW p, Step(r, p) PROVE p = req'[r] /\ p \in Request
  BY <1>1, <1>3 DEF Step, TypeInv, TypeOK
<1>4. ASSUME NEW p, Step(r, p), p.rev = 0,
             \/ p.pc \in {"idle", "done", "failed"}
             \/ p.pc = "user" /\ p.plan \in Plans
      PROVE  p \in Request /\ InFlight(p, serverRevision, rows, feed)
                           /\ InFlight(p, serverRevision', rows', feed')
  BY <1>1, <1>3, <1>4, AtRestInFlight
<1>5. ASSUME Step(r, Idle), UNCHANGED tables PROVE OrderInv'
  BY <1>2, <1>4, <1>5 DEF Idle
<1>6. ASSUME NEW a, Reply(r, a), UNCHANGED tables PROVE OrderInv'
  BY <1>2, <1>4, <1>6 DEF Idle, Reply
<1>7. ASSUME Fail(r), UNCHANGED tables PROVE OrderInv'
  BY <1>2, <1>4, <1>7 DEF Idle, Fail
<1>8. ASSUME NextAttempt(r), UNCHANGED tables, q.plan \in Plans PROVE OrderInv'
  <2>1. CASE Fail(r)
    BY <1>7, <1>8, <2>1
  <2>2. CASE Step(r, [Idle EXCEPT !.pc = "user", !.plan = req[r].plan,
                                  !.attempt = req[r].attempt + 1])
    BY <1>2, <1>4, <1>8, <2>2 DEF Idle
  <2> QED BY <1>8, <2>1, <2>2 DEF NextAttempt
<1>9. ASSUME NEW pc, Step(r, [req[r] EXCEPT !.pc = pc]), UNCHANGED tables,
             \/ pc \in {"recheckRevision", "recheckReceipts"} /\ q.pc \in ItemLevelPC
             \/ pc \in {"legacyBatch", "legacyRecheck"} /\ q.pc \in LegacyPC
      PROVE  OrderInv'
  <2> DEFINE p == [req[r] EXCEPT !.pc = pc]
  <2>1. p \in Request
    BY <1>3, <1>9
  <2>2. p.rev = q.rev /\ p.plan = q.plan /\ p.pc = pc
    BY <1>1 DEF Request
  <2>3. InFlight(p, serverRevision, rows, feed)
    BY <1>1, <1>9, <2>2 DEF InFlight, ItemLevelPC, LegacyPC
  <2> HIDE DEF p
  <2> QED BY <1>2, <1>9, <2>1, <2>3 DEF p
<1>10. CASE Submit(r)
  <2>1. PICK p \in Plans : Step(r, [Idle EXCEPT !.pc = "user", !.plan = p])
    BY <1>10 DEF Submit
  <2> QED BY <1>2, <1>4, <1>10, <2>1 DEF Idle, Submit
<1>11. CASE ReadUser(r)
  <2> DEFINE p == [req[r] EXCEPT !.rev = serverRevision,
                     !.pc = IF req[r].plan.legacy THEN "owners" ELSE "rows"]
  <2>1. Step(r, p) /\ UNCHANGED tables /\ q.pc = "user"
    BY <1>11 DEF ReadUser
  <2>2. p \in Request
    BY <1>3, <2>1
  <2>3. p.rev = serverRevision /\ p.plan = q.plan
        /\ p.pc = IF q.plan.legacy THEN "owners" ELSE "rows"
    BY <1>1 DEF Request
  <2>4. InFlight(p, serverRevision, rows, feed)
    BY <1>1, <2>1, <2>3 DEF InFlight, ItemLevelPC, LegacyPC
  <2> HIDE DEF p
  <2> QED BY <1>2, <2>1, <2>2, <2>4
<1>12. CASE ReadRows(r)
  <2> DEFINE p == [req[r] EXCEPT !.rows = RowsOf(req[r]), !.pc = "receipts"]
  <2>1. Step(r, p) /\ UNCHANGED tables /\ q.pc = "rows"
    BY <1>12 DEF ReadRows
  <2>2. p \in Request
    BY <1>3, <2>1
  <2>3. p.rev = q.rev /\ p.plan = q.plan /\ p.pc = "receipts" /\ p.rows = RowsOf(q)
    BY <1>1 DEF Request
  <2>4. OpsOf(p) = OpsOf(q)
    BY <2>3 DEF OpsOf
  <2>5. ASSUME NEW o \in OpsOf(p)
        PROVE  o.item \in Items /\ p.rows[o.item] = rows[o.item]
    <3>1. o.item \in Items
      BY <2>2, PlanType DEF OpsOf, Op, Request
    <3> QED BY <2>3, <2>4, <3>1 DEF RowsOf
  <2>6. Snapshot(p, serverRevision, rows, feed)
    BY <1>1, <2>5 DEF Snapshot, Bounded
  <2>7. InFlight(p, serverRevision, rows, feed)
    BY <1>1, <2>1, <2>3, <2>6 DEF InFlight, ItemLevelPC, LegacyPC
  <2> HIDE DEF p
  <2> QED BY <1>2, <2>1, <2>2, <2>7
<1>13. CASE ReadReceipts(r)
  <2> DEFINE p == [req[r] EXCEPT !.receipts = ReceiptsOf(req[r]), !.pc = "batch"]
  <2>1. Step(r, p) /\ UNCHANGED tables /\ q.pc = "receipts"
    BY <1>13 DEF ReadReceipts
  <2>2. p \in Request
    BY <1>3, <2>1
  <2>3. p.rev = q.rev /\ p.plan = q.plan /\ p.pc = "batch" /\ p.rows = q.rows
    BY <1>1 DEF Request
  <2>4. Snapshot(p, serverRevision, rows, feed)
    <3>1. Snapshot(q, serverRevision, rows, feed)
      BY <1>1, <2>1 DEF InFlight
    <3> HIDE DEF p, q
    <3>2. OpsOf(p) = OpsOf(q)
      BY ONLY <2>3 DEF OpsOf
    <3> QED BY ONLY <2>3, <3>1, <3>2 DEF Snapshot
  <2>5. InFlight(p, serverRevision, rows, feed)
    BY <1>1, <2>1, <2>3, <2>4 DEF InFlight, ItemLevelPC, LegacyPC
  <2> HIDE DEF p
  <2> QED BY <1>2, <2>1, <2>2, <2>5
<1>14. CASE NothingToWrite(r)
  BY <1>6, <1>14 DEF NothingToWrite
<1>15. ASSUME NEW p, Step(r, p), RevisionsInOrder', Bounded',
              p.rev \in Nat /\ p.rev <= serverRevision, p.pc \notin {"user", "receipts", "batch"},
              p.pc \in ItemLevelPC => p.plan \in Plans /\ ~p.plan.legacy,
              p.pc \in LegacyPC => p.plan \in Plans /\ p.plan.legacy,
              \/ serverRevision' = serverRevision + 1
              \/ serverRevision' = serverRevision /\ feed' = feed /\ rows' = rows
       PROVE  OrderInv'
  <2>1. p \in Request
    BY <1>3, <1>15
  <2>2. InFlight(p, serverRevision', rows', feed')
    BY <1>1, <1>15 DEF InFlight
  <2> QED BY <1>1, <1>15, <2>1, <2>2, RequestStep
<1>16. CASE Commit(r)
  <2>1. RevisionsInOrder' /\ Bounded'
         /\ \/ serverRevision' = serverRevision + 1
            \/ serverRevision' = serverRevision /\ feed' = feed /\ rows' = rows
    BY <1>1, <1>16, CommitOrder DEF Commit
  <2> DEFINE p == [Idle EXCEPT !.pc = "done", !.plan = req[r].plan,
                               !.answer = AnswerTo(req[r])]
  <2>2. Step(r, p)
    BY <1>16 DEF Commit, Reply
  <2>3. p.pc = "done" /\ p.rev = 0
    BY DEF Idle
  <2> HIDE DEF p
  <2> QED BY <1>1, <1>15, <2>1, <2>2, <2>3 DEF ItemLevelPC, LegacyPC
<1>17. CASE CommitUnacknowledged(r)
  <2> DEFINE p == [req[r] EXCEPT !.pc = "recheckRevision"]
  <2>1. RevisionsInOrder' /\ Bounded'
         /\ \/ serverRevision' = serverRevision + 1
            \/ serverRevision' = serverRevision /\ feed' = feed /\ rows' = rows
    BY <1>1, <1>17, CommitOrder DEF CommitUnacknowledged
  <2>2. p.rev = q.rev /\ p.plan = q.plan /\ p.pc = "recheckRevision"
    BY <1>1 DEF Request
  <2>3. Step(r, p) /\ q.pc = "batch"
    BY <1>17 DEF CommitUnacknowledged
  <2>4. p.rev \in Nat /\ p.rev <= serverRevision /\ p.plan \in Plans /\ ~p.plan.legacy
    BY <1>1, <2>2, <2>3 DEF InFlight, ItemLevelPC
  <2> HIDE DEF p
  <2> QED BY <1>15, <2>1, <2>2, <2>3, <2>4 DEF ItemLevelPC, LegacyPC
<1>18. CASE BatchRolledBack(r)
  BY <1>9, <1>18 DEF BatchRolledBack, ItemLevelPC
<1>19. CASE RecheckRevision(r)
  <2>1. q.plan \in Plans /\ q.pc \in ItemLevelPC
    BY <1>1, <1>19 DEF RecheckRevision, InFlight, ItemLevelPC
  <2> QED BY <1>8, <1>9, <1>19, <2>1 DEF RecheckRevision
<1>20. CASE RecheckReceipts(r)
  <2>1. q.plan \in Plans
    BY <1>1, <1>20 DEF RecheckReceipts, InFlight, ItemLevelPC
  <2> QED BY <1>7, <1>8, <1>20, <2>1 DEF RecheckReceipts
<1>21. CASE Leave(r)
  BY <1>5, <1>21 DEF Leave
<1>22. CASE ReadOwners(r)
  BY <1>6, <1>7, <1>9, <1>22 DEF ReadOwners, LegacyPC
<1>23. CASE LegacyCommit(r)
  <2>1. RevisionsInOrder' /\ Bounded' /\ serverRevision' = serverRevision + 1
    BY <1>1, <1>23, LegacyCommitOrder DEF LegacyCommit
  <2> DEFINE p == [Idle EXCEPT !.pc = "done", !.plan = req[r].plan,
                               !.answer = [NoAnswer EXCEPT !.status = "ok", !.rev = req[r].rev + 1]]
  <2>2. Step(r, p)
    BY <1>23 DEF LegacyCommit, Reply
  <2>3. p.pc = "done" /\ p.rev = 0
    BY DEF Idle
  <2> HIDE DEF p
  <2> QED BY <1>1, <1>15, <2>1, <2>2, <2>3 DEF ItemLevelPC, LegacyPC
<1>24. CASE LegacyCommitUnacknowledged(r)
  <2> DEFINE p == [req[r] EXCEPT !.pc = "legacyRecheck"]
  <2>1. RevisionsInOrder' /\ Bounded' /\ serverRevision' = serverRevision + 1
    BY <1>1, <1>24, LegacyCommitOrder DEF LegacyCommitUnacknowledged
  <2>2. p.rev = q.rev /\ p.plan = q.plan /\ p.pc = "legacyRecheck"
    BY <1>1 DEF Request
  <2>3. Step(r, p) /\ q.pc = "legacyBatch"
    BY <1>24 DEF LegacyCommitUnacknowledged
  <2>4. p.rev \in Nat /\ p.rev <= serverRevision /\ p.plan \in Plans /\ p.plan.legacy
    BY <1>1, <2>2, <2>3 DEF InFlight, LegacyPC
  <2> HIDE DEF p
  <2> QED BY <1>15, <2>1, <2>2, <2>3, <2>4 DEF ItemLevelPC, LegacyPC
<1>25. CASE LegacyRolledBack(r)
  BY <1>9, <1>25 DEF LegacyRolledBack, LegacyPC
<1>26. CASE LegacyRecheck(r)
  BY <1>6, <1>7, <1>26 DEF LegacyRecheck
<1> QED BY <1>10, <1>11, <1>12, <1>13, <1>14, <1>16, <1>17, <1>18, <1>19, <1>20,
           <1>21, <1>22, <1>23, <1>24, <1>25, <1>26 DEF Push, LegacyPush

\* Every step of the system keeps the order: pushes, pulls, another account
\* creating an item, and stuttering.
LEMMA OrderStep ==
  ASSUME OrderInv, [Next]_vars
  PROVE  OrderInv'
<1>1. ASSUME NEW r \in Requests, Push(r) \/ LegacyPush(r) PROVE OrderInv'
  BY <1>1, PushOrder
<1>2. ASSUME NEW d \in Readers, Pull(d) PROVE OrderInv'
  <2>1. UNCHANGED <<tables, req>>
    BY <1>2 DEF Pull, PullReadUser, PullReadPage, VaultReadUser, VaultReadLive,
                VaultReadDeleted
  <2>2. TypeInv'
    BY <1>2, PullType DEF OrderInv
  <2> QED BY <2>1, <2>2 DEF OrderInv, tables, RevisionsInOrder, Bounded
<1>3. ASSUME NEW i \in SharedIds, ForeignCreate(i) PROVE OrderInv'
  <2>1. /\ TypeInv /\ rows \in [Items -> Row] /\ serverRevision \in Nat
        /\ rows' = [rows EXCEPT ![i] = [NoRow EXCEPT !.owner = "other", !.rev = 1]]
        /\ rows[i].owner = "none" /\ i \in Items
        /\ UNCHANGED <<serverRevision, claims, history, feed, lastCursor, receipts,
                       req, reader>>
    BY <1>3, StoreAssumption DEF ForeignCreate, OrderInv, TypeInv, TypeOK
  <2>2. /\ [NoRow EXCEPT !.owner = "other", !.rev = 1] \in Row
        /\ [NoRow EXCEPT !.owner = "other", !.rev = 1].owner = "other"
    BY DEF NoRow, Row
  <2>3. TypeInv'
    BY <2>1, <2>2 DEF TypeInv, TypeOK
  <2>4. RevisionsInOrder'
    BY <2>1 DEF OrderInv, RevisionsInOrder
  <2>5. /\ rows'[i].owner = "other"
        /\ \A j \in Items : j # i => rows'[j] = rows[j]
    BY <2>1, <2>2
  <2>6. \A c \in feed : c.item \in Items
    BY <2>1 DEF TypeInv, TypeOK, Change
  <2>7. Bounded'
    BY <2>1, <2>5, <2>6 DEF OrderInv, Bounded
  <2>8. \A j \in Items : rows[j].owner = "self" => rows'[j] = rows[j]
    BY <2>1, <2>5
  <2>9. ASSUME NEW r \in Requests PROVE InFlight(req'[r], serverRevision', rows', feed')
    <3>1. req[r] \in Request /\ InFlight(req[r], serverRevision, rows, feed)
      BY DEF OrderInv, TypeInv, TypeOK
    <3>2. serverRevision' = serverRevision /\ feed' = feed /\ serverRevision \in Nat
      BY <2>1
    <3>3. InFlight(req[r], serverRevision', rows', feed')
      BY <2>8, <3>1, <3>2, InFlightKept
    <3> QED BY <2>1, <3>3
  <2> QED BY <2>3, <2>4, <2>7, <2>9 DEF OrderInv
<1>4. CASE UNCHANGED vars
  BY <1>4 DEF vars, tables, OrderInv, TypeInv, TypeOK, RevisionsInOrder, Bounded
<1> QED BY <1>1, <1>2, <1>3, <1>4 DEF Next

\* An account with no revision, item or request is in order.
LEMMA OrderInit == Init => OrderInv
<1> SUFFICES ASSUME Init PROVE OrderInv
  OBVIOUS
<1>1. TypeInv
  <2>1. NewReader \in Reader
    BY DEF NewReader, Reader, NoEntry, Entry
  <2> QED BY <2>1, IdleType DEF Init, TypeInv, TypeOK
<1>2. RevisionsInOrder
  BY DEF Init, RevisionsInOrder
<1>3. Bounded
  BY DEF Init, Bounded, NoRow
<1>4. \A r \in Requests : InFlight(req[r], serverRevision, rows, feed)
  <2>1. \A r \in Requests : req[r] = Idle
    BY DEF Init
  <2>2. Idle \in Request /\ Idle.rev = 0 /\ Idle.pc = "idle" /\ serverRevision \in Nat
    BY IdleType DEF Idle, Init
  <2> QED BY <2>1, <2>2, AtRestInFlight
<1> QED BY <1>1, <1>2, <1>3, <1>4 DEF OrderInv

\* Revisions and cursors advance together: the claims are exactly the revisions
\* up to the account's, whichever requests raced for them, and a change of a
\* later revision has a later cursor, which is what a pull by cursor relies on.
THEOREM RevisionsAreOrdered == Spec => []RevisionsInOrder
<1>1. OrderInv /\ [Next]_vars => OrderInv'
  BY OrderStep
<1> QED BY <1>1, OrderInit, PTL DEF Spec, OrderInv

----------------------------------------------------------------------------
(* What a step does to receipts and feed.                                   *)

\* Only the two batches write receipts or changes.
LEMMA OnlyBatchesWrite ==
  ASSUME [Next]_vars
  PROVE  \/ receipts' = receipts /\ feed' = feed
         \/ \E r \in Requests : req[r].pc = "batch" /\ CommitBatch(req[r])
         \/ \E r \in Requests : req[r].pc = "legacyBatch" /\ LegacyCommitBatch(req[r])
<1>1. ASSUME NEW r \in Requests, Push(r)
      PROVE  \/ receipts' = receipts /\ feed' = feed
             \/ req[r].pc = "batch" /\ CommitBatch(req[r])
  BY <1>1 DEF Push, tables, Submit, ReadUser, ReadRows, ReadReceipts, NothingToWrite,
              Commit, CommitUnacknowledged, BatchRolledBack, RecheckRevision,
              RecheckReceipts, Leave
<1>2. ASSUME NEW r \in Requests, LegacyPush(r)
      PROVE  \/ receipts' = receipts /\ feed' = feed
             \/ req[r].pc = "legacyBatch" /\ LegacyCommitBatch(req[r])
  BY <1>2 DEF LegacyPush, tables, ReadOwners, LegacyCommit, LegacyRolledBack,
              LegacyCommitUnacknowledged, LegacyRecheck
<1>3. ASSUME NEW d \in Readers, Pull(d) PROVE receipts' = receipts /\ feed' = feed
  BY <1>3 DEF Pull, tables, PullReadUser, PullReadPage, VaultReadUser, VaultReadLive,
              VaultReadDeleted
<1>4. ASSUME NEW i \in SharedIds, ForeignCreate(i)
      PROVE  receipts' = receipts /\ feed' = feed
  BY <1>4 DEF ForeignCreate
<1>5. CASE UNCHANGED vars
  BY <1>5 DEF vars, tables
<1> QED BY <1>1, <1>2, <1>3, <1>4, <1>5 DEF Next

----------------------------------------------------------------------------
(* No lost update.                                                          *)

\* The item-level transaction loses no update: each operation it applies has
\* the revision of the row at this very moment as its base.
LEMMA CommitLosesNothing ==
  ASSUME OrderInv, NoLostUpdate, NEW r \in Requests, req[r].pc = "batch",
         CommitBatch(req[r])
  PROVE  NoLostUpdate'
<1> DEFINE q == req[r]
<1>1. /\ q \in Request /\ q.plan \in Plans \cup {NoPlan} /\ serverRevision \in Nat
      /\ NewRevision(q) \in Nat /\ Accepted(q) \in SUBSET DOMAIN q.plan.ops
      /\ TypeInv /\ RevisionsInOrder /\ Bounded
      /\ InFlight(q, serverRevision, rows, feed)
  BY DecisionType DEF OrderInv, TypeInv, TypeOK, Request
<1>2. /\ receipts' = receipts \cup NewReceipts(q)
      /\ WriteOps(q.plan, Accepted(q), NewRevision(q))
      /\ ~ClaimTaken(q)
  BY DEF CommitBatch
<1>3. CASE ~HasStateWrite(q)
  <2>1. Accepted(q) = {}
    BY <1>3 DEF HasStateWrite
  <2>2. feed' = feed
    BY <1>1, <1>2, <2>1, NothingWritten
  <2>3. \A x \in receipts' : x.status = "applied" => x \in receipts
    BY <1>1, <1>2, <2>1, ReceiptsWritten
  <2> QED BY <2>2, <2>3 DEF NoLostUpdate
<1>4. CASE HasStateWrite(q)
  <2>1. q.rev = serverRevision /\ NewRevision(q) = serverRevision + 1
    BY <1>2, <1>4, CommitIsCurrent DEF NewRevision
  <2>2. \A c \in feed' \ feed : /\ c.rev = serverRevision + 1
                                /\ \E k \in Accepted(q) : /\ c.item = q.plan.ops[k].item
                                                          /\ c.mut = q.plan.ops[k].mut
    <3> DEFINE p == q.plan
               ks == Accepted(q)
               rev == NewRevision(q)
    <3>1. /\ p \in Plans \cup {NoPlan} /\ ks \in SUBSET DOMAIN p.ops /\ rev \in Nat
          /\ WriteOps(p, ks, rev) /\ TypeInv
      BY <1>1, <1>2
    <3> HIDE DEF p, ks, rev
    <3>2. \A c \in feed' \ feed : c.rev = rev
      BY <3>1, ChangesWritten
    <3>3. \A c \in feed' \ feed : \E k \in ks : c.item = p.ops[k].item /\ c.mut = p.ops[k].mut
      BY <3>1, ChangesWritten
    <3> QED BY <2>1, <3>2, <3>3 DEF p, ks, rev
  <2>3. ASSUME NEW x \in receipts', x.status = "applied"
        PROVE  /\ x.op.base < x.rev
               /\ \A c \in feed' : c.item = x.op.item /\ c.mut # x.op.mut =>
                                   c.rev <= x.op.base \/ x.rev < c.rev
    <3>1. CASE x \in receipts
      <4>1. x.op.base < x.rev /\ x.rev \in Nat /\ x.rev <= serverRevision
        BY <1>1, <2>3, <3>1 DEF NoLostUpdate, Bounded, TypeInv, TypeOK, Receipt
      <4>2. \A c \in feed' \ feed : x.rev < c.rev
        BY <1>1, <2>2, <4>1
      <4>3. \A c \in feed : c.item = x.op.item /\ c.mut # x.op.mut =>
                            c.rev <= x.op.base \/ x.rev < c.rev
        BY <2>3, <3>1 DEF NoLostUpdate
      <4> QED BY <4>1, <4>2, <4>3
    <3>2. CASE x \notin receipts
      <4>1. PICK k \in Accepted(q) : x.op = q.plan.ops[k] /\ x.rev = NewRevision(q)
        BY <1>1, <1>2, <2>3, <3>2, ReceiptsWritten
      <4> DEFINE o == q.plan.ops[k]
      <4>2. /\ o \in Op /\ o \in OpsOf(q) /\ o.item \in Items
            /\ q.rows[o.item].owner # "other" /\ q.rows[o.item].rev = o.base
        BY <1>1, <4>1, AcceptedBase
      <4>3. Snapshot(q, serverRevision, rows, feed)
        BY <1>1 DEF InFlight
      <4>4. o.base <= serverRevision /\ o.base \in Nat
        BY <4>2, <4>3 DEF Snapshot, Op
      <4>5. \A c \in feed : c.item = o.item => c.rev <= o.base
        BY <2>1, <4>2, <4>3 DEF Snapshot
      <4>6. \A c \in feed' \ feed : c.item = o.item => c.mut = o.mut
        <5> SUFFICES ASSUME NEW c \in feed' \ feed, c.item = o.item
                     PROVE  c.mut = o.mut
          OBVIOUS
        <5>1. PICK j \in Accepted(q) : /\ c.item = q.plan.ops[j].item
                                       /\ c.mut = q.plan.ops[j].mut
          BY <2>2
        <5>2. j = k
          <6>1. q.plan.ops[j].item = q.plan.ops[k].item
            BY <5>1
          <6>2. j \in DOMAIN q.plan.ops /\ k \in DOMAIN q.plan.ops
            BY <4>1, <5>1 DEF Accepted
          <6>3. WellFormed(q.plan)
            BY <1>1, PlanType
          <6> QED BY ONLY <6>1, <6>2, <6>3 DEF WellFormed
        <5> QED BY <5>1, <5>2
      <4> QED BY <1>1, <2>1, <4>1, <4>4, <4>5, <4>6
    <3> QED BY <3>1, <3>2
  <2> QED BY <2>3 DEF NoLostUpdate
<1> QED BY <1>3, <1>4

\* The whole-envelope transaction writes changes under a later revision than
\* any receipt's, and adds no receipt.
LEMMA LegacyLosesNothing ==
  ASSUME OrderInv, NoLostUpdate, NEW r \in Requests, req[r].pc = "legacyBatch",
         LegacyCommitBatch(req[r])
  PROVE  NoLostUpdate'
<1> DEFINE q == req[r]
<1>1. /\ q \in Request /\ q.plan \in Plans \cup {NoPlan} /\ serverRevision \in Nat
      /\ q.rev \in Nat /\ q.rev <= serverRevision
      /\ TypeInv /\ RevisionsInOrder /\ Bounded
  BY DEF OrderInv, TypeInv, TypeOK, Request, InFlight
<1>2. q.rev = serverRevision
  <2>1. q.rev + 1 \notin 1..serverRevision
    BY <1>1 DEF LegacyCommitBatch, RevisionsInOrder
  <2> QED BY <1>1, <2>1
<1>3. /\ receipts' = receipts
      /\ WriteOps(q.plan, LegacyWrites(q.plan), serverRevision + 1)
  BY <1>2 DEF LegacyCommitBatch
<1>4. LegacyWrites(q.plan) \in SUBSET DOMAIN q.plan.ops
  BY DEF LegacyWrites
<1>5. \A c \in feed' \ feed : c.rev = serverRevision + 1
  <2> HIDE DEF q
  <2> QED BY <1>1, <1>3, <1>4, ChangesWritten
<1>6. \A x \in receipts : x.status = "applied" =>
        x.rev \in Nat /\ x.rev <= serverRevision
  BY <1>1 DEF Bounded, TypeInv, TypeOK, Receipt
<1>7. ASSUME NEW x \in receipts', x.status = "applied"
      PROVE  /\ x.op.base < x.rev
             /\ \A c \in feed' : c.item = x.op.item /\ c.mut # x.op.mut =>
                                 c.rev <= x.op.base \/ x.rev < c.rev
  <2>1. \A c \in feed' \ feed : x.rev < c.rev
    BY <1>1, <1>3, <1>5, <1>6, <1>7
  <2> QED BY <1>3, <1>7, <2>1 DEF NoLostUpdate
<1> QED BY <1>7 DEF NoLostUpdate

\* No update is lost: the check of an operation's base is made on a row read
\* before the transaction, and yet no change of the item lies between the base
\* the client edited and the change its operation became.
THEOREM NoUpdateIsLost == Spec => []NoLostUpdate
<1>1. Init => OrderInv /\ NoLostUpdate
  BY OrderInit DEF Init, NoLostUpdate
<1>2. OrderInv /\ NoLostUpdate /\ [Next]_vars => (OrderInv /\ NoLostUpdate)'
  <2> SUFFICES ASSUME OrderInv, NoLostUpdate, [Next]_vars
               PROVE  OrderInv' /\ NoLostUpdate'
    OBVIOUS
  <2>1. OrderInv'
    BY OrderStep
  <2>2. CASE receipts' = receipts /\ feed' = feed
    BY <2>1, <2>2 DEF NoLostUpdate
  <2>3. CASE \E r \in Requests : req[r].pc = "batch" /\ CommitBatch(req[r])
    BY <2>1, <2>3, CommitLosesNothing
  <2>4. CASE \E r \in Requests : req[r].pc = "legacyBatch" /\ LegacyCommitBatch(req[r])
    BY <2>1, <2>4, LegacyLosesNothing
  <2> QED BY <2>2, <2>3, <2>4, OnlyBatchesWrite
<1> QED BY <1>1, <1>2, PTL DEF Spec

----------------------------------------------------------------------------
(* A mutation is decided once.                                              *)

\* Within one plan, and against the receipts there are, a new receipt is the
\* only one of its mutation id.
LEMMA NewReceiptIsOnly ==
  ASSUME NEW q \in Request, q.plan \in Plans, ~q.plan.legacy, ~ReceiptTaken(q),
         NEW x \in NewReceipts(q)
  PROVE  /\ \A y \in receipts : y.op.mut # x.op.mut
         /\ \A y \in NewReceipts(q) : y.op.mut = x.op.mut => y = x
<1>1. WellFormed(q.plan)
  BY PlanType
<1>2. PICK k \in Pending(q) :
           /\ k \in DOMAIN q.plan.ops
           /\ x.op = q.plan.ops[k]
           /\ x.status = "applied" => /\ k \in Accepted(q)
                                      /\ x = AppliedReceipt(q, q.plan.ops[k])
           /\ x.status # "applied" => /\ k \in Rejected(q)
                                      /\ x = ConflictReceipt(q, q.plan.ops[k])
  BY ReceiptsWritten
<1>3. \A y \in receipts : y.op.mut # x.op.mut
  BY <1>2 DEF ReceiptTaken
<1>4. ASSUME NEW y \in NewReceipts(q), y.op.mut = x.op.mut
      PROVE  y = x
  <2>1. PICK j \in Pending(q) :
           /\ j \in DOMAIN q.plan.ops
           /\ y.op = q.plan.ops[j]
           /\ y.status = "applied" => /\ j \in Accepted(q)
                                      /\ y = AppliedReceipt(q, q.plan.ops[j])
           /\ y.status # "applied" => /\ j \in Rejected(q)
                                      /\ y = ConflictReceipt(q, q.plan.ops[j])
    BY ReceiptsWritten
  <2>2. j = k
    BY <1>1, <1>2, <1>4, <2>1 DEF WellFormed
  <2>3. ~(k \in Accepted(q) /\ k \in Rejected(q))
    BY DEF Accepted, Rejected
  <2> QED BY <1>2, <2>1, <2>2, <2>3
<1> QED BY <1>3, <1>4

\* The item-level transaction decides mutation ids that had no receipt, one
\* receipt for each and one change for each that it applies.
LEMMA CommitDecidesOnce ==
  ASSUME OrderInv, MutationDecidedOnce, NEW r \in Requests, req[r].pc = "batch",
         CommitBatch(req[r])
  PROVE  MutationDecidedOnce'
<1> DEFINE q == req[r]
           p == req[r].plan
           ks == Accepted(req[r])
           rev == NewRevision(req[r])
<1>1. /\ q \in Request /\ p \in Plans /\ ~p.legacy /\ p \in Plans \cup {NoPlan}
      /\ rev \in Nat /\ ks \in SUBSET DOMAIN p.ops /\ TypeInv
  BY DecisionType DEF OrderInv, TypeInv, TypeOK, InFlight, ItemLevelPC
<1>2. /\ receipts' = receipts \cup NewReceipts(q)
      /\ WriteOps(p, ks, rev)
      /\ ~ReceiptTaken(q)
  BY DEF CommitBatch
<1>3. WellFormed(p)
  BY <1>1, PlanType
<1>4. \A k \in ks : AppliedReceipt(q, p.ops[k]) \in NewReceipts(q)
  BY DEF NewReceipts
<1>5. \A k \in ks : LET x == AppliedReceipt(q, p.ops[k])
                    IN  x.status = "applied" /\ x.op = p.ops[k] /\ x.rev = rev
  BY DEF AppliedReceipt
<1>6. ASSUME NEW x \in NewReceipts(q), x.status = "applied"
      PROVE  \E k \in ks : x.op = p.ops[k] /\ x.rev = rev
  BY <1>1, <1>6, ReceiptsWritten
<1>7. ASSUME NEW x \in NewReceipts(q)
      PROVE  /\ \A y \in receipts : y.op.mut # x.op.mut
             /\ \A y \in NewReceipts(q) : y.op.mut = x.op.mut => y = x
  BY <1>1, <1>2, <1>7, NewReceiptIsOnly
<1>8. \A x \in receipts', y \in receipts' : x.op.mut = y.op.mut => x = y
  <2> SUFFICES ASSUME NEW x \in receipts', NEW y \in receipts', x.op.mut = y.op.mut
               PROVE  x = y
    OBVIOUS
  <2>1. CASE x \in receipts /\ y \in receipts
    BY <2>1 DEF MutationDecidedOnce
  <2>2. CASE x \in NewReceipts(q)
    BY <1>2, <1>7, <2>2
  <2>3. CASE y \in NewReceipts(q)
    BY <1>2, <1>7, <2>3
  <2> QED BY <1>2, <2>1, <2>2, <2>3
<1> HIDE DEF p, ks, rev, q
<1>9. /\ feed \subseteq feed'
      /\ \A c \in feed' \ feed : \E k \in ks : c = ChangeAt(p, k, rev, lastCursor)
      /\ \A k \in ks : ChangeAt(p, k, rev, lastCursor) \in feed'
  BY <1>1, <1>2, ChangesWritten
<1>10. \A k \in ks : LET c == ChangeAt(p, k, rev, lastCursor)
                     IN  /\ c.mut = p.ops[k].mut /\ c.item = p.ops[k].item
                         /\ c.kind = p.ops[k].kind /\ c.rev = rev
  BY DEF ChangeAt
<1>11. ASSUME NEW x \in receipts', x.status = "applied"
       PROVE  \E c \in feed' : /\ c.mut = x.op.mut /\ c.item = x.op.item
                              /\ c.kind = x.op.kind /\ c.rev = x.rev
  <2>1. CASE x \in receipts
    BY <1>9, <1>11, <2>1 DEF MutationDecidedOnce
  <2>2. CASE x \in NewReceipts(q)
    <3>1. PICK k \in ks : x.op = p.ops[k] /\ x.rev = rev
      BY <1>6, <1>11, <2>2
    <3> QED BY <1>9, <1>10, <3>1
  <2> QED BY <1>2, <2>1, <2>2
<1>12. ASSUME NEW c \in feed' \ feed
       PROVE  /\ \E x \in receipts' : /\ x.status = "applied" /\ x.op.mut = c.mut
                                      /\ x.rev = c.rev
              /\ \A b \in feed' : b.mut = c.mut /\ b.mut # NoMutation => b = c
  <2>1. PICK k \in ks : c = ChangeAt(p, k, rev, lastCursor)
    BY <1>9
  <2> DEFINE x == AppliedReceipt(q, p.ops[k])
  <2>2. x \in NewReceipts(q) /\ x.status = "applied" /\ x.op = p.ops[k] /\ x.rev = rev
    BY <1>4, <1>5
  <2>3. c.mut = p.ops[k].mut /\ c.rev = rev
    BY <1>10, <2>1
  <2> HIDE DEF x
  <2>4. \E y \in receipts' : y.status = "applied" /\ y.op.mut = c.mut /\ y.rev = c.rev
    BY <1>2, <2>2, <2>3
  <2>5. ASSUME NEW b \in feed', b.mut = c.mut, b.mut # NoMutation
        PROVE  b = c
    <3>1. CASE b \in feed
      <4>1. PICK y \in receipts : y.op.mut = b.mut
        BY <2>5, <3>1 DEF MutationDecidedOnce
      <4>2. y.op.mut # x.op.mut
        BY <1>7, <2>2, <4>1
      <4> QED BY <2>2, <2>3, <2>5, <4>1, <4>2
    <3>2. CASE b \notin feed
      <4>1. PICK j \in ks : b = ChangeAt(p, j, rev, lastCursor)
        BY <1>9, <3>2
      <4>2. b.mut = p.ops[j].mut
        BY <1>10, <4>1
      <4>3. j = k
        BY <1>1, <1>3, <2>3, <2>5, <4>2 DEF WellFormed
      <4> QED BY <2>1, <4>1, <4>3
    <3> QED BY <3>1, <3>2
  <2> QED BY <2>4, <2>5
<1>13. ASSUME NEW c \in feed', c.mut # NoMutation
       PROVE  \E x \in receipts' : x.status = "applied" /\ x.op.mut = c.mut /\ x.rev = c.rev
  <2>1. CASE c \in feed
    BY <1>2, <1>13, <2>1 DEF MutationDecidedOnce
  <2>2. CASE c \notin feed
    BY <1>12, <2>2
  <2> QED BY <2>1, <2>2
<1>14. ASSUME NEW b \in feed', NEW c \in feed', b.mut = c.mut, b.mut # NoMutation
       PROVE  b = c
  <2>1. CASE b \in feed /\ c \in feed
    BY <1>14, <2>1 DEF MutationDecidedOnce
  <2>2. CASE c \notin feed
    BY <1>12, <1>14, <2>2
  <2>3. CASE b \notin feed
    BY <1>12, <1>14, <2>3
  <2> QED BY <2>1, <2>2, <2>3
<1> QED BY <1>8, <1>11, <1>13, <1>14 DEF MutationDecidedOnce

\* The whole-envelope transaction decides no mutation id: its changes carry
\* none, and the receipts stay.
LEMMA LegacyDecidesNothing ==
  ASSUME OrderInv, MutationDecidedOnce, NEW r \in Requests, req[r].pc = "legacyBatch",
         LegacyCommitBatch(req[r])
  PROVE  MutationDecidedOnce'
<1> DEFINE p == req[r].plan
           ks == LegacyWrites(req[r].plan)
           rev == req[r].rev + 1
<1>1. /\ p \in Plans \cup {NoPlan} /\ p \in Plans /\ p.legacy /\ rev \in Nat
      /\ ks \in SUBSET DOMAIN p.ops /\ TypeInv
  BY DEF OrderInv, TypeInv, TypeOK, Request, InFlight, LegacyPC, LegacyWrites
<1>2. receipts' = receipts /\ WriteOps(p, ks, rev)
  BY DEF LegacyCommitBatch
<1>3. WellFormed(p)
  BY <1>1, PlanType
<1> HIDE DEF p, ks, rev
<1>4. feed \subseteq feed' /\ \A c \in feed' \ feed : \E k \in ks : c.mut = p.ops[k].mut
  BY <1>1, <1>2, ChangesWritten
<1>5. \A c \in feed' \ feed : c.mut = NoMutation
  BY <1>1, <1>3, <1>4 DEF WellFormed
<1> QED BY <1>2, <1>4, <1>5 DEF MutationDecidedOnce

\* A mutation is decided once: however often a client sends it, in whatever
\* requests run side by side and whichever responses are lost, it has at most
\* one receipt, and at most one change, which is there if it was applied.
THEOREM MutationsAreDecidedOnce == Spec => []MutationDecidedOnce
<1>1. Init => OrderInv /\ MutationDecidedOnce
  BY OrderInit DEF Init, MutationDecidedOnce
<1>2. OrderInv /\ MutationDecidedOnce /\ [Next]_vars => (OrderInv /\ MutationDecidedOnce)'
  <2> SUFFICES ASSUME OrderInv, MutationDecidedOnce, [Next]_vars
               PROVE  OrderInv' /\ MutationDecidedOnce'
    OBVIOUS
  <2>1. OrderInv'
    BY OrderStep
  <2>2. CASE receipts' = receipts /\ feed' = feed
    BY <2>1, <2>2 DEF MutationDecidedOnce
  <2>3. CASE \E r \in Requests : req[r].pc = "batch" /\ CommitBatch(req[r])
    BY <2>1, <2>3, CommitDecidesOnce
  <2>4. CASE \E r \in Requests : req[r].pc = "legacyBatch" /\ LegacyCommitBatch(req[r])
    BY <2>1, <2>4, LegacyDecidesNothing
  <2> QED BY <2>2, <2>3, <2>4, OnlyBatchesWrite
<1> QED BY <1>1, <1>2, PTL DEF Spec

=============================================================================
