------------------------ MODULE ItemSyncReaderProofs ------------------------
(***************************************************************************)
(* What a pulling device can rely on, for every number of requests,        *)
(* devices and items and every page size.                                  *)
(*                                                                         *)
(* The argument.  A pull reads the account's revision first.  Whatever is  *)
(* written after that is of a later revision and of a later cursor, so it  *)
(* neither hides behind the revision that is returned nor behind the       *)
(* cursor; and a page is an initial part of what follows the cursor.       *)
(***************************************************************************)
EXTENDS ItemSyncTablesProofs, FiniteSetTheorems

EntryOf(c) == [rev |-> c.rev, deleted |-> c.kind = "delete", mut |-> c.mut]

----------------------------------------------------------------------------
(* What other steps write while a device pulls.                             *)

\* A cursor is one change's: item_sync_changes.cursor is a primary key.
CursorsAreUnique ==
  /\ \A c \in feed : c.cursor \in Nat \ {0}
  /\ \A b, c \in feed : b.cursor = c.cursor => b = c

\* A batch appends later changes, and writes rows of a later revision only.
LEMMA LandsAfter ==
  ASSUME TypeInv, NEW p \in Plans \cup {NoPlan}, NEW ks \in SUBSET DOMAIN p.ops,
         Lands(p, ks)
  PROVE  /\ \A c \in feed' \ feed : c.rev > serverRevision /\ c.cursor > lastCursor
         /\ \A i \in Items : rows'[i] = rows[i] \/ rows'[i].rev > serverRevision
         /\ serverRevision <= serverRevision' /\ lastCursor <= lastCursor'
         /\ CursorsAreUnique => CursorsAreUnique'
<1> DEFINE n == serverRevision + 1
           new(k) == ChangeAt(p, k, n, lastCursor)
<1>1. /\ serverRevision \in Nat /\ n \in Nat /\ lastCursor \in Nat /\ n > serverRevision
      /\ serverRevision' = n /\ WriteOps(p, ks, n) /\ Len(p.ops) \in Nat
  BY PlanType DEF TypeInv, TypeOK, Lands
<1>2. \A c \in feed : c.cursor <= lastCursor /\ c.cursor \in Nat
  BY DEF TypeInv, TypeOK, Change
<1>3. lastCursor <= lastCursor'
  BY <1>1 DEF WriteOps
<1>4. /\ feed \subseteq feed'
      /\ \A c \in feed' \ feed :
           /\ c.cursor \in Nat /\ lastCursor < c.cursor /\ c.rev = n
           /\ \E k \in ks : c = new(k)
  <2> HIDE DEF n
  <2>1. TypeInv /\ p \in Plans \cup {NoPlan} /\ ks \in SUBSET DOMAIN p.ops
        /\ n \in Nat /\ WriteOps(p, ks, n)
    BY <1>1
  <2> QED BY ONLY <2>1, ChangesWritten
<1>5. \A i \in Items : rows'[i] = rows[i] \/ rows'[i].rev = n
  <2> HIDE DEF n
  <2> QED BY <1>1, RowsWritten
<1>6. \A k \in ks : k \in Nat /\ new(k).cursor = lastCursor + k
  BY PlanType DEF ChangeAt
<1>7. ASSUME CursorsAreUnique
      PROVE  CursorsAreUnique'
  <2> HIDE DEF n, new
  <2>1. ASSUME NEW b \in feed', NEW c \in feed', b.cursor = c.cursor
        PROVE  b = c
    <3>1. CASE b \in feed /\ c \in feed
      BY <1>7, <2>1, <3>1 DEF CursorsAreUnique
    <3>2. CASE b \notin feed /\ c \notin feed
      BY <1>1, <1>4, <1>6, <2>1, <3>2
    <3>3. CASE ~(b \in feed <=> c \in feed)
      BY <1>1, <1>2, <1>4, <2>1, <3>3
    <3> QED BY <3>1, <3>2, <3>3
  <2>2. ASSUME NEW c \in feed'
        PROVE  c.cursor \in Nat \ {0}
    BY <1>1, <1>4, <1>7 DEF CursorsAreUnique
  <2> QED BY <2>1, <2>2 DEF CursorsAreUnique
<1> QED BY <1>1, <1>3, <1>4, <1>5, <1>7

\* So does every step.
LEMMA WrittenAfter ==
  ASSUME OrderInv, CursorsAreUnique, [Next]_vars
  PROVE  /\ \A c \in feed' \ feed : c.rev > serverRevision /\ c.cursor > lastCursor
         /\ feed \subseteq feed'
         /\ \A i \in Items : \/ rows'[i] = rows[i]
                             \/ rows'[i].rev > serverRevision \/ rows'[i].owner = "other"
         /\ serverRevision <= serverRevision' /\ lastCursor <= lastCursor'
         /\ CursorsAreUnique'
<1>1. TypeInv /\ serverRevision \in Nat /\ lastCursor \in Nat /\ rows \in [Items -> Row]
  BY DEF OrderInv, TypeInv, TypeOK
<1>2. CASE NoItemWritten
  BY <1>1, <1>2 DEF NoItemWritten, CursorsAreUnique
<1>3. ASSUME NEW r \in Requests,
             \/ Lands(req[r].plan, Accepted(req[r]))
             \/ Lands(req[r].plan, LegacyWrites(req[r].plan))
      PROVE  /\ \A c \in feed' \ feed : c.rev > serverRevision /\ c.cursor > lastCursor
             /\ \A i \in Items : rows'[i] = rows[i] \/ rows'[i].rev > serverRevision
             /\ serverRevision <= serverRevision' /\ lastCursor <= lastCursor'
             /\ CursorsAreUnique' /\ feed \subseteq feed'
  <2>1. req[r] \in Request /\ req[r].plan \in Plans \cup {NoPlan}
    BY <1>1 DEF TypeInv, TypeOK, Request
  <2>2. /\ Accepted(req[r]) \in SUBSET DOMAIN req[r].plan.ops
        /\ LegacyWrites(req[r].plan) \in SUBSET DOMAIN req[r].plan.ops
    BY <2>1, DecisionType DEF LegacyWrites
  <2>3. feed \subseteq feed'
    BY <1>3 DEF Lands, WriteOps
  <2> QED BY <1>1, <1>3, <2>1, <2>2, <2>3, LandsAfter
<1>4. ASSUME NEW i \in SharedIds, ForeignCreate(i)
      PROVE  /\ feed' = feed /\ serverRevision' = serverRevision /\ lastCursor' = lastCursor
             /\ \A j \in Items : rows'[j] = rows[j] \/ rows'[j].owner = "other"
  <2>1. i \in Items
    BY StoreAssumption
  <2>2. rows'[i].owner = "other" /\ \A j \in Items : j # i => rows'[j] = rows[j]
    BY <1>1, <1>4, <2>1 DEF ForeignCreate, NoRow
  <2> QED BY <1>4, <2>2 DEF ForeignCreate
<1>5. CASE \E i \in SharedIds : ForeignCreate(i)
  BY <1>1, <1>4, <1>5 DEF CursorsAreUnique
<1> QED BY <1>2, <1>3, <1>5, TableSteps

\* A step is that of the device, which changes no table, or leaves it alone.
LEMMA ReaderSteps ==
  ASSUME TypeInv, [Next]_vars, NEW d \in Readers
  PROVE  reader'[d] = reader[d] \/ (Pull(d) /\ UNCHANGED tables)
<1>1. reader \in [Readers -> Reader]
  BY DEF TypeInv, TypeOK
<1>2. ASSUME NEW r \in Requests, Push(r) \/ LegacyPush(r)
      PROVE  reader' = reader
  BY <1>2 DEF Push, LegacyPush, Submit, ReadUser, ReadRows, ReadReceipts, NothingToWrite,
              Commit, CommitUnacknowledged, BatchRolledBack, RecheckRevision,
              RecheckReceipts, Leave, ReadOwners, LegacyCommit, LegacyRolledBack,
              LegacyCommitUnacknowledged, LegacyRecheck
<1>3. ASSUME NEW e \in Readers, Pull(e)
      PROVE  (e # d => reader'[d] = reader[d]) /\ UNCHANGED tables
  BY <1>1, <1>3 DEF Pull, PullReadUser, PullReadPage, VaultReadUser, VaultReadLive,
                    VaultReadDeleted
<1>4. ASSUME NEW i \in SharedIds, ForeignCreate(i)
      PROVE  reader' = reader
  BY <1>4 DEF ForeignCreate
<1> QED BY <1>2, <1>3, <1>4 DEF Next, vars

----------------------------------------------------------------------------
(* A page.                                                                  *)

\* The feed is finite: its cursors are an initial part of the naturals.
LEMMA FeedIsFinite ==
  ASSUME TypeInv, CursorsAreUnique
  PROVE  IsFiniteSet(feed)
<1> DEFINE f == [c \in feed |-> c.cursor]
<1>1. lastCursor \in Nat /\ \A c \in feed : c.cursor \in 1..lastCursor
  BY DEF TypeInv, TypeOK, CursorsAreUnique
<1>2. f \in [feed -> 1..lastCursor] /\ \A b, c \in feed : f[b] = f[c] => b = c
  BY <1>1 DEF CursorsAreUnique
<1>3. f \in Injection(feed, 1..lastCursor)
  <2> HIDE DEF f
  <2> QED BY <1>2 DEF Injection, IsInjective
<1>4. IsFiniteSet(1..lastCursor)
  BY <1>1, FS_Interval
<1> QED BY <1>3, <1>4, FS_Injection

\* A page has every change up to its last one, and none before the cursor.
LEMMA PageHasAll ==
  ASSUME TypeInv, CursorsAreUnique, NEW cursor \in Nat
  PROVE  LET page == Page(cursor)
             end == PageEnd(cursor, page)
         IN  /\ page = {c \in feed : cursor < c.cursor /\ c.cursor <= end}
             /\ end \in Nat /\ cursor <= end /\ (cursor <= lastCursor => end <= lastCursor)
<1> DEFINE page == Page(cursor)
           end == PageEnd(cursor, page)
           before(c) == {b \in After(cursor) : b.cursor < c.cursor}
<1>1. /\ lastCursor \in Nat
      /\ \A c \in feed : c.cursor \in Nat /\ c.cursor <= lastCursor
  BY DEF TypeInv, TypeOK, Change
<1>2. page \subseteq feed /\ \A c \in page : cursor < c.cursor
  BY DEF Page, After
<1>3. CASE page = {}
  <2>1. end = cursor
    BY <1>3 DEF PageEnd
  <2> QED BY <1>1, <1>3, <2>1
<1>4. CASE page # {}
  <2> DEFINE T == {c.cursor : c \in page}
  <2>1. T \in SUBSET Nat /\ T # {} /\ \A t \in T : t <= lastCursor
    BY <1>1, <1>2, <1>4
  <2>2. \E m \in T : \A t \in T : t <= m
    <3> HIDE DEF T
    <3> QED BY <1>1, <2>1, MaximumExists
  <2>3. end \in T /\ \A c \in page : c.cursor <= end
    <3>1. \E m \in T : \A c \in page : c.cursor <= m
      BY <2>2
    <3> HIDE DEF T
    <3>2. /\ (CHOOSE m \in T : \A c \in page : c.cursor <= m) \in T
          /\ \A c \in page : c.cursor <= (CHOOSE m \in T : \A b \in page : b.cursor <= m)
      <4> HIDE DEF page
      <4> QED BY <3>1
    <3> QED BY <1>4, <3>2 DEF PageEnd, T
  <2>4. PICK last \in page : last.cursor = end
    BY <2>3
  <2>5. ASSUME NEW c \in feed, cursor < c.cursor, c.cursor <= end
        PROVE  c \in page
    <3>1. c \in After(cursor) /\ before(c) \subseteq before(last)
      BY <1>1, <1>2, <2>4, <2>5 DEF After
    <3>2. IsFiniteSet(before(last))
      <4>1. before(last) \in SUBSET feed
        BY DEF After
      <4> HIDE DEF before
      <4> QED BY <4>1, FeedIsFinite, FS_Subset
    <3>3. /\ Cardinality(before(c)) <= Cardinality(before(last))
          /\ Cardinality(before(last)) \in Nat /\ Cardinality(before(c)) \in Nat
      <4> HIDE DEF before
      <4>1. IsFiniteSet(before(c)) /\ Cardinality(before(c)) <= Cardinality(before(last))
        BY <3>1, <3>2, FS_Subset
      <4> QED BY <3>2, <4>1, FS_CardinalityType
    <3>4. Cardinality(before(last)) < PageLimit
      BY <2>4 DEF Page
    <3>5. Cardinality(before(c)) < PageLimit
      <4> HIDE DEF before
      <4> QED BY <3>3, <3>4, StoreAssumption
    <3> QED BY <3>1, <3>5 DEF Page
  <2>6. page = {c \in feed : cursor < c.cursor /\ c.cursor <= end}
    <3> HIDE DEF page, end
    <3> QED BY <1>2, <2>3, <2>5
  <2>7. end \in Nat /\ cursor < end /\ end <= lastCursor
    <3> HIDE DEF end
    <3> QED BY <1>1, <1>2, <2>4
  <2> QED BY <2>6, <2>7
<1> QED BY <1>3, <1>4

\* A page is empty only where the feed ends: no change is before the first one
\* after the cursor, and a page has room for one.
LEMMA PageHasFirst ==
  ASSUME TypeInv, NEW cursor \in Nat, After(cursor) # {}
  PROVE  Page(cursor) # {}
<1> DEFINE T == {c.cursor : c \in After(cursor)}
           R == {ss \in Nat \X Nat : ss[1] < ss[2]}
           before(c) == {b \in After(cursor) : b.cursor < c.cursor}
<1>1. \A c \in After(cursor) : c.cursor \in Nat
  BY DEF TypeInv, TypeOK, Change, After
<1>2. PICK n \in T : \A m \in T : ~(<<m, n>> \in R)
  <2>1. T \subseteq Nat /\ T # {}
    BY <1>1
  <2>2. IsWellFoundedOn(R, Nat)
    BY NatLessThanWellFounded DEF OpToRel
  <2> HIDE DEF R, T
  <2> QED BY <2>1, <2>2, WFMin
<1>3. PICK c \in After(cursor) : c.cursor = n
  OBVIOUS
<1>4. before(c) = {}
  BY <1>1, <1>2, <1>3
<1>5. Cardinality(before(c)) < PageLimit
  <2> HIDE DEF before
  <2> QED BY <1>4, FS_EmptySet, StoreAssumption
<1>6. c \in feed
  BY DEF After
<1> QED BY <1>5 DEF Page

----------------------------------------------------------------------------
(* The invariant of one device.                                             *)

\* ReaderMissesNothing, PulledRevisionIsCovered and VaultPullIsCurrent for d,
\* and what the second read of a vault pull has returned before the third.
NothingMissed(d) ==
  \A c \in Readable(feed) :
    /\ c.cursor <= reader[d].cursor
    /\ \A b \in Readable(feed) :
         b.item = c.item /\ b.cursor <= reader[d].cursor => b.cursor <= c.cursor
    => reader[d].view[c.item] = EntryOf(c)

RevisionCovered(d) ==
  reader[d].pc = "pulled" /\ ~reader[d].hasMore =>
    \A c \in feed : c.rev <= reader[d].rev => c.cursor <= reader[d].cursor

LiveIsCurrent(d) ==
  reader[d].pc \in {"deleted", "vaultPulled"} =>
    \A i \in Items : rows[i].owner = "self" /\ rows[i].rev <= reader[d].rev =>
      IF rows[i].deleted
      THEN \A v \in reader[d].live : v.item # i
      ELSE [item |-> i, rev |-> rows[i].rev, mut |-> rows[i].mut] \in reader[d].live

GoneIsCurrent(d) ==
  reader[d].pc = "vaultPulled" =>
    \A i \in Items : rows[i].owner = "self" /\ rows[i].rev <= reader[d].rev =>
      (rows[i].deleted <=> i \in reader[d].gone)

ReaderInv(d) ==
  /\ reader[d].rev <= serverRevision
  /\ reader[d].cursor <= lastCursor
  /\ NothingMissed(d)
  /\ RevisionCovered(d)
  /\ LiveIsCurrent(d)
  /\ GoneIsCurrent(d)

\* The device's part of the state is typed.
LEMMA ReaderType ==
  ASSUME TypeInv, NEW d \in Readers
  PROVE  /\ reader \in [Readers -> Reader] /\ reader[d] \in Reader
         /\ reader[d].rev \in Nat /\ reader[d].cursor \in Nat
         /\ reader[d].view \in [Items -> Entry]
BY DEF TypeInv, TypeOK, Reader

\* What others write while the device does nothing is none of its business: it
\* is past its cursor and past the revision it has read.
LEMMA ReaderKept ==
  ASSUME OrderInv, CursorsAreUnique, [Next]_vars, NEW d \in Readers, ReaderInv(d),
         reader'[d] = reader[d]
  PROVE  ReaderInv(d)'
<1> DEFINE q == reader[d]
<1>1. /\ q.rev \in Nat /\ q.cursor \in Nat /\ serverRevision \in Nat /\ lastCursor \in Nat
      /\ TypeInv /\ TypeInv' /\ q.rev <= serverRevision /\ q.cursor <= lastCursor
  BY ReaderType, OrderStep DEF OrderInv, TypeInv, TypeOK, ReaderInv
<1>2. /\ serverRevision' \in Nat /\ lastCursor' \in Nat
      /\ \A c \in feed' : c.cursor \in Nat /\ c.rev \in Nat
      /\ \A i \in Items : rows'[i].rev \in Nat
  BY <1>1 DEF TypeInv, TypeOK, Change, Row
<1>3. /\ \A c \in feed' \ feed : c.rev > serverRevision /\ c.cursor > lastCursor
      /\ feed \subseteq feed'
      /\ \A i \in Items : \/ rows'[i] = rows[i]
                          \/ rows'[i].rev > serverRevision \/ rows'[i].owner = "other"
      /\ serverRevision <= serverRevision' /\ lastCursor <= lastCursor'
  BY WrittenAfter
<1>4. /\ \A c \in feed' : c.cursor <= q.cursor => c \in feed
      /\ \A c \in feed' : c.rev <= q.rev => c \in feed
      /\ \A i \in Items : rows'[i].owner = "self" /\ rows'[i].rev <= q.rev
           => rows'[i] = rows[i]
  <2> HIDE DEF q
  <2>1. \A c \in feed' : c \in feed \/ (c.rev > serverRevision /\ c.cursor > lastCursor)
    BY <1>3
  <2> QED BY <1>1, <1>2, <1>3, <2>1
<1>5. NothingMissed(d)'
  <2>1. reader[d].cursor = reader'[d].cursor /\ reader[d].view = reader'[d].view
    OBVIOUS
  <2>2. Readable(feed) \subseteq Readable(feed')
    BY <1>3 DEF Readable
  <2>3. \A c \in Readable(feed') : c.cursor <= q.cursor => c \in Readable(feed)
    BY <1>4 DEF Readable
  <2> QED BY <2>1, <2>2, <2>3 DEF NothingMissed, ReaderInv, Readable
<1>6. RevisionCovered(d)'
  BY <1>4 DEF RevisionCovered, ReaderInv
<1>7. LiveIsCurrent(d)' /\ GoneIsCurrent(d)'
  BY <1>4 DEF LiveIsCurrent, GoneIsCurrent, ReaderInv
<1>8. q.rev <= serverRevision' /\ q.cursor <= lastCursor'
  <2> HIDE DEF q
  <2> QED BY <1>1, <1>2, <1>3
<1> QED BY <1>5, <1>6, <1>7, <1>8 DEF ReaderInv

\* A page brings the device up to the page's end.
LEMMA PageRead ==
  ASSUME OrderInv, CursorsAreUnique, NEW d \in Readers, ReaderInv(d), PullReadPage(d)
  PROVE  ReaderInv(d)'
<1> DEFINE q == reader[d]
           page == Page(q.cursor)
           shown == Readable(page)
           end == PageEnd(q.cursor, page)
<1>1. /\ q \in Reader /\ q.rev \in Nat /\ q.cursor \in Nat /\ reader \in [Readers -> Reader]
      /\ lastCursor \in Nat /\ TypeInv /\ q.cursor <= lastCursor /\ q.rev <= serverRevision
      /\ \A c \in feed : c.cursor \in Nat /\ c.item \in Items
  BY ReaderType DEF OrderInv, TypeInv, TypeOK, Change, ReaderInv
<1>2. /\ page = {c \in feed : q.cursor < c.cursor /\ c.cursor <= end}
      /\ end \in Nat /\ q.cursor <= end /\ end <= lastCursor
  <2> HIDE DEF q
  <2> QED BY <1>1, PageHasAll
<1>3. /\ UNCHANGED tables
      /\ reader'[d].rev = q.rev /\ reader'[d].cursor = end /\ reader'[d].pc = "pulled"
      /\ reader'[d].hasMore = HasMore(q.cursor, page)
      /\ reader'[d].view = Applied(q.view, shown)
  BY <1>1 DEF PullReadPage, Reader
<1>4. shown = {c \in Readable(feed) : q.cursor < c.cursor /\ c.cursor <= end}
  <2> HIDE DEF page, end
  <2> QED BY <1>2 DEF Readable
<1>5. Readable(feed) \subseteq feed
  BY DEF Readable
<1> HIDE DEF page, shown, end
<1>6. ASSUME NEW c \in Readable(feed), c.cursor <= end,
             \A b \in Readable(feed) : b.item = c.item /\ b.cursor <= end => b.cursor <= c.cursor
      PROVE  Applied(q.view, shown)[c.item] = EntryOf(c)
  <2>1. CASE q.cursor < c.cursor
    <3> DEFINE Last(e) == /\ e.item = c.item
                          /\ \A b \in shown : b.item = c.item => b.cursor <= e.cursor
    <3>1. c \in shown /\ Last(c)
      BY <1>6, <1>4, <2>1
    <3>2. \A e \in shown : Last(e) => e = c
      <4> SUFFICES ASSUME NEW e \in shown, Last(e) PROVE e = c
        OBVIOUS
      <4>1. e \in Readable(feed) /\ e \in feed /\ e.cursor <= c.cursor /\ c.cursor <= e.cursor
        BY <1>6, <1>4, <1>5, <3>1
      <4>2. e.cursor = c.cursor
        BY <1>1, <1>5, <4>1
      <4> QED BY <1>5, <4>1, <4>2 DEF CursorsAreUnique
    <3>3. (CHOOSE e \in shown : Last(e)) = c
      BY <3>1, <3>2
    <3> QED BY <1>1, <1>5, <3>1, <3>3 DEF Applied, EntryOf
  <2>2. CASE ~(q.cursor < c.cursor)
    <3>1. c.cursor <= q.cursor
      BY <1>1, <1>5, <2>2
    <3>2. \A b \in shown : b.item # c.item
      <4> SUFFICES ASSUME NEW b \in shown, b.item = c.item PROVE FALSE
        OBVIOUS
      <4>1. b \in feed /\ b \in Readable(feed) /\ q.cursor < b.cursor /\ b.cursor <= c.cursor
        BY <1>6, <1>4, <1>5
      <4> QED BY <1>1, <1>5, <3>1, <4>1
    <3>3. \A b \in Readable(feed) : b.item = c.item /\ b.cursor <= q.cursor => b.cursor <= c.cursor
      <4> SUFFICES ASSUME NEW b \in Readable(feed), b.item = c.item, b.cursor <= q.cursor
                   PROVE  b.cursor <= c.cursor
        OBVIOUS
      <4>1. b.cursor <= end
        BY <1>1, <1>2, <1>5
      <4> QED BY <1>6, <4>1
    <3>4. q.view[c.item] = EntryOf(c)
      BY <3>1, <3>3 DEF ReaderInv, NothingMissed
    <3> QED BY <1>1, <1>5, <3>2, <3>4 DEF Applied
  <2> QED BY <2>1, <2>2
<1>7. NothingMissed(d)'
  BY <1>3, <1>6 DEF NothingMissed, Readable, tables
<1>8. RevisionCovered(d)'
  <2>1. ASSUME ~HasMore(q.cursor, page), NEW c \in feed
        PROVE  c.cursor <= end
    <3>1. page = After(q.cursor)
      BY <2>1 DEF HasMore
    <3>2. CASE q.cursor < c.cursor
      BY <1>1, <1>2, <3>1, <3>2 DEF After
    <3>3. CASE ~(q.cursor < c.cursor)
      BY <1>1, <1>2, <3>3
    <3> QED BY <3>2, <3>3
  <2> QED BY <1>3, <2>1 DEF RevisionCovered, tables
<1>9. LiveIsCurrent(d)' /\ GoneIsCurrent(d)'
  BY <1>3 DEF LiveIsCurrent, GoneIsCurrent
<1> QED BY <1>1, <1>2, <1>3, <1>7, <1>8, <1>9 DEF ReaderInv, tables

\* Every other step of the device keeps cursor and view.
LEMMA OtherRead ==
  ASSUME OrderInv, NEW d \in Readers, ReaderInv(d),
         PullReadUser(d) \/ VaultReadUser(d) \/ VaultReadLive(d) \/ VaultReadDeleted(d)
  PROVE  ReaderInv(d)'
<1>1. /\ reader[d] \in Reader /\ reader \in [Readers -> Reader]
      /\ serverRevision \in Nat
  BY ReaderType DEF OrderInv, TypeInv, TypeOK
<1>2. /\ UNCHANGED tables
      /\ reader'[d].cursor = reader[d].cursor /\ reader'[d].view = reader[d].view
      /\ reader'[d].pc # "pulled"
      /\ reader'[d].rev \in {reader[d].rev, serverRevision}
  BY <1>1 DEF PullReadUser, VaultReadUser, VaultReadLive, VaultReadDeleted, Reader
<1>3. NothingMissed(d)' /\ RevisionCovered(d)'
  BY <1>2 DEF ReaderInv, NothingMissed, RevisionCovered, tables
<1>4. CASE PullReadUser(d) \/ VaultReadUser(d)
  <2>1. reader'[d].pc \in {"page", "live"}
    BY <1>1, <1>4 DEF PullReadUser, VaultReadUser, Reader
  <2> QED BY <1>1, <1>2, <1>3, <2>1 DEF ReaderInv, LiveIsCurrent, GoneIsCurrent, tables
<1>5. CASE VaultReadLive(d)
  <2>1. /\ reader'[d].pc = "deleted"
        /\ reader'[d].live =
             {[item |-> i, rev |-> rows[i].rev, mut |-> rows[i].mut] :
                i \in {j \in Items : rows[j].owner = "self" /\ ~rows[j].deleted}}
    BY <1>1, <1>5 DEF VaultReadLive, Reader
  <2>2. LiveIsCurrent(d)' /\ GoneIsCurrent(d)'
    BY <1>2, <2>1 DEF LiveIsCurrent, GoneIsCurrent, tables
  <2> QED BY <1>1, <1>2, <1>3, <2>2 DEF ReaderInv, tables
<1>6. CASE VaultReadDeleted(d)
  <2>1. /\ reader[d].pc = "deleted" /\ reader'[d].live = reader[d].live
        /\ reader'[d].rev = reader[d].rev
        /\ reader'[d].gone = {i \in Items : rows[i].owner = "self" /\ rows[i].deleted}
    BY <1>1, <1>6 DEF VaultReadDeleted, Reader
  <2>2. LiveIsCurrent(d)' /\ GoneIsCurrent(d)'
    BY <1>2, <2>1 DEF ReaderInv, LiveIsCurrent, GoneIsCurrent, tables
  <2> QED BY <1>1, <1>2, <1>3, <2>2 DEF ReaderInv, tables
<1> QED BY <1>4, <1>5, <1>6

----------------------------------------------------------------------------
(* Every device, in every state.                                            *)

ReadInv == CursorsAreUnique /\ \A d \in Readers : ReaderInv(d)

LEMMA ReadStep ==
  ASSUME OrderInv, ReadInv, [Next]_vars
  PROVE  ReadInv'
<1>1. CursorsAreUnique'
  BY WrittenAfter DEF ReadInv
<1>2. ASSUME NEW d \in Readers
      PROVE  ReaderInv(d)'
  <2>1. CASE reader'[d] = reader[d]
    BY <2>1, ReaderKept DEF ReadInv
  <2>2. CASE Pull(d)
    BY <2>2, PageRead, OtherRead DEF ReadInv, Pull
  <2> QED BY <2>1, <2>2, ReaderSteps DEF OrderInv
<1> QED BY <1>1, <1>2 DEF ReadInv

LEMMA ReadInit == Init => ReadInv
<1> SUFFICES ASSUME Init PROVE ReadInv
  OBVIOUS
<1>1. /\ feed = {} /\ serverRevision = 0 /\ lastCursor = 0
      /\ \A d \in Readers : reader[d] = NewReader
  BY DEF Init
<1> QED BY <1>1 DEF ReadInv, CursorsAreUnique, ReaderInv, NothingMissed, Readable,
                    RevisionCovered, LiveIsCurrent, GoneIsCurrent, NewReader

LEMMA ReadersInv == Spec => []ReadInv
<1>1. OrderInv /\ ReadInv /\ [Next]_vars => (OrderInv /\ ReadInv)'
  BY OrderStep, ReadStep
<1> QED BY <1>1, OrderInit, ReadInit, PTL DEF Spec

\* A device that pulls page by page misses no change up to its cursor, whatever
\* is pushed between its pages and however small they are.
THEOREM PagesMissNothing == Spec => []ReaderMissesNothing
<1>1. ReadInv => ReaderMissesNothing
  BY DEF ReadInv, ReaderInv, NothingMissed, ReaderMissesNothing, EntryOf
<1> QED BY <1>1, ReadersInv, PTL

\* A device that asks for pages until there are no more gets to the end: whatever
\* rows of a page are dropped, the cursor of a page with another one behind it is
\* past where the page began.
THEOREM EveryPageAdvances == Spec => PagesAdvance
<1>1. ASSUME OrderInv, CursorsAreUnique, NEW d \in Readers, PullReadPage(d),
             reader'[d].hasMore
      PROVE  reader[d].cursor < reader'[d].cursor
  <2> DEFINE cursor == reader[d].cursor
             page == Page(cursor)
             end == PageEnd(cursor, page)
  <2>1. TypeInv /\ reader \in [Readers -> Reader] /\ cursor \in Nat
    BY <1>1, ReaderType DEF OrderInv
  <2>2. reader'[d].cursor = end /\ page # After(cursor)
    BY <1>1, <2>1 DEF PullReadPage, HasMore, Reader
  <2>3. page \subseteq After(cursor) /\ After(cursor) \subseteq feed
    BY DEF Page, After
  <2>4. PICK c \in page : TRUE
    <3> HIDE DEF cursor
    <3>1. After(cursor) # {}
      BY <2>2, <2>3
    <3> QED BY <2>1, <3>1, PageHasFirst
  <2>5. end \in Nat /\ cursor < c.cursor /\ c.cursor <= end /\ c \in feed
    <3> HIDE DEF cursor
    <3> QED BY <1>1, <2>1, <2>4, PageHasAll
  <2>6. c.cursor \in Nat
    BY <2>1, <2>5 DEF TypeInv, TypeOK, Change
  <2> HIDE DEF cursor, end
  <2>7. cursor < end
    BY <2>1, <2>5, <2>6
  <2> QED BY <2>2, <2>7 DEF cursor
<1>2. OrderInv /\ ReadInv /\ [Next]_vars =>
        [\A d \in Readers : PullReadPage(d) /\ reader'[d].hasMore =>
           reader[d].cursor < reader'[d].cursor]_reader
  BY <1>1 DEF ReadInv
<1>3. OrderInv /\ ReadInv /\ [Next]_vars => (OrderInv /\ ReadInv)'
  BY OrderStep, ReadStep
<1> QED BY <1>2, <1>3, OrderInit, ReadInit, PTL DEF Spec, PagesAdvance

\* The revision that a last page returns is covered by the pages: it was read
\* before them, so that a change of it can only be in them.
THEOREM RevisionsAreCovered == Spec => []PulledRevisionIsCovered
<1>1. ReadInv => PulledRevisionIsCovered
  BY DEF ReadInv, ReaderInv, RevisionCovered, PulledRevisionIsCovered
<1> QED BY <1>1, ReadersInv, PTL

\* A vault pull is current at its revision although it is three reads: an item
\* of no later revision is returned as it is, on one side only.
THEOREM VaultPullsAreCurrent == Spec => []VaultPullIsCurrent
<1>1. ReadInv => VaultPullIsCurrent
  BY DEF ReadInv, ReaderInv, LiveIsCurrent, GoneIsCurrent, VaultPullIsCurrent
<1> QED BY <1>1, ReadersInv, PTL

=============================================================================
