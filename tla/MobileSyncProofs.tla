-------------------------- MODULE MobileSyncProofs --------------------------
(***************************************************************************)
(* What the phones hold, for every number of phones, items, edits and      *)
(* pages.                                                                  *)
(*                                                                         *)
(* First the queue of a phone matches its rows, whatever the server        *)
(* answers.  That invariant, IInv, speaks of one phone's tables only, so   *)
(* its proof needs nothing of the server: a step replaces rows and queue   *)
(* entries of some items, and those it writes agree.  What has to be added *)
(* to it is the shape of the tables.                                       *)
(*                                                                         *)
(* Then the tables of a phone match the server's.  That a row without a    *)
(* queue entry was served is not inductive: the row may come from an       *)
(* answer, from a conflict, from a backup or from the queue.  The          *)
(* invariant Synced therefore says of each of these where it comes from,   *)
(* and of each item that something of the phone covers what the feed holds *)
(* behind the cursor.                                                      *)
(***************************************************************************)
EXTENDS MobileSync, SharedStoreProofs

Fields == {"unlocked", "pc", "rows", "pending", "conflicts", "cursor", "answered",
           "backup", "left", "taken"}

\* The tables have a row for every item, the clock is a number.
Shape ==
  /\ clock \in Nat
  /\ DOMAIN phone = Clients
  /\ \A p \in Clients :
       /\ DOMAIN phone[p] = Fields
       /\ DOMAIN phone[p].rows = Items
       /\ DOMAIN phone[p].pending = Items
       /\ phone[p].backup # NoBackup =>
            /\ DOMAIN phone[p].backup.rows = Items
            /\ DOMAIN phone[p].backup.pending = Items

IInv == Shape /\ QueueMatchesRows

----------------------------------------------------------------------------
(* Rows and queue entries.                                                  *)

\* A row that is not a tombstone agrees with an empty queue.
LEMMA LiveAgrees ==
  ASSUME NEW stamp, NEW rev
  PROVE  Agree(Row(stamp, rev), NoPending)
  BY DEF Agree, Row, NoPending

\* So does no row.
LEMMA NothingAgrees == Agree(NoRow, NoPending)
  BY DEF Agree, NoRow, NoPending

\* A version agrees with the mutation that is queued with it.
LEMMA QueuedAgrees ==
  ASSUME NEW p, NEW i, NEW base, NEW rev, clock \in Nat
  PROVE  Agree(Row(clock + 1, rev), Queued(p, "upsert", i, clock + 1, base))
  <1>1. clock + 1 # 0
    OBVIOUS
  <1> QED BY <1>1 DEF Agree, Visible, Row, NoRow, Queued

\* A step keeps the invariant when it touches one phone, whose tables keep their
\* shape and agree afterwards.
LEMMA OnePhone ==
  ASSUME IInv, NEW p \in Clients, clock' \in Nat,
         NEW client, phone' = [phone EXCEPT ![p] = client],
         DOMAIN client = Fields, DOMAIN client.rows = Items, DOMAIN client.pending = Items,
         client.backup # NoBackup =>
           /\ DOMAIN client.backup.rows = Items /\ DOMAIN client.backup.pending = Items,
         \A i \in Items :
           /\ Agree(client.rows[i], client.pending[i])
           /\ client.backup # NoBackup => Agree(client.backup.rows[i], client.backup.pending[i])
  PROVE  IInv'
  <1>1. DOMAIN phone' = Clients /\ phone'[p] = client
    BY DEF IInv, Shape
  <1>2. \A q \in Clients : q # p => phone'[q] = phone[q]
    BY DEF IInv, Shape
  <1>3. Shape'
    BY <1>1, <1>2 DEF IInv, Shape
  <1>4. QueueMatchesRows'
    BY <1>1, <1>2 DEF IInv, QueueMatchesRows
  <1> QED BY <1>3, <1>4 DEF IInv

\* The same of a step that leaves the backup alone.
LEMMA SameBackup ==
  ASSUME IInv, NEW p \in Clients, clock' \in Nat,
         NEW client, phone' = [phone EXCEPT ![p] = client],
         DOMAIN client = Fields, DOMAIN client.rows = Items, DOMAIN client.pending = Items,
         client.backup = phone[p].backup,
         \A i \in Items : Agree(client.rows[i], client.pending[i])
  PROVE  IInv'
<1>1. client.backup # NoBackup =>
        /\ DOMAIN client.backup.rows = Items /\ DOMAIN client.backup.pending = Items
        /\ \A i \in Items : Agree(client.backup.rows[i], client.backup.pending[i])
  BY DEF IInv, Shape, QueueMatchesRows
<1> QED BY ONLY IInv, p \in Clients, clock' \in Nat, phone' = [phone EXCEPT ![p] = client],
                DOMAIN client = Fields, DOMAIN client.rows = Items,
                DOMAIN client.pending = Items, <1>1, OnePhone,
                \A i \in Items : Agree(client.rows[i], client.pending[i])

----------------------------------------------------------------------------
(* The operations of the user.                                              *)

\* Saving an item queues the version that its row gets.
LEMMA SaveItemKeeps ==
  ASSUME IInv, NEW p \in Clients, NEW i \in Items, SaveItem(p, i)
  PROVE  IInv'
<1> DEFINE row == Row(clock + 1, phone[p].rows[i].rev)
           queued == Queued(p, "upsert", i, clock + 1, BaseOf(p, i))
           client == [phone[p] EXCEPT !.rows = [@ EXCEPT ![i] = row],
                                      !.pending = [@ EXCEPT ![i] = queued]]
<1>1. phone' = [phone EXCEPT ![p] = client] /\ clock' = clock + 1
  BY DEF SaveItem, MakeVersion
<1>2. Agree(row, queued)
  BY QueuedAgrees DEF IInv, Shape
<1> HIDE DEF row, queued
<1>3. /\ DOMAIN client = Fields /\ DOMAIN client.rows = Items /\ DOMAIN client.pending = Items
      /\ client.backup = phone[p].backup
  BY DEF IInv, Shape, Fields
<1>4. \A j \in Items : Agree(client.rows[j], client.pending[j])
  BY <1>2 DEF IInv, Shape, Fields, QueueMatchesRows
<1> HIDE DEF client
<1>5. clock' \in Nat
  BY <1>1 DEF IInv, Shape
<1> QED BY <1>1, <1>3, <1>4, <1>5, SameBackup

\* A deletion queues itself with its tombstone, or forgets the item and its mutation.
LEMMA DeleteItemKeeps ==
  ASSUME IInv, NEW p \in Clients, NEW i \in Items, DeleteItem(p, i)
  PROVE  IInv'
<1> DEFINE hidden == Tombstone(phone[p].rows[i])
           queued == Queued(p, "delete", i, 0, BaseOf(p, i))
           forgotten == {j \in {i} : InConflict(p, j)}
           Client(row, mutation, left) ==
             [phone[p] EXCEPT !.rows = [@ EXCEPT ![i] = row],
                              !.pending = [@ EXCEPT ![i] = mutation], !.left = left]
<1>1. /\ \/ phone' = [phone EXCEPT ![p] = Client(NoRow, NoPending, phone[p].left \cup forgotten)]
         \/ phone' = [phone EXCEPT ![p] = Client(hidden, queued, phone[p].left)]
      /\ clock' = clock + 1
  <2>1. CASE phone[p].pending[i].kind = "upsert" /\ phone[p].pending[i].base = 0
    BY <2>1 DEF DeleteItem
  <2>2. CASE ~(phone[p].pending[i].kind = "upsert" /\ phone[p].pending[i].base = 0)
    <3>1. phone' = [phone EXCEPT ![p] =
             [phone[p] EXCEPT !.rows = [@ EXCEPT ![i] = hidden],
                              !.pending = [@ EXCEPT ![i] = queued]]]
      BY <2>2 DEF DeleteItem
    <3>2. [phone[p] EXCEPT !.rows = [@ EXCEPT ![i] = hidden],
                           !.pending = [@ EXCEPT ![i] = queued]]
            = Client(hidden, queued, phone[p].left)
      BY DEF IInv, Shape, Fields
    <3>3. clock' = clock + 1
      BY DEF DeleteItem
    <3> QED BY <3>1, <3>2, <3>3
  <2> QED BY <2>1, <2>2
<1>2. Agree(NoRow, NoPending) /\ Agree(hidden, queued)
  BY NothingAgrees DEF Agree, Tombstone, NoRow, Queued
<1> HIDE DEF hidden, queued
<1>3. ASSUME NEW row, NEW mutation, NEW left, Agree(row, mutation),
             phone' = [phone EXCEPT ![p] = Client(row, mutation, left)]
      PROVE  IInv'
  <2>1. /\ DOMAIN Client(row, mutation, left) = Fields
        /\ DOMAIN Client(row, mutation, left).rows = Items
        /\ DOMAIN Client(row, mutation, left).pending = Items
        /\ Client(row, mutation, left).backup = phone[p].backup
    BY DEF IInv, Shape, Fields
  <2>2. \A j \in Items : Agree(Client(row, mutation, left).rows[j], Client(row, mutation, left).pending[j])
    BY <1>3 DEF IInv, Shape, Fields, QueueMatchesRows
  <2> DEFINE client == Client(row, mutation, left)
  <2>3. phone' = [phone EXCEPT ![p] = client] /\ clock' = clock + 1
    BY <1>1, <1>3
  <2>4. \A j \in Items : Agree(client.rows[j], client.pending[j])
    BY ONLY <2>2
  <2>5. /\ DOMAIN client = Fields /\ DOMAIN client.rows = Items /\ DOMAIN client.pending = Items
        /\ client.backup = phone[p].backup
    BY ONLY <2>1
  <2> HIDE DEF Client, client
  <2>6. clock' \in Nat
    BY <2>3 DEF IInv, Shape
  <2> QED BY <2>3, <2>4, <2>5, <2>6, SameBackup
<1> QED BY <1>1, <1>2, <1>3

\* An import queues the version of every row that it adds.
LEMMA ImportItemsKeeps ==
  ASSUME IInv, NEW p \in Clients, NEW S \in SUBSET Items, ImportItems(p, S)
  PROVE  IInv'
<1> DEFINE rows == [i \in Items |-> IF i \in S THEN Row(clock + 1, 0) ELSE phone[p].rows[i]]
           pending == [i \in Items |-> IF i \in S THEN Queued(p, "upsert", i, clock + 1, 0)
                                                 ELSE phone[p].pending[i]]
           client == [phone[p] EXCEPT !.rows = rows, !.pending = pending, !.unlocked = FALSE]
<1>1. phone' = [phone EXCEPT ![p] = client] /\ clock' = clock + 1
  BY DEF ImportItems
<1>2. \A i \in Items : Agree(rows[i], pending[i])
  <2> SUFFICES ASSUME NEW i \in Items PROVE Agree(rows[i], pending[i])
    OBVIOUS
  <2>1. CASE i \in S
    BY <2>1, QueuedAgrees DEF IInv, Shape
  <2>2. CASE i \notin S
    BY <2>2 DEF IInv, QueueMatchesRows
  <2> QED BY <2>1, <2>2
<1>3. DOMAIN rows = Items /\ DOMAIN pending = Items
  OBVIOUS
<1> HIDE DEF rows, pending
<1>4. /\ DOMAIN client = Fields /\ client.rows = rows /\ client.pending = pending
      /\ client.backup = phone[p].backup
  BY DEF IInv, Shape, Fields
<1> HIDE DEF client
<1> QED BY <1>1, <1>2, <1>3, <1>4, OnePhone DEF IInv, Shape, QueueMatchesRows

----------------------------------------------------------------------------
(* Conflicts.                                                               *)

\* Keeping the local side queues what the row shows, or the deletion it hides.
LEMMA KeepLocalKeeps ==
  ASSUME IInv, NEW p \in Clients, NEW i \in Items, KeepLocal(p, i)
  PROVE  IInv'
<1> DEFINE row == phone[p].rows[i]
           kind == IF phone[p].pending[i] # NoPending THEN phone[p].pending[i].kind
                   ELSE IF row.deleted THEN "delete" ELSE "upsert"
           queued == Queued(p, kind, i, IF kind = "delete" THEN 0 ELSE row.stamp,
                            phone[p].conflicts[i].rev)
           client == [phone[p] EXCEPT !.pending = [@ EXCEPT ![i] = queued],
                                      !.conflicts = [@ EXCEPT ![i] = NoConflict]]
<1>1. /\ phone' = [phone EXCEPT ![p] = client] /\ clock' = clock + 1
      /\ row # NoRow
  <2>1. /\ phone' = [phone EXCEPT ![p].pending[i] = queued, ![p].conflicts[i] = NoConflict]
        /\ clock' = clock + 1 /\ row # NoRow
    BY Zenon DEF KeepLocal
  <2> HIDE DEF queued, row
  <2> QED BY <2>1
<1>2. Agree(row, phone[p].pending[i])
  BY DEF IInv, QueueMatchesRows
<1>3. Agree(row, queued)
  BY <1>1, <1>2 DEF Agree, Visible, Queued, NoPending
<1> HIDE DEF queued
<1>4. /\ DOMAIN client = Fields /\ DOMAIN client.rows = Items /\ DOMAIN client.pending = Items
      /\ client.backup = phone[p].backup
  BY DEF IInv, Shape, Fields
<1>5. \A j \in Items : Agree(client.rows[j], client.pending[j])
  BY <1>3 DEF IInv, Shape, Fields, QueueMatchesRows
<1> HIDE DEF client
<1>6. clock' \in Nat
  BY <1>1 DEF IInv, Shape
<1> QED BY <1>1, <1>4, <1>5, <1>6, SameBackup

\* The remote version takes the place of the row, and nothing stays queued.
LEMMA WithRemoteAgrees ==
  ASSUME IInv, NEW p \in Clients, NEW i \in Items
  PROVE  LET client == WithRemote(phone[p], i)
         IN  /\ DOMAIN client = Fields /\ DOMAIN client.rows = Items
             /\ DOMAIN client.pending = Items /\ client.backup = phone[p].backup
             /\ \A j \in Items : Agree(client.rows[j], client.pending[j])
<1> DEFINE remote == phone[p].conflicts[i]
           row == IF remote.stamp = 0 THEN NoRow ELSE Row(remote.stamp, remote.rev)
           client == [phone[p] EXCEPT !.rows = [@ EXCEPT ![i] = row],
                                      !.pending = [@ EXCEPT ![i] = NoPending],
                                      !.conflicts = [@ EXCEPT ![i] = NoConflict]]
<1>1. WithRemote(phone[p], i) = client
  BY DEF WithRemote
<1>2. Agree(row, NoPending)
  BY LiveAgrees, NothingAgrees
<1> HIDE DEF row
<1>3. /\ DOMAIN client = Fields /\ DOMAIN client.rows = Items /\ DOMAIN client.pending = Items
      /\ client.backup = phone[p].backup
  BY DEF IInv, Shape, Fields
<1>4. \A j \in Items : Agree(client.rows[j], client.pending[j])
  BY <1>2 DEF IInv, Shape, Fields, QueueMatchesRows
<1> HIDE DEF client
<1> QED BY <1>1, <1>3, <1>4

\* Accepting the remote side leaves nothing queued.
LEMMA AcceptRemoteKeeps ==
  ASSUME IInv, NEW p \in Clients, NEW i \in Items, AcceptRemote(p, i)
  PROVE  IInv'
<1> DEFINE client == WithRemote(phone[p], i)
<1>1. phone' = [phone EXCEPT ![p] = client] /\ clock' = clock
  BY DEF AcceptRemote, world
<1>2. /\ DOMAIN client = Fields /\ DOMAIN client.rows = Items
      /\ DOMAIN client.pending = Items /\ client.backup = phone[p].backup
      /\ \A j \in Items : Agree(client.rows[j], client.pending[j])
  BY WithRemoteAgrees
<1> HIDE DEF client
<1> QED BY <1>1, <1>2, OnePhone DEF IInv, Shape, QueueMatchesRows

\* A copy is queued with its own row, after the remote side was accepted.
LEMMA CreateCopyKeeps ==
  ASSUME IInv, NEW p \in Clients, NEW i \in Items, NEW j \in Items, CreateCopy(p, i, j)
  PROVE  IInv'
<1> DEFINE taken == WithRemote(phone[p], i)
           row == Row(clock + 1, 0)
           queued == Queued(p, "upsert", j, clock + 1, 0)
           client == [taken EXCEPT !.rows = [@ EXCEPT ![j] = row],
                                   !.pending = [@ EXCEPT ![j] = queued]]
<1>1. phone' = [phone EXCEPT ![p] = client] /\ clock' = clock + 1
  BY DEF CreateCopy, MakeVersion
<1>2. /\ DOMAIN taken = Fields /\ DOMAIN taken.rows = Items
      /\ DOMAIN taken.pending = Items /\ taken.backup = phone[p].backup
      /\ \A k \in Items : Agree(taken.rows[k], taken.pending[k])
  BY WithRemoteAgrees
<1>3. Agree(row, queued)
  BY QueuedAgrees DEF IInv, Shape
<1> HIDE DEF taken, row, queued
<1>4. /\ DOMAIN client = Fields /\ DOMAIN client.rows = Items
      /\ DOMAIN client.pending = Items /\ client.backup = phone[p].backup
  BY <1>2 DEF Fields
<1>5. \A k \in Items : Agree(client.rows[k], client.pending[k])
  BY <1>2, <1>3 DEF Fields
<1> HIDE DEF client
<1>6. clock' \in Nat
  BY <1>1 DEF IInv, Shape
<1> QED BY <1>1, <1>4, <1>5, <1>6, SameBackup

----------------------------------------------------------------------------
(* The run.                                                                 *)

\* An acknowledgement empties the queue of every item whose row it changes.
LEMMA AcknowledgedAgrees ==
  ASSUME IInv, NEW p \in Clients, NEW receipts
  PROVE  LET client == Acknowledged(phone[p], receipts)
         IN  /\ DOMAIN client = Fields /\ DOMAIN client.rows = Items
             /\ DOMAIN client.pending = Items /\ client.backup = phone[p].backup
             /\ \A j \in Items : Agree(client.rows[j], client.pending[j])
<1> DEFINE acked == DOMAIN receipts
           rows == [i \in Items |->
                      IF i \notin acked THEN phone[p].rows[i]
                      ELSE IF phone[p].pending[i].kind = "delete" THEN NoRow
                      ELSE Row(phone[p].rows[i].stamp, receipts[i])]
           pending == [i \in Items |-> IF i \in acked THEN NoPending ELSE phone[p].pending[i]]
           client == [phone[p] EXCEPT !.rows = rows, !.pending = pending]
<1>1. Acknowledged(phone[p], receipts) = client
  BY DEF Acknowledged
<1>2. \A i \in Items : Agree(rows[i], pending[i])
  <2> SUFFICES ASSUME NEW i \in Items PROVE Agree(rows[i], pending[i])
    OBVIOUS
  <2>1. CASE i \in acked
    BY <2>1, LiveAgrees, NothingAgrees
  <2>2. CASE i \notin acked
    BY <2>2 DEF IInv, QueueMatchesRows
  <2> QED BY <2>1, <2>2
<1>3. DOMAIN rows = Items /\ DOMAIN pending = Items
  OBVIOUS
<1> HIDE DEF rows, pending
<1>4. /\ DOMAIN client = Fields /\ client.rows = rows /\ client.pending = pending
      /\ client.backup = phone[p].backup
  BY DEF IInv, Shape, Fields
<1> HIDE DEF client
<1> QED BY <1>1, <1>2, <1>3, <1>4

\* An answer to a push changes the rows that it acknowledges, and no other.
LEMMA PushKeeps ==
  ASSUME IInv, NEW p \in Clients, Push(p)
  PROVE  IInv'
<1>1. PICK receipts, answered, pc :
        phone' = [phone EXCEPT ![p] = [Acknowledged(phone[p], receipts) EXCEPT
                                         !.answered = answered, !.pc = pc]]
  BY DEF Push, PushBatch
<1> DEFINE synced == Acknowledged(phone[p], receipts)
           client == [synced EXCEPT !.answered = answered, !.pc = pc]
<1>2. clock' = clock
  BY DEF Push, PushBatch
<1>3. /\ DOMAIN synced = Fields /\ DOMAIN synced.rows = Items
      /\ DOMAIN synced.pending = Items /\ synced.backup = phone[p].backup
      /\ \A j \in Items : Agree(synced.rows[j], synced.pending[j])
  BY AcknowledgedAgrees
<1>4. phone' = [phone EXCEPT ![p] = client]
  BY <1>1
<1> HIDE DEF synced
<1>5. /\ DOMAIN client = Fields /\ client.rows = synced.rows
      /\ client.pending = synced.pending /\ client.backup = synced.backup
  BY <1>3 DEF Fields
<1> HIDE DEF client
<1>6. clock' \in Nat
  BY <1>2 DEF IInv, Shape
<1>7. \A j \in Items : Agree(client.rows[j], client.pending[j])
  BY ONLY <1>3, <1>5
<1> QED BY <1>3, <1>4, <1>5, <1>6, <1>7, SameBackup

\* A page changes the rows of items with nothing queued, and no other.
LEMMA PullKeeps ==
  ASSUME IInv, NEW p \in Clients, Pull(p)
  PROVE  IInv'
<1>1. PICK changed, change, conflicts, cursor, taken, pc :
        LET rows == [i \in Items |-> IF i \in changed THEN PulledRow(phone[p], change[i])
                                                     ELSE phone[p].rows[i]]
        IN  /\ phone' = [phone EXCEPT ![p] = [phone[p] EXCEPT
                            !.rows = rows, !.conflicts = conflicts,
                            !.cursor = cursor, !.taken = taken, !.pc = pc]]
            /\ \A i \in changed : change[i].item = i
  <2> DEFINE changes == LastChanges(p)
             changed == {i \in Items : \E c \in changes : c.item = i}
             change == [i \in changed |-> CHOOSE c \in changes : c.item = i]
             conflicts == AfterPull(phone[p], changes).conflicts
             taken == AfterPull(phone[p], changes).taken
  <2>1. phone' = [phone EXCEPT ![p] = AfterPull(phone[p], changes)]
    BY DEF Pull
  <2>2. \A i \in changed : change[i].item = i
    OBVIOUS
  <2> DEFINE rows == [i \in Items |-> IF i \in changed THEN PulledRow(phone[p], change[i])
                                                      ELSE phone[p].rows[i]]
             cursor == PageEnd(feed, phone[p].cursor)
             pc == IF HasMore(feed, phone[p].cursor) THEN "pull" ELSE "idle"
  <2>3. AfterPull(phone[p], changes) =
          [phone[p] EXCEPT !.rows = rows, !.conflicts = conflicts, !.cursor = cursor,
                           !.taken = taken, !.pc = pc]
    BY DEF AfterPull, IInv, Shape, Fields
  <2> HIDE DEF changed, change, conflicts, rows, cursor, taken, pc
  <2>4. phone' = [phone EXCEPT ![p] = [phone[p] EXCEPT
                     !.rows = rows, !.conflicts = conflicts, !.cursor = cursor,
                     !.taken = taken, !.pc = pc]]
    BY ONLY <2>1, <2>3
  <2> QED BY <2>2, <2>4, Zenon DEF rows
<1> DEFINE rows == [i \in Items |-> IF i \in changed THEN PulledRow(phone[p], change[i])
                                                  ELSE phone[p].rows[i]]
           client == [phone[p] EXCEPT !.rows = rows, !.conflicts = conflicts,
                                      !.cursor = cursor, !.taken = taken, !.pc = pc]
<1>2. phone' = [phone EXCEPT ![p] = client] /\ clock' = clock
  BY <1>1 DEF Pull, world
<1>3. \A i \in Items : Agree(rows[i], phone[p].pending[i])
  <2> SUFFICES ASSUME NEW i \in Items PROVE Agree(rows[i], phone[p].pending[i])
    OBVIOUS
  <2>1. Agree(phone[p].rows[i], phone[p].pending[i])
    BY DEF IInv, QueueMatchesRows
  <2>2. CASE i \in changed /\ phone[p].pending[i] = NoPending
    BY <1>1, <2>2, LiveAgrees, NothingAgrees DEF PulledRow
  <2>3. CASE ~(i \in changed /\ phone[p].pending[i] = NoPending)
    BY <1>1, <2>1, <2>3 DEF PulledRow
  <2> QED BY <2>2, <2>3
<1>4. DOMAIN rows = Items
  OBVIOUS
<1> HIDE DEF rows
<1>5. /\ DOMAIN client = Fields /\ client.rows = rows /\ client.pending = phone[p].pending
      /\ client.backup = phone[p].backup
  BY DEF IInv, Shape, Fields
<1> HIDE DEF client
<1> QED BY <1>2, <1>3, <1>4, <1>5, OnePhone DEF IInv, Shape, QueueMatchesRows

----------------------------------------------------------------------------
(* Backups.                                                                 *)

\* A backup holds tables that agree.
LEMMA CreateBackupKeeps ==
  ASSUME IInv, NEW p \in Clients, CreateBackup(p)
  PROVE  IInv'
<1> DEFINE backup == [made |-> TRUE, rows |-> phone[p].rows, pending |-> phone[p].pending,
                      cursor |-> phone[p].cursor]
           client == [phone[p] EXCEPT !.backup = backup]
<1>1. phone' = [phone EXCEPT ![p] = client] /\ clock' = clock
  BY DEF CreateBackup, world
<1>2. backup.rows = phone[p].rows /\ backup.pending = phone[p].pending
  OBVIOUS
<1> HIDE DEF backup
<1>3. /\ DOMAIN client = Fields /\ client.rows = phone[p].rows
      /\ client.pending = phone[p].pending /\ client.backup = backup
  BY DEF IInv, Shape, Fields
<1> HIDE DEF client
<1> QED BY <1>1, <1>2, <1>3, OnePhone DEF IInv, Shape, QueueMatchesRows

\* A restore puts tables back that agreed when the backup was made.
LEMMA RestoreBackupKeeps ==
  ASSUME IInv, NEW p \in Clients, RestoreBackup(p)
  PROVE  IInv'
<1> DEFINE backup == phone[p].backup
           client == [phone[p] EXCEPT
                        !.rows = backup.rows, !.pending = backup.pending,
                        !.cursor = backup.cursor, !.unlocked = FALSE,
                        !.conflicts = [i \in Items |-> NoConflict]]
<1>1. phone' = [phone EXCEPT ![p] = client] /\ clock' = clock + 1 /\ backup # NoBackup
  BY DEF RestoreBackup
<1>2. /\ DOMAIN client = Fields /\ client.rows = backup.rows
      /\ client.pending = backup.pending /\ client.backup = backup
  BY DEF IInv, Shape, Fields
<1> HIDE DEF client
<1> QED BY <1>1, <1>2, OnePhone DEF IInv, Shape, QueueMatchesRows

----------------------------------------------------------------------------
(* The steps that leave rows, queue and backup alone.                       *)

\* A step keeps the invariant when no phone changes rows, queue or backup.
LEMMA TablesUntouched ==
  ASSUME IInv, clock' \in Nat, DOMAIN phone' = Clients,
         \A p \in Clients :
           /\ DOMAIN phone'[p] = Fields
           /\ phone'[p].rows = phone[p].rows /\ phone'[p].pending = phone[p].pending
           /\ phone'[p].backup = phone[p].backup
  PROVE  IInv'
  BY DEF IInv, Shape, QueueMatchesRows

\* The steps of a phone that change neither rows nor queue.
LEMMA OthersKeep ==
  ASSUME IInv, NEW p \in Clients,
         \/ StartSync(p) \/ SaveConflicts(p) \/ PushDone(p) \/ Fail(p)
         \/ Lock(p) \/ Unlock(p) \/ \E i \in Items : Skip(p, i)
  PROVE  IInv'
<1>1. clock' \in Nat
  <2>1. clock' = clock \/ clock' = clock + 1
    BY DEF StartSync, SaveConflicts, PushDone, Fail, Lock, Unlock, Skip, world
  <2> QED BY <2>1 DEF IInv, Shape
<1>2. DOMAIN phone' = Clients
  BY DEF IInv, Shape, StartSync, SaveConflicts, PushDone, Fail, Lock, Unlock, Skip
<1>3. \A q \in Clients :
        /\ DOMAIN phone'[q] = Fields
        /\ phone'[q].rows = phone[q].rows /\ phone'[q].pending = phone[q].pending
        /\ phone'[q].backup = phone[q].backup
  <2> SUFFICES ASSUME NEW q \in Clients
               PROVE  /\ DOMAIN phone'[q] = Fields
                      /\ phone'[q].rows = phone[q].rows
                      /\ phone'[q].pending = phone[q].pending
                      /\ phone'[q].backup = phone[q].backup
    OBVIOUS
  <2>1. CASE StartSync(p) \/ PushDone(p) \/ Lock(p) \/ Unlock(p)
    BY <2>1 DEF IInv, Shape, Fields, StartSync, PushDone, Lock, Unlock
  <2>2. CASE SaveConflicts(p)
    BY <2>2 DEF IInv, Shape, Fields, SaveConflicts
  <2>3. CASE Fail(p)
    BY <2>3 DEF IInv, Shape, Fields, Fail
  <2>4. CASE \E i \in Items : Skip(p, i)
    <3>1. PICK i \in Items :
            phone' = [phone EXCEPT ![p].conflicts[i].status = "SKIPPED",
                                   ![p].left = @ \cup {i}]
      BY <2>4, Zenon DEF Skip
    <3> QED BY <3>1 DEF IInv, Shape, Fields
  <2> QED BY <2>1, <2>2, <2>3, <2>4
<1> QED BY <1>1, <1>2, <1>3, TablesUntouched

\* A late request and the other clients change no phone.
LEMMA ElsewhereKeeps ==
  ASSUME IInv, Elsewhere
  PROVE  IInv'
<1>1. phone' = phone
  BY DEF Elsewhere
<1>2. clock' \in Nat
  <2>1. clock' = clock \/ clock' = clock + 1
    BY DEF Elsewhere, OthersWrite
  <2> QED BY <2>1 DEF IInv, Shape
<1> QED BY <1>1, <1>2, TablesUntouched DEF IInv, Shape

----------------------------------------------------------------------------
(* The theorem.                                                             *)

\* An empty database has the invariant.
LEMMA InitHolds == Init => IInv
<1> SUFFICES ASSUME Init PROVE IInv
  OBVIOUS
<1>1. Shape
  BY DEF Init, StoreInit, Shape, Fields
<1>2. QueueMatchesRows
  BY NothingAgrees DEF Init, QueueMatchesRows, NoBackup
<1> QED BY <1>1, <1>2 DEF IInv

\* Every step keeps the invariant.
LEMMA NextKeeps == IInv /\ [Next]_vars => IInv'
<1> SUFFICES ASSUME IInv, [Next]_vars PROVE IInv'
  OBVIOUS
<1>1. CASE UNCHANGED vars
  BY <1>1, TablesUntouched DEF vars, world, IInv, Shape
<1>2. CASE Elsewhere
  BY <1>2, ElsewhereKeeps
<1>3. ASSUME NEW p \in Clients, PhoneNext(p) PROVE IInv'
  BY <1>3, SaveItemKeeps, DeleteItemKeeps, ImportItemsKeeps, KeepLocalKeeps,
     AcceptRemoteKeeps, CreateCopyKeeps, PushKeeps, PullKeeps, CreateBackupKeeps,
     RestoreBackupKeeps, OthersKeep DEF PhoneNext
<1> QED BY <1>1, <1>2, <1>3 DEF Next

\* Whatever the server answers, and whatever its user does while a run is under
\* way, the queue of a phone matches its rows, and so does every backup it made.
THEOREM QueueIsSound == Spec => []QueueMatchesRows
<1>1. IInv => QueueMatchesRows
  BY DEF IInv
<1> QED BY InitHolds, NextKeeps, <1>1, PTL DEF Spec

\* No backup that a phone made is refused when it is restored.
THEOREM BackupsAreRestorable ==
  Spec => [](\A p \in Clients : phone[p].backup # NoBackup => Restorable(phone[p].backup))
<1> DEFINE Goal == \A p \in Clients : phone[p].backup # NoBackup => Restorable(phone[p].backup)
<1>1. QueueMatchesRows => Goal
  <2> SUFFICES ASSUME QueueMatchesRows, NEW p \in Clients, phone[p].backup # NoBackup,
                      NEW i \in Items, phone[p].backup.pending[i] # NoPending
               PROVE  /\ phone[p].backup.rows[i] # NoRow
                      /\ phone[p].backup.pending[i].kind = "upsert" =>
                           phone[p].backup.pending[i].stamp = phone[p].backup.rows[i].stamp
    BY DEF Restorable
  <2> QED BY DEF QueueMatchesRows, Agree, Visible
<1> QED BY QueueIsSound, <1>1, PTL

----------------------------------------------------------------------------
(* What ties a phone to the server.  These are operators of the feed f, the *)
(* receipts R, the clock n and the items U that were ever made, so that an  *)
(* entry can be compared with the server before and after a step.           *)

\* What the server said of a mutation: the revision at which it was applied, or
\* the revision that was in its way.
Receipts == {[mut |-> v.op.mut, rev |-> v.rev] : v \in {w \in verdict : w.status = "applied"}}
              \cup {[mut |-> t.mut, rev |-> t.remote.rev] : t \in told}

\* The server had this version of item i, or had it deleted, in this revision.
InFeed(f, i, x) ==
  \E k \in 1..Len(f) :
    f[k] = [item |-> i, kind |-> IF x.stamp = 0 THEN "delete" ELSE "upsert",
            rev |-> x.rev, stamp |-> x.stamp]

\* Nothing of item i up to the cursor is newer than rev.
Covered(f, i, rev, cursor) == \A k \in 1..cursor : f[k].item = i => f[k].rev <= rev

\* The queue entry of item i: it is of its user's making, on a version the
\* server had.
QueuedOK(f, n, U, p, i, q) ==
  \/ q = NoPending
  \/ /\ q \in [kind: {"upsert", "delete"}, stamp: Nat, base: Nat,
               mut: Clients \X Nat \X Items \X Nat]
     /\ q.mut[1] = p /\ q.mut[2] < n /\ q.mut[3] = i /\ q.mut[4] = q.stamp
     /\ q.kind = "upsert" <=> q.stamp # 0
     /\ q.kind = "delete" => q.base # 0
     /\ q.base # 0 => \E k \in 1..Len(f) : f[k].item = i /\ f[k].rev = q.base
     /\ i \in U

\* A row and its queue entry: what is not queued was served.
EntryOK(f, n, U, p, i, row, q) ==
  /\ QueuedOK(f, n, U, p, i, q)
  /\ q # NoPending /\ q.base = 0 => row.rev = 0
  /\ row # NoRow /\ q = NoPending => row.stamp # 0 /\ ~row.deleted /\ InFeed(f, i, row)

\* Of what is behind the cursor, the row is newer, or the queue entry, or the
\* conflict, or there was a deletion.
Knows(f, i, row, q, rev, cursor) ==
  \A k \in 1..cursor : f[k].item = i =>
    \/ row.rev >= f[k].rev \/ q.base >= f[k].rev \/ rev >= f[k].rev
    \/ \E l \in k..Len(f) : f[l].item = i /\ f[l].kind = "delete"

\* A receipt of a queued mutation is not older than what was pulled meanwhile.
Receivable(f, R, i, q, cursor) ==
  q # NoPending => \A r \in R : r.mut = q.mut => Covered(f, i, r.rev, cursor)

\* Of an item that was not left in conflict: what is behind the cursor is known,
\* and stays so whatever is still told of the queue entry or resolved.
InStep(f, R, i, row, q, x, cursor) ==
  /\ Knows(f, i, row, q, x.rev, cursor)
  /\ x.status # "UNRESOLVED" => Receivable(f, R, i, q, cursor)
  /\ x.status = "UNRESOLVED" => q # NoPending /\ Covered(f, i, x.rev, cursor)

ItemOK(f, R, c, i) ==
  /\ InStep(f, R, i, c.rows[i], c.pending[i], c.conflicts[i], c.cursor)
  /\ c.pc = "conflicts" /\ i \in DOMAIN c.answered => Covered(f, i, c.answered[i].rev, c.cursor)
  /\ c.backup # NoBackup =>
       InStep(f, R, i, c.backup.rows[i], c.backup.pending[i], NoConflict, c.backup.cursor)

\* A conflict is with something the server had.
ConflictOK(f, x, i, left) ==
  /\ x.status = "none" => x = NoConflict
  /\ x.status = "UNRESOLVED" => InFeed(f, i, x)
  /\ x.status = "SKIPPED" => i \in left

AnsweredOK(f, c) ==
  \A i \in DOMAIN c.answered :
    /\ i \in Items /\ InFeed(f, i, c.answered[i])
    /\ c.conflicts[i].status # "UNRESOLVED" /\ c.pending[i] # NoPending

PhoneOK(f, R, n, U, p, c) ==
  /\ c.pc \in {"idle", "push", "conflicts", "pull"}
  /\ c.cursor \in 0..Len(f)
  /\ c.rows \in [Items -> RowType] /\ c.pending \in [Items -> Pending]
  /\ c.conflicts \in [Items -> ConflictType]
  /\ \A i \in Items : EntryOK(f, n, U, p, i, c.rows[i], c.pending[i])
  /\ \A i \in Items : ConflictOK(f, c.conflicts[i], i, c.left)
  /\ c.pc = "conflicts" => AnsweredOK(f, c)
  /\ c.backup # NoBackup =>
       /\ c.backup.cursor \in 0..Len(f)
       /\ c.backup.rows \in [Items -> RowType] /\ c.backup.pending \in [Items -> Pending]
       /\ \A i \in Items : EntryOK(f, n, U, p, i, c.backup.rows[i], c.backup.pending[i])
  /\ \A i \in Items \ c.left : ItemOK(f, R, c, i)

\* An operation that was queued once, on a version the server had.
SentOK(f, n, o) ==
  /\ o.mut[2] < n
  /\ o.kind = "delete" => o.base # 0
  /\ o.base # 0 => \E k \in 1..Len(f) : f[k].item = o.item /\ f[k].rev = o.base

\* The server: what arrives late was queued once, a refusal has its conflict.
WorldOK ==
  /\ clock <= MaxEdits
  /\ \A ops \in late : \A o \in ops : SentOK(feed, clock, o)
  /\ \A v \in verdict : /\ v.op.mut[2] < clock
                        /\ v.status = "conflict" => \E t \in told : t.mut = v.op.mut
  /\ \A t \in told : /\ \E v \in verdict : v.op.mut = t.mut
                     /\ InFeed(feed, t.mut[3], t.remote)

Synced ==
  /\ StoreInv /\ WorldOK
  /\ \A p \in Clients : PhoneOK(feed, Receipts, clock, used, p, phone[p])

----------------------------------------------------------------------------
(* The world of a phone moves on.                                           *)

\* The feed is extended, and what is receipted now is not older than the feed.
WorldGrows(f, f2, R, R2, n, n2, U, U2) ==
  /\ Len(f) \in Nat /\ Len(f2) \in Nat /\ Len(f) <= Len(f2)
  /\ \A k \in 1..Len(f) : f2[k] = f[k]
  /\ n \in Nat /\ n2 \in Nat /\ n <= n2
  /\ U \subseteq U2
  /\ \A r \in R2 : r \notin R => Covered(f, r.mut[3], r.rev, Len(f))

\* What was in the feed stays there.
LEMMA StaysInFeed ==
  ASSUME NEW f, NEW f2, NEW R, NEW R2, NEW n, NEW n2, NEW U, NEW U2,
         WorldGrows(f, f2, R, R2, n, n2, U, U2), NEW i, NEW x, InFeed(f, i, x)
  PROVE  InFeed(f2, i, x)
<1> DEFINE change == [item |-> i, kind |-> IF x.stamp = 0 THEN "delete" ELSE "upsert",
                      rev |-> x.rev, stamp |-> x.stamp]
<1>1. PICK k \in 1..Len(f) : f[k] = change
  BY DEF InFeed
<1> HIDE DEF change
<1>2. k \in 1..Len(f2) /\ f2[k] = change
  BY <1>1 DEF WorldGrows
<1> QED BY <1>2 DEF InFeed, change

\* A row and its queue entry keep what ties them to the server.
LEMMA EntryStays ==
  ASSUME NEW f, NEW f2, NEW R, NEW R2, NEW n, NEW n2, NEW U, NEW U2,
         WorldGrows(f, f2, R, R2, n, n2, U, U2),
         NEW p, NEW i, NEW row, NEW q, EntryOK(f, n, U, p, i, row, q)
  PROVE  EntryOK(f2, n2, U2, p, i, row, q)
<1>1. QueuedOK(f2, n2, U2, p, i, q)
  <2>1. CASE q = NoPending
    BY <2>1 DEF QueuedOK
  <2>2. CASE q # NoPending
    <3>1. /\ q \in [kind: {"upsert", "delete"}, stamp: Nat, base: Nat,
                    mut: Clients \X Nat \X Items \X Nat]
          /\ q.mut[1] = p /\ q.mut[2] < n /\ q.mut[3] = i /\ q.mut[4] = q.stamp
          /\ q.kind = "upsert" <=> q.stamp # 0
          /\ q.kind = "delete" => q.base # 0
          /\ q.base # 0 => \E k \in 1..Len(f) : f[k].item = i /\ f[k].rev = q.base
          /\ i \in U
      BY <2>2 DEF EntryOK, QueuedOK
    <3>2. q.mut[2] < n2
      <4>1. q.mut[2] \in Nat
        BY <3>1
      <4> QED BY <3>1, <4>1 DEF WorldGrows
    <3>3. q.base # 0 => \E k \in 1..Len(f2) : f2[k].item = i /\ f2[k].rev = q.base
      BY <3>1 DEF WorldGrows
    <3>4. i \in U2
      BY <3>1 DEF WorldGrows
    <3> QED BY <3>1, <3>2, <3>3, <3>4 DEF QueuedOK
  <2> QED BY <2>1, <2>2
<1>2. InFeed(f, i, row) => InFeed(f2, i, row)
  BY StaysInFeed
<1> QED BY <1>1, <1>2 DEF EntryOK

\* What is known up to the cursor stays known.
LEMMA KnowledgeStays ==
  ASSUME NEW f, NEW f2, NEW R, NEW R2, NEW n, NEW n2, NEW U, NEW U2,
         WorldGrows(f, f2, R, R2, n, n2, U, U2),
         NEW i, NEW cursor \in 0..Len(f)
  PROVE  /\ \A rev : Covered(f, i, rev, cursor) => Covered(f2, i, rev, cursor)
         /\ \A row, q, rev : Knows(f, i, row, q, rev, cursor) => Knows(f2, i, row, q, rev, cursor)
<1>1. \A k \in 1..cursor : k \in 1..Len(f) /\ f2[k] = f[k]
  BY DEF WorldGrows
<1>2. ASSUME NEW rev, Covered(f, i, rev, cursor) PROVE Covered(f2, i, rev, cursor)
  BY <1>1, <1>2 DEF Covered
<1>3. ASSUME NEW row, NEW q, NEW rev, Knows(f, i, row, q, rev, cursor)
      PROVE  Knows(f2, i, row, q, rev, cursor)
  <2> SUFFICES ASSUME NEW k \in 1..cursor, f2[k].item = i
               PROVE  \/ row.rev >= f2[k].rev \/ q.base >= f2[k].rev \/ rev >= f2[k].rev
                      \/ \E l \in k..Len(f2) : f2[l].item = i /\ f2[l].kind = "delete"
    BY DEF Knows
  <2>1. \/ row.rev >= f2[k].rev \/ q.base >= f2[k].rev \/ rev >= f2[k].rev
        \/ \E l \in k..Len(f) : f[l].item = i /\ f[l].kind = "delete"
    BY <1>1, <1>3 DEF Knows
  <2>2. \A l \in k..Len(f) : l \in k..Len(f2) /\ f2[l] = f[l]
    BY DEF WorldGrows
  <2> QED BY <2>1, <2>2
<1> QED BY <1>2, <1>3

\* A new receipt covers all of the feed.
LEMMA ReceivableStays ==
  ASSUME NEW f, NEW f2, NEW R, NEW R2, NEW n, NEW n2, NEW U, NEW U2,
         WorldGrows(f, f2, R, R2, n, n2, U, U2),
         NEW p, NEW i, NEW q, QueuedOK(f, n, U, p, i, q), NEW cursor \in 0..Len(f),
         Receivable(f, R, i, q, cursor)
  PROVE  Receivable(f2, R2, i, q, cursor)
<1> SUFFICES ASSUME q # NoPending, NEW r \in R2, r.mut = q.mut
             PROVE  Covered(f2, i, r.rev, cursor)
  BY DEF Receivable
<1>1. q.mut[3] = i
  BY DEF QueuedOK
<1>2. CASE r \in R
  BY <1>2, KnowledgeStays DEF Receivable
<1>3. CASE r \notin R
  <2>1. Covered(f, i, r.rev, Len(f))
    BY <1>1, <1>3 DEF WorldGrows
  <2>2. Covered(f, i, r.rev, cursor)
    BY <2>1 DEF Covered, WorldGrows
  <2> QED BY <2>2, KnowledgeStays
<1> QED BY <1>2, <1>3

LEMMA InStepStays ==
  ASSUME NEW f, NEW f2, NEW R, NEW R2, NEW n, NEW n2, NEW U, NEW U2,
         WorldGrows(f, f2, R, R2, n, n2, U, U2),
         NEW p, NEW i, NEW row, NEW q, QueuedOK(f, n, U, p, i, q), NEW x,
         NEW cursor \in 0..Len(f), InStep(f, R, i, row, q, x, cursor)
  PROVE  InStep(f2, R2, i, row, q, x, cursor)
  BY KnowledgeStays, ReceivableStays DEF InStep

\* A phone that takes no part in a step is as good as it was.
LEMMA PhoneStays ==
  ASSUME NEW f, NEW f2, NEW R, NEW R2, NEW n, NEW n2, NEW U, NEW U2,
         WorldGrows(f, f2, R, R2, n, n2, U, U2), NEW p, NEW c, PhoneOK(f, R, n, U, p, c)
  PROVE  PhoneOK(f2, R2, n2, U2, p, c)
<1>1. c.cursor \in 0..Len(f) /\ c.cursor \in 0..Len(f2)
  BY DEF PhoneOK, WorldGrows
<1>2. \A i \in Items : EntryOK(f2, n2, U2, p, i, c.rows[i], c.pending[i])
  BY EntryStays DEF PhoneOK
<1>3. \A i \in Items : ConflictOK(f2, c.conflicts[i], i, c.left)
  BY StaysInFeed DEF PhoneOK, ConflictOK
<1>4. c.pc = "conflicts" => AnsweredOK(f2, c)
  BY StaysInFeed DEF PhoneOK, AnsweredOK
<1>5. ASSUME c.backup # NoBackup
      PROVE  /\ c.backup.cursor \in 0..Len(f) /\ c.backup.cursor \in 0..Len(f2)
             /\ \A i \in Items : EntryOK(f2, n2, U2, p, i, c.backup.rows[i], c.backup.pending[i])
  <2>1. c.backup.cursor \in 0..Len(f) /\ c.backup.cursor \in 0..Len(f2)
    BY <1>5 DEF PhoneOK, WorldGrows
  <2>2. \A i \in Items : EntryOK(f, n, U, p, i, c.backup.rows[i], c.backup.pending[i])
    BY <1>5 DEF PhoneOK
  <2> QED BY <2>1, <2>2, EntryStays
<1>6. ASSUME NEW i \in Items \ c.left PROVE ItemOK(f2, R2, c, i)
  <2>1. ItemOK(f, R, c, i)
    BY DEF PhoneOK
  <2>2. QueuedOK(f, n, U, p, i, c.pending[i])
    BY DEF PhoneOK, EntryOK
  <2>3. InStep(f2, R2, i, c.rows[i], c.pending[i], c.conflicts[i], c.cursor)
    BY <1>1, <2>1, <2>2, InStepStays DEF ItemOK
  <2>4. c.pc = "conflicts" /\ i \in DOMAIN c.answered =>
          Covered(f2, i, c.answered[i].rev, c.cursor)
    BY <1>1, <2>1, KnowledgeStays DEF ItemOK
  <2>5. ASSUME c.backup # NoBackup
        PROVE  InStep(f2, R2, i, c.backup.rows[i], c.backup.pending[i], NoConflict,
                      c.backup.cursor)
    <3>1. QueuedOK(f, n, U, p, i, c.backup.pending[i])
      BY <2>5 DEF PhoneOK, EntryOK
    <3>2. InStep(f, R, i, c.backup.rows[i], c.backup.pending[i], NoConflict, c.backup.cursor)
      BY <2>1, <2>5 DEF ItemOK
    <3> QED BY <1>5, <2>5, <3>1, <3>2, InStepStays
  <2> QED BY <2>3, <2>4, <2>5 DEF ItemOK
<1>7. /\ c.pc \in {"idle", "push", "conflicts", "pull"}
      /\ c.rows \in [Items -> RowType] /\ c.pending \in [Items -> Pending]
      /\ c.conflicts \in [Items -> ConflictType]
      /\ c.backup # NoBackup =>
           c.backup.rows \in [Items -> RowType] /\ c.backup.pending \in [Items -> Pending]
  BY DEF PhoneOK
<1> QED BY <1>1, <1>2, <1>3, <1>4, <1>5, <1>6, <1>7 DEF PhoneOK

\* What the store and the conflicts in its receipts grow by.
LEMMA WorldMoves ==
  ASSUME StoreInv, StoreInv', StoreGrows, WorldOK,
         clock <= clock', clock' <= MaxEdits, used \subseteq used', told \subseteq told',
         \A ops \in late' : \A o \in ops : SentOK(feed, clock, o),
         \A v \in verdict' : v \notin verdict =>
           /\ v.op.mut[2] < clock'
           /\ v.status = "conflict" => \E t \in told' : t.mut = v.op.mut,
         \A t \in told' : t \notin told =>
           /\ \E v \in verdict' : v.op.mut = t.mut
           /\ InFeed(feed, t.mut[3], t.remote)
           /\ Covered(feed, t.mut[3], t.remote.rev, Len(feed))
  PROVE  /\ WorldOK'
         /\ WorldGrows(feed, feed', Receipts, Receipts', clock, clock', used, used')
<1>1. /\ clock \in Nat /\ clock' \in Nat /\ revision \in Nat /\ Len(feed) \in Nat
      /\ Len(feed') \in Nat /\ Len(feed) <= Len(feed')
      /\ \A k \in 1..Len(feed) : feed'[k] = feed[k]
      /\ verdict \subseteq verdict'
  BY DEF StoreInv, FeedInOrder, StoreGrows
<1>2. ASSUME NEW r \in Receipts', r \notin Receipts
      PROVE  Covered(feed, r.mut[3], r.rev, Len(feed))
  <2>1. CASE \E v \in verdict' : v.status = "applied" /\ r = [mut |-> v.op.mut, rev |-> v.rev]
    <3>1. PICK v \in verdict' : v.status = "applied" /\ r = [mut |-> v.op.mut, rev |-> v.rev]
      BY <2>1
    <3>2. v \notin verdict
      BY <1>2, <3>1 DEF Receipts
    <3>3. r.rev = revision + 1
      BY <3>1, <3>2 DEF StoreGrows
    <3>4. \A k \in 1..Len(feed) : feed[k].rev <= revision /\ feed[k].rev \in Nat
      <4>1. \A k \in 1..Len(feed) : feed[k] \in ChangeType
        BY DEF StoreInv, FeedInOrder
      <4> QED BY <4>1 DEF StoreInv, FeedInOrder, ChangeType
    <3> QED BY <1>1, <3>3, <3>4 DEF Covered
  <2>2. CASE \E t \in told' : r = [mut |-> t.mut, rev |-> t.remote.rev]
    <3>1. PICK t \in told' : r = [mut |-> t.mut, rev |-> t.remote.rev]
      BY <2>2
    <3>2. t \notin told
      BY <1>2, <3>1 DEF Receipts
    <3> QED BY <3>1, <3>2
  <2> QED BY <1>2, <2>1, <2>2 DEF Receipts
<1>3. WorldGrows(feed, feed', Receipts, Receipts', clock, clock', used, used')
  BY <1>1, <1>2 DEF WorldGrows
<1>4. \A ops \in late' : \A o \in ops : SentOK(feed', clock', o)
  <2> SUFFICES ASSUME NEW ops \in late', NEW o \in ops PROVE SentOK(feed', clock', o)
    OBVIOUS
  <2>1. SentOK(feed, clock, o)
    OBVIOUS
  <2>2. o.mut[2] \in Nat
    <3>1. OpOK(o)
      <4>1. RequestOK(ops)
        BY DEF StoreInv
      <4> QED BY ONLY <4>1, o \in ops, Zenon DEF RequestOK
    <3> QED BY ONLY <3>1 DEF OpOK, OpType
  <2>3. o.mut[2] < clock'
    BY <1>1, <2>1, <2>2 DEF SentOK
  <2>4. o.base # 0 => \E k \in 1..Len(feed') : feed'[k].item = o.item /\ feed'[k].rev = o.base
    BY <1>1, <2>1 DEF SentOK
  <2> QED BY <2>1, <2>3, <2>4 DEF SentOK
<1>5. ASSUME NEW v \in verdict'
      PROVE  /\ v.op.mut[2] < clock'
             /\ v.status = "conflict" => \E t \in told' : t.mut = v.op.mut
  <2>1. CASE v \in verdict
    <3>1. v.op.mut[2] \in Nat
      BY DEF StoreInv, VerdictsStand, OpOK, OpType
    <3> QED BY <1>1, <2>1, <3>1 DEF WorldOK
  <2>2. CASE v \notin verdict
    BY <2>2
  <2> QED BY <2>1, <2>2
<1>6. ASSUME NEW t \in told'
      PROVE  /\ \E v \in verdict' : v.op.mut = t.mut
             /\ InFeed(feed', t.mut[3], t.remote)
  <2>1. (\E v \in verdict' : v.op.mut = t.mut) /\ InFeed(feed, t.mut[3], t.remote)
    <3>1. CASE t \in told
      BY <1>1, <3>1 DEF WorldOK
    <3>2. CASE t \notin told
      BY <3>2
    <3> QED BY <3>1, <3>2
  <2> QED BY <1>3, <2>1, StaysInFeed
<1>7. WorldOK'
  BY <1>4, <1>5, <1>6 DEF WorldOK
<1> QED BY <1>3, <1>7

\* A step of a user: only the clock and the items that were made.
LEMMA UserMoves ==
  ASSUME StoreInv, WorldOK, UNCHANGED <<store, told>>,
         clock' = clock \/ (clock < MaxEdits /\ clock' = clock + 1),
         used \subseteq used', used' \subseteq Items
  PROVE  /\ StoreInv' /\ WorldOK'
         /\ WorldGrows(feed, feed', Receipts, Receipts', clock, clock', used, used')
         /\ feed' = feed /\ Receipts' = Receipts /\ clock' \in Nat
<1>1. clock \in Nat /\ clock' \in Nat /\ clock <= clock' /\ clock' <= MaxEdits
  BY ClientAssumption DEF StoreInv, WorldOK
<1>2. StoreInv' /\ StoreGrows
  BY <1>1, StoreUnchanged
<1>3. feed' = feed /\ verdict' = verdict /\ late' = late /\ told' = told
  BY DEF store
<1>4. \A ops \in late' : \A o \in ops : SentOK(feed, clock, o)
  BY <1>3 DEF WorldOK
<1>5. Receipts' = Receipts
  BY <1>3 DEF Receipts
<1> QED BY <1>1, <1>2, <1>3, <1>4, <1>5, WorldMoves

\* A request of a phone is served.
LEMMA ServeMoves ==
  ASSUME StoreInv, WorldOK, NEW ops, RequestOK(ops),
         \A o \in ops : o.item \in used /\ SentOK(feed, clock, o),
         ServePhone(ops), UNCHANGED <<clock, used>>
  PROVE  /\ StoreInv' /\ WorldOK'
         /\ WorldGrows(feed, feed', Receipts, Receipts', clock, clock', used, used')
         /\ \A o \in ops : \E v \in verdict' : v.op.mut = o.mut
<1>1. /\ StoreInv' /\ StoreGrows /\ late' \subseteq late
      /\ \A v \in verdict' : v \in verdict \/ v.op \in ops
      /\ \A o \in ops : \E v \in verdict' : v.op.mut = o.mut
  BY ServeKeeps DEF ServePhone, StoreInv
<1>2. /\ told \subseteq told'
      /\ \A o \in Undecided(ops) : ~Store!Current(o) =>
           [mut |-> o.mut, remote |-> ServerState(o.item)] \in told'
      /\ \A t \in told' : t \notin told =>
           \E o \in Undecided(ops) : /\ ~Store!Current(o)
                                     /\ t = [mut |-> o.mut, remote |-> ServerState(o.item)]
  BY DEF ServePhone
<1>3. \A ps \in late' : \A o \in ps : SentOK(feed, clock, o)
  BY <1>1 DEF WorldOK
<1>4. ASSUME NEW v \in verdict', v \notin verdict
      PROVE  /\ v.op.mut[2] < clock
             /\ v.status = "conflict" => \E t \in told' : t.mut = v.op.mut
  <2>1. v.op \in ops
    BY <1>1, <1>4
  <2>2. v.op \in Undecided(ops)
    BY <1>1, <1>4, <2>1 DEF StoreGrows, Undecided
  <2>3. v.status = "conflict" => ~Store!Current(v.op)
    BY <1>1, <1>4 DEF StoreGrows
  <2>4. [mut |-> v.op.mut, remote |-> ServerState(v.op.item)].mut = v.op.mut
    OBVIOUS
  <2>5. v.status = "conflict" => \E t \in told' : t.mut = v.op.mut
    BY <1>2, <2>2, <2>3, <2>4
  <2> QED BY <2>1, <2>5 DEF SentOK
<1>5. ASSUME NEW t \in told', t \notin told
      PROVE  /\ \E v \in verdict' : v.op.mut = t.mut
             /\ InFeed(feed, t.mut[3], t.remote)
             /\ Covered(feed, t.mut[3], t.remote.rev, Len(feed))
  <2>1. PICK o \in Undecided(ops) : /\ ~Store!Current(o)
                                    /\ t = [mut |-> o.mut, remote |-> ServerState(o.item)]
    BY <1>2, <1>5
  <2>2. o \in ops /\ OpOK(o) /\ SentOK(feed, clock, o)
    BY <2>1 DEF Undecided, RequestOK
  <2>3. /\ t.mut = o.mut /\ t.mut[3] = o.item /\ t.remote = ServerState(o.item)
        /\ o.item \in Items /\ o.base \in Nat
    BY <2>1, <2>2 DEF OpOK, OpType
  <2>4. /\ item[o.item].rev \in Nat
        /\ item[o.item].rev = 0 => item[o.item] = Store!Missing
        /\ item[o.item].rev # 0 => \E k \in 1..Len(feed) :
             feed[k] = [item |-> o.item,
                        kind |-> IF item[o.item].deleted THEN "delete" ELSE "upsert",
                        rev |-> item[o.item].rev, stamp |-> Stamp(item[o.item])]
    BY <2>3 DEF StoreInv, ItemsAreInFeed
  <2>5. \A k \in 1..Len(feed) : feed[k].item = o.item => feed[k].rev <= item[o.item].rev
    BY DEF StoreInv, ItemsAreInFeed
  <2>6. item[o.item].rev # 0
    <3>1. CASE o.base = 0
      BY <2>1, <2>2, <3>1 DEF Store!Current, SentOK
    <3>2. CASE o.base # 0
      <4>1. PICK k \in 1..Len(feed) : feed[k].item = o.item /\ feed[k].rev = o.base
        BY <2>2, <3>2 DEF SentOK
      <4> QED BY <2>3, <2>4, <2>5, <3>2, <4>1
    <3> QED BY <3>1, <3>2
  <2>7. PICK k \in 1..Len(feed) :
          feed[k] = [item |-> o.item,
                     kind |-> IF item[o.item].deleted THEN "delete" ELSE "upsert",
                     rev |-> item[o.item].rev, stamp |-> Stamp(item[o.item])]
    BY <2>4, <2>6
  <2>8. feed[k].kind = "upsert" <=> feed[k].stamp # 0
    BY DEF StoreInv, FeedInOrder
  <2>9. /\ t.remote.rev = item[o.item].rev
        /\ t.remote.stamp = IF item[o.item].deleted THEN 0 ELSE Stamp(item[o.item])
    BY <2>3, <2>6 DEF ServerState
  <2>10. InFeed(feed, t.mut[3], t.remote)
    <3>1. CASE item[o.item].deleted
      BY <2>3, <2>7, <2>8, <2>9, <3>1 DEF InFeed
    <3>2. CASE ~item[o.item].deleted
      BY <2>3, <2>7, <2>8, <2>9, <3>2 DEF InFeed
    <3> QED BY <3>1, <3>2
  <2>11. Covered(feed, t.mut[3], t.remote.rev, Len(feed))
    BY <2>3, <2>5, <2>9 DEF Covered
  <2> QED BY <1>1, <2>2, <2>3, <2>10, <2>11
<1>6. clock \in Nat /\ clock <= clock' /\ clock' <= MaxEdits /\ used \subseteq used'
  BY DEF StoreInv, WorldOK
<1>7. /\ WorldOK'
      /\ WorldGrows(feed, feed', Receipts, Receipts', clock, clock', used, used')
  BY <1>1, <1>2, <1>3, <1>4, <1>5, <1>6, WorldMoves
<1> QED BY <1>1, <1>7

\* A phone gives up on a request.
LEMMA GiveUpMoves ==
  ASSUME StoreInv, WorldOK, NEW ops, RequestOK(ops),
         \A o \in ops : o.item \in used /\ SentOK(feed, clock, o),
         GiveUp(ops), UNCHANGED <<clock, used, told>>
  PROVE  /\ StoreInv' /\ WorldOK'
         /\ WorldGrows(feed, feed', Receipts, Receipts', clock, clock', used, used')
<1>1. /\ StoreInv' /\ StoreGrows /\ late' \subseteq late \cup {ops}
      /\ verdict' = verdict
  BY GiveUpKeeps DEF GiveUp
<1>2. \A ps \in late' : \A o \in ps : SentOK(feed, clock, o)
  BY <1>1 DEF WorldOK
<1>3. clock \in Nat /\ clock <= clock' /\ clock' <= MaxEdits /\ used \subseteq used'
  BY DEF StoreInv, WorldOK
<1> QED BY <1>1, <1>2, <1>3, WorldMoves

\* What happens elsewhere.
LEMMA ElsewhereMoves ==
  ASSUME StoreInv, WorldOK, Elsewhere
  PROVE  /\ StoreInv' /\ WorldOK' /\ phone' = phone
         /\ WorldGrows(feed, feed', Receipts, Receipts', clock, clock', used, used')
<1>1. ASSUME NEW ops \in late, ServePhone(ops), UNCHANGED <<clock, used, phone>>
      PROVE  /\ StoreInv' /\ WorldOK' /\ phone' = phone
             /\ WorldGrows(feed, feed', Receipts, Receipts', clock, clock', used, used')
  <2>1. RequestOK(ops) /\ \A o \in ops : o.item \in used /\ SentOK(feed, clock, o)
    BY DEF StoreInv, WorldOK
  <2> QED BY <1>1, <2>1, ServeMoves
<1>2. ASSUME NEW i \in Items, NEW kind \in {"upsert", "delete"}, OthersWrite(i, kind),
             UNCHANGED <<phone, told>>
      PROVE  /\ StoreInv' /\ WorldOK' /\ phone' = phone
             /\ WorldGrows(feed, feed', Receipts, Receipts', clock, clock', used, used')
  <2>1. /\ StoreInv' /\ StoreGrows /\ late' \subseteq late
        /\ clock < MaxEdits /\ clock' = clock + 1 /\ used \subseteq used'
        /\ \A v \in verdict' : v \notin verdict => v.status = "applied" /\ v.op.mut[2] = clock
    BY <1>2, OthersWriteKeeps
  <2>2. clock \in Nat /\ clock <= clock' /\ clock' <= MaxEdits /\ clock < clock'
    BY <2>1, ClientAssumption DEF StoreInv
  <2>3. \A ops \in late' : \A o \in ops : SentOK(feed, clock, o)
    BY <2>1 DEF WorldOK
  <2>4. \A v \in verdict' : v \notin verdict =>
          /\ v.op.mut[2] < clock'
          /\ v.status = "conflict" => \E t \in told' : t.mut = v.op.mut
    BY <2>1, <2>2
  <2> QED BY <1>2, <2>1, <2>2, <2>3, <2>4, WorldMoves
<1> QED BY <1>1, <1>2 DEF Elsewhere

----------------------------------------------------------------------------
(* A step of a phone.                                                       *)

\* A step of one phone, in a world that grows, leaves the others as they are.
LEMMA PhoneMoves ==
  ASSUME IInv, Synced, StoreInv', WorldOK',
         WorldGrows(feed, feed', Receipts, Receipts', clock, clock', used, used'),
         NEW p \in Clients, NEW client, phone' = [phone EXCEPT ![p] = client],
         PhoneOK(feed', Receipts', clock', used', p, client)
  PROVE  Synced'
<1>1. phone'[p] = client /\ \A q \in Clients : q # p => phone'[q] = phone[q]
  BY DEF IInv, Shape
<1>2. \A q \in Clients : PhoneOK(feed', Receipts', clock', used', q, phone[q])
  BY PhoneStays DEF Synced
<1>3. \A q \in Clients : PhoneOK(feed', Receipts', clock', used', q, phone'[q])
  BY <1>1, <1>2
<1> QED BY <1>3 DEF Synced

\* A step of the user of one phone.
LEMMA UserStep ==
  ASSUME IInv, Synced, NEW p \in Clients, NEW client,
         phone' = [phone EXCEPT ![p] = client], UNCHANGED <<store, told>>,
         clock' = clock \/ (clock < MaxEdits /\ clock' = clock + 1),
         used \subseteq used', used' \subseteq Items,
         PhoneOK(feed, Receipts, clock', used', p, phone[p]) =>
           PhoneOK(feed, Receipts, clock', used', p, client)
  PROVE  Synced'
<1>1. /\ StoreInv' /\ WorldOK'
      /\ WorldGrows(feed, feed', Receipts, Receipts', clock, clock', used, used')
      /\ feed' = feed /\ Receipts' = Receipts /\ clock' \in Nat
  BY UserMoves DEF Synced
<1>2. PhoneOK(feed', Receipts', clock', used', p, phone[p])
  BY <1>1, PhoneStays DEF Synced
<1>3. PhoneOK(feed', Receipts', clock', used', p, client)
  BY <1>1, <1>2
<1> QED BY <1>1, <1>3, PhoneMoves

\* A phone of which some entries change while no run is under way.
LEMMA EntriesChange ==
  ASSUME NEW f, NEW R, NEW n, NEW U, NEW p, NEW c, PhoneOK(f, R, n, U, p, c),
         NEW S, NEW d, d.pc = "idle", d.cursor = c.cursor, d.backup = c.backup,
         c.left \subseteq d.left,
         d.rows \in [Items -> RowType], d.pending \in [Items -> Pending],
         d.conflicts \in [Items -> ConflictType],
         \A i \in Items \ S : /\ d.rows[i] = c.rows[i] /\ d.pending[i] = c.pending[i]
                              /\ d.conflicts[i] = c.conflicts[i],
         \A i \in S \cap Items :
           /\ EntryOK(f, n, U, p, i, d.rows[i], d.pending[i])
           /\ ConflictOK(f, d.conflicts[i], i, d.left)
           /\ i \notin d.left =>
                InStep(f, R, i, d.rows[i], d.pending[i], d.conflicts[i], d.cursor)
  PROVE  PhoneOK(f, R, n, U, p, d)
<1>1. d.cursor \in 0..Len(f)
  BY DEF PhoneOK
<1>2. \A i \in Items : EntryOK(f, n, U, p, i, d.rows[i], d.pending[i])
  BY DEF PhoneOK
<1>3. \A i \in Items : ConflictOK(f, d.conflicts[i], i, d.left)
  BY DEF PhoneOK, ConflictOK
<1>4. d.backup # NoBackup =>
       /\ d.backup.cursor \in 0..Len(f)
       /\ d.backup.rows \in [Items -> RowType] /\ d.backup.pending \in [Items -> Pending]
       /\ \A i \in Items : EntryOK(f, n, U, p, i, d.backup.rows[i], d.backup.pending[i])
  BY DEF PhoneOK
<1>5. ASSUME NEW i \in Items \ d.left PROVE ItemOK(f, R, d, i)
  <2>1. ItemOK(f, R, c, i)
    BY DEF PhoneOK
  <2>2. InStep(f, R, i, d.rows[i], d.pending[i], d.conflicts[i], d.cursor)
    <3>1. CASE i \in S
      BY <3>1
    <3>2. CASE i \notin S
      BY <2>1, <3>2 DEF ItemOK
    <3> QED BY <3>1, <3>2
  <2> QED BY <2>1, <2>2 DEF ItemOK
<1> QED BY <1>1, <1>2, <1>3, <1>4, <1>5 DEF PhoneOK

----------------------------------------------------------------------------
(* Versions of the feed, and new queue entries.                             *)

LEMMA FeedFacts ==
  ASSUME StoreInv
  PROVE  /\ Len(feed) \in Nat /\ clock \in Nat /\ used \subseteq Items
         /\ \A k \in 1..Len(feed) :
              /\ feed[k].rev \in Nat \ {0} /\ feed[k].stamp \in Nat
              /\ feed[k].item \in Items /\ feed[k].item \in used
         /\ \A k, l \in 1..Len(feed) :
              feed[k].item = feed[l].item /\ feed[k].rev <= feed[l].rev => k <= l
<1>1. /\ feed \in Seq(ChangeType) /\ Len(feed) \in Nat /\ clock \in Nat /\ used \subseteq Items
      /\ \A k \in 1..Len(feed) : feed[k].item \in used
      /\ \A k, l \in 1..Len(feed) :
           k < l /\ feed[k].item = feed[l].item => feed[k].rev < feed[l].rev
  BY DEF StoreInv, FeedInOrder
<1>2. \A k \in 1..Len(feed) :
        /\ feed[k].rev \in Nat \ {0} /\ feed[k].stamp \in Nat /\ feed[k].item \in Items
  <2>1. \A k \in 1..Len(feed) : feed[k] \in ChangeType
    BY <1>1
  <2> QED BY <2>1 DEF ChangeType
<1>3. \A k, l \in 1..Len(feed) :
        feed[k].item = feed[l].item /\ feed[k].rev <= feed[l].rev => k <= l
  BY <1>1, <1>2
<1> QED BY <1>1, <1>2, <1>3

\* The part of this that is about the feed alone, before and after a step.
FeedOK(f) ==
  /\ Len(f) \in Nat
  /\ \A k \in 1..Len(f) : f[k].rev \in Nat \ {0} /\ f[k].stamp \in Nat
  /\ \A k, l \in 1..Len(f) : f[k].item = f[l].item /\ f[k].rev <= f[l].rev => k <= l

LEMMA FeedIsOK ==
  /\ StoreInv => FeedOK(feed)
  /\ StoreInv' => FeedOK(feed')
<1>1. StoreInv => FeedOK(feed)
  BY FeedFacts DEF FeedOK
<1>2. ASSUME StoreInv' PROVE FeedOK(feed')
  <2>1. /\ feed' \in Seq(ChangeType) /\ Len(feed') \in Nat
        /\ \A k, l \in 1..Len(feed') :
             k < l /\ feed'[k].item = feed'[l].item => feed'[k].rev < feed'[l].rev
    BY <1>2 DEF StoreInv, FeedInOrder
  <2>2. \A k \in 1..Len(feed') : feed'[k].rev \in Nat \ {0} /\ feed'[k].stamp \in Nat
    <3>1. \A k \in 1..Len(feed') : feed'[k] \in ChangeType
      BY <2>1
    <3> QED BY <3>1 DEF ChangeType
  <2>3. \A k, l \in 1..Len(feed') :
          feed'[k].item = feed'[l].item /\ feed'[k].rev <= feed'[l].rev => k <= l
    BY <2>1, <2>2
  <2> QED BY <2>1, <2>2, <2>3 DEF FeedOK
<1> QED BY <1>1, <1>2

\* What the server had has a revision, and its item was made.
LEMMA InFeedFacts ==
  ASSUME StoreInv, NEW i, NEW x, InFeed(feed, i, x)
  PROVE  /\ x.rev \in Nat \ {0} /\ x.stamp \in Nat /\ i \in used
         /\ \E k \in 1..Len(feed) :
              /\ feed[k].item = i /\ feed[k].rev = x.rev
              /\ x.stamp = 0 => feed[k].kind = "delete"
<1>1. PICK k \in 1..Len(feed) :
        feed[k] = [item |-> i, kind |-> IF x.stamp = 0 THEN "delete" ELSE "upsert",
                   rev |-> x.rev, stamp |-> x.stamp]
  BY DEF InFeed
<1>2. feed[k].item = i /\ feed[k].rev = x.rev /\ feed[k].stamp = x.stamp
  BY <1>1
<1>3. x.stamp = 0 => feed[k].kind = "delete"
  BY <1>1
<1> QED BY <1>2, <1>3, FeedFacts

\* What may be queued of item i, where U are the ids in use, and what is then said
\* of the mutation: it is the phone's, and the server has never seen it.
MayQueue(U, i, kind, stamp, base) ==
  /\ i \in U
  /\ kind \in {"upsert", "delete"} /\ stamp \in Nat /\ base \in Nat
  /\ kind = "upsert" <=> stamp # 0
  /\ kind = "delete" => base # 0
  /\ base # 0 => \E k \in 1..Len(feed) : feed[k].item = i /\ feed[k].rev = base

IsNew(U, p, i, q) ==
  /\ QueuedOK(feed, clock + 1, U, p, i, q)
  /\ q \in Pending /\ q # NoPending
  /\ \A cursor : Receivable(feed, Receipts, i, q, cursor)

LEMMA NewEntry ==
  ASSUME StoreInv, WorldOK, NEW U, NEW p \in Clients, NEW i \in Items,
         NEW kind, NEW stamp, NEW base, MayQueue(U, i, kind, stamp, base)
  PROVE  LET q == Queued(p, kind, i, stamp, base)
         IN  IsNew(U, p, i, q) /\ q.base = base
<1> DEFINE q == Queued(p, kind, i, stamp, base)
<1>1. clock \in Nat
  BY DEF StoreInv
<1>2. /\ q.kind = kind /\ q.stamp = stamp /\ q.base = base
      /\ q.mut = <<p, clock, i, stamp>>
      /\ q \in [kind: {"upsert", "delete"}, stamp: Nat, base: Nat,
                mut: Clients \X Nat \X Items \X Nat]
  BY <1>1 DEF Queued, MayQueue
<1> HIDE DEF q
<1>3. q \in Pending /\ q # NoPending
  <2>1. q.kind # NoPending.kind
    BY <1>2 DEF NoPending
  <2> QED BY <1>2, <2>1 DEF Pending
<1>4. \A r \in Receipts : r.mut # q.mut
  <2> SUFFICES ASSUME NEW r \in Receipts, r.mut = q.mut PROVE FALSE
    OBVIOUS
  <2>1. r.mut[2] < clock
    BY DEF Receipts, WorldOK
  <2>2. r.mut[2] = clock
    BY <1>2
  <2> QED BY <1>1, <2>1, <2>2
<1>5. QueuedOK(feed, clock + 1, U, p, i, q)
  <2>1. q.mut[1] = p /\ q.mut[2] = clock /\ q.mut[3] = i /\ q.mut[4] = q.stamp
    BY <1>2
  <2>2. q.mut[2] < clock + 1
    BY <1>1, <2>1
  <2> QED BY <1>2, <2>1, <2>2 DEF QueuedOK, MayQueue
<1>6. \A cursor : Receivable(feed, Receipts, i, q, cursor)
  BY <1>4 DEF Receivable
<1> QED BY <1>2, <1>3, <1>5, <1>6 DEF IsNew, q

\* The base that the next mutation of an item gets.
LEMMA BaseFacts ==
  ASSUME StoreInv, NEW R, NEW n, NEW U, NEW p \in Clients,
         PhoneOK(feed, R, n, U, p, phone[p]), NEW i \in Items
  PROVE  LET base == BaseOf(p, i)
         IN  /\ base \in Nat
             /\ base # 0 => \E k \in 1..Len(feed) : feed[k].item = i /\ feed[k].rev = base
             /\ base = 0 => phone[p].rows[i].rev = 0
             /\ phone[p].pending[i] # NoPending => base = phone[p].pending[i].base
             /\ phone[p].pending[i].base <= base
<1> DEFINE row == phone[p].rows[i]
           q == phone[p].pending[i]
<1>1. row \in RowType /\ q \in Pending /\ EntryOK(feed, n, U, p, i, row, q)
  BY DEF PhoneOK
<1>2. row.rev \in Nat /\ q.base \in Nat
  BY <1>1 DEF RowType, Pending
<1>3. CASE q = NoPending
  <2>1. BaseOf(p, i) = row.rev /\ q.base = 0
    BY <1>3 DEF BaseOf, NoPending
  <2>2. row.rev # 0 => InFeed(feed, i, row)
    BY <1>1, <1>3 DEF EntryOK, NoRow
  <2>3. row.rev # 0 => \E k \in 1..Len(feed) : feed[k].item = i /\ feed[k].rev = row.rev
    BY <2>2, InFeedFacts
  <2> QED BY <1>2, <1>3, <2>1, <2>3
<1>4. CASE q # NoPending
  <2>1. BaseOf(p, i) = q.base
    BY <1>4 DEF BaseOf
  <2>2. q.base # 0 => \E k \in 1..Len(feed) : feed[k].item = i /\ feed[k].rev = q.base
    BY <1>1, <1>4 DEF EntryOK, QueuedOK
  <2>3. q.base = 0 => row.rev = 0
    BY <1>1, <1>4 DEF EntryOK
  <2> QED BY <1>2, <2>1, <2>2, <2>3
<1> QED BY <1>3, <1>4

\* Knowledge does not suffer from a higher revision or base.
LEMMA KnowsMore ==
  ASSUME StoreInv, NEW i, NEW row, NEW q, NEW rev, NEW cursor \in 0..Len(feed),
         Knows(feed, i, row, q, rev, cursor), NEW row2, NEW q2,
         row.rev \in Nat, q.base \in Nat, row2.rev \in Nat, q2.base \in Nat,
         row.rev <= row2.rev, q.base <= q2.base
  PROVE  Knows(feed, i, row2, q2, rev, cursor)
<1>1. \A k \in 1..cursor : k \in 1..Len(feed) /\ feed[k].rev \in Nat
  BY FeedFacts
<1> SUFFICES ASSUME NEW k \in 1..cursor, feed[k].item = i
             PROVE  \/ row2.rev >= feed[k].rev \/ q2.base >= feed[k].rev \/ rev >= feed[k].rev
                    \/ \E l \in k..Len(feed) : feed[l].item = i /\ feed[l].kind = "delete"
  BY DEF Knows
<1>2. \/ row.rev >= feed[k].rev \/ q.base >= feed[k].rev \/ rev >= feed[k].rev
      \/ \E l \in k..Len(feed) : feed[l].item = i /\ feed[l].kind = "delete"
  BY DEF Knows
<1> QED BY <1>1, <1>2

----------------------------------------------------------------------------
(* The user's operations keep a phone in step.                              *)

\* Row, queue entry and conflict of item i, as the invariant has them.
LEMMA EntryFacts ==
  ASSUME NEW f, NEW R, NEW n, NEW U, NEW p, NEW c, PhoneOK(f, R, n, U, p, c), NEW i \in Items
  PROVE  /\ c.rows[i] \in RowType /\ c.rows[i].rev \in Nat /\ c.rows[i].stamp \in Nat
         /\ c.pending[i] \in Pending /\ c.pending[i].base \in Nat
         /\ c.conflicts[i] \in ConflictType
         /\ EntryOK(f, n, U, p, i, c.rows[i], c.pending[i])
         /\ ConflictOK(f, c.conflicts[i], i, c.left)
         /\ i \notin c.left =>
              InStep(f, R, i, c.rows[i], c.pending[i], c.conflicts[i], c.cursor)
         /\ c.cursor \in 0..Len(f)
<1>1. /\ c.rows \in [Items -> RowType] /\ c.pending \in [Items -> Pending]
      /\ c.conflicts \in [Items -> ConflictType] /\ c.cursor \in 0..Len(f)
  BY DEF PhoneOK
<1>4. c.rows[i] \in RowType /\ c.pending[i] \in Pending /\ c.conflicts[i] \in ConflictType
  BY <1>1
<1>5. EntryOK(f, n, U, p, i, c.rows[i], c.pending[i]) /\ ConflictOK(f, c.conflicts[i], i, c.left)
  BY DEF PhoneOK
<1>6. i \notin c.left =>
        InStep(f, R, i, c.rows[i], c.pending[i], c.conflicts[i], c.cursor)
  BY DEF PhoneOK, ItemOK
<1>2. c.rows[i].rev \in Nat /\ c.rows[i].stamp \in Nat
  BY <1>4 DEF RowType
<1>3. c.pending[i].base \in Nat
  BY <1>4 DEF Pending
<1> QED BY <1>1, <1>2, <1>3, <1>4, <1>5, <1>6

\* A saved version is queued on the base its row or its old mutation had.
LEMMA SaveItemSynced ==
  ASSUME IInv, Synced, NEW p \in Clients, NEW i \in Items, SaveItem(p, i)
  PROVE  Synced'
<1> DEFINE c == phone[p]
           row == Row(clock + 1, c.rows[i].rev)
           base == BaseOf(p, i)
           q == Queued(p, "upsert", i, clock + 1, base)
           d == [c EXCEPT !.rows = [@ EXCEPT ![i] = row], !.pending = [@ EXCEPT ![i] = q]]
<1>1. /\ phone' = [phone EXCEPT ![p] = d] /\ clock < MaxEdits /\ clock' = clock + 1
      /\ used' = used \cup {i} /\ UNCHANGED <<store, told>> /\ c.pc = "idle"
  BY DEF SaveItem, MakeVersion, MayStart
<1>2. clock \in Nat /\ used \subseteq Items /\ StoreInv /\ WorldOK
  BY DEF Synced, StoreInv
<1> HIDE DEF d
<1> SUFFICES ASSUME PhoneOK(feed, Receipts, clock + 1, used', p, c)
             PROVE  PhoneOK(feed, Receipts, clock + 1, used', p, d)
  BY <1>1, <1>2, UserStep
<1> USE DEF d
<1>3. /\ c.rows[i].rev \in Nat /\ c.pending[i].base \in Nat
      /\ EntryOK(feed, clock + 1, used', p, i, c.rows[i], c.pending[i])
      /\ ConflictOK(feed, c.conflicts[i], i, c.left)
      /\ i \notin c.left =>
           InStep(feed, Receipts, i, c.rows[i], c.pending[i], c.conflicts[i], c.cursor)
      /\ c.cursor \in 0..Len(feed)
  BY EntryFacts
<1>4. /\ base \in Nat
      /\ base # 0 => \E k \in 1..Len(feed) : feed[k].item = i /\ feed[k].rev = base
      /\ base = 0 => c.rows[i].rev = 0
      /\ c.pending[i].base <= base
  BY <1>2, BaseFacts
<1> HIDE DEF base
<1>5. i \in used' /\ clock + 1 \in Nat /\ clock + 1 # 0
  BY <1>1, <1>2
<1>6. /\ QueuedOK(feed, clock + 1, used', p, i, q)
      /\ q \in Pending /\ q # NoPending /\ q.base = base
      /\ \A cursor : Receivable(feed, Receipts, i, q, cursor)
  <2>1. MayQueue(used', i, "upsert", clock + 1, base)
    BY ONLY <1>4, <1>5 DEF MayQueue
  <2>2. IsNew(used', p, i, q) /\ q.base = base
    BY ONLY p \in Clients, i \in Items, <1>2, <2>1, NewEntry
  <2> HIDE DEF q
  <2> QED BY ONLY <2>2 DEF IsNew
<1>7. row \in RowType /\ row.rev = c.rows[i].rev
  BY <1>3, <1>5 DEF Row, RowType
<1> HIDE DEF row, q
<1>8. EntryOK(feed, clock + 1, used', p, i, row, q)
  BY <1>4, <1>6, <1>7 DEF EntryOK
<1>9. i \notin c.left => InStep(feed, Receipts, i, row, q, c.conflicts[i], c.cursor)
  <2>1. i \notin c.left => Knows(feed, i, row, q, c.conflicts[i].rev, c.cursor)
    <3> SUFFICES ASSUME i \notin c.left
                 PROVE  Knows(feed, i, row, q, c.conflicts[i].rev, c.cursor)
      OBVIOUS
    <3>1. Knows(feed, i, c.rows[i], c.pending[i], c.conflicts[i].rev, c.cursor)
      BY <1>3 DEF InStep
    <3>2. /\ c.rows[i].rev \in Nat /\ c.pending[i].base \in Nat
          /\ row.rev \in Nat /\ q.base \in Nat
          /\ c.rows[i].rev <= row.rev /\ c.pending[i].base <= q.base
      <4>1. c.pending[i].base \in Nat
        BY <1>2, <1>3, <1>6 DEF EntryOK, Pending
      <4> QED BY <1>4, <1>6, <1>7, <4>1 DEF RowType, Pending
    <3>3. StoreInv /\ c.cursor \in 0..Len(feed)
      BY <1>2, <1>3
    <3> QED BY ONLY <3>1, <3>2, <3>3, KnowsMore
  <2> QED BY <1>3, <1>6, <2>1 DEF InStep
<1>10. /\ d.pc = "idle" /\ d.cursor = c.cursor /\ d.backup = c.backup /\ d.left = c.left
       /\ d.conflicts = c.conflicts
       /\ d.rows = [c.rows EXCEPT ![i] = row] /\ d.pending = [c.pending EXCEPT ![i] = q]
  BY <1>1 DEF IInv, Shape, Fields
<1> HIDE DEF d
<1>11. /\ c.rows \in [Items -> RowType] /\ c.pending \in [Items -> Pending]
       /\ c.conflicts \in [Items -> ConflictType]
  BY DEF PhoneOK
<1>12. /\ d.rows \in [Items -> RowType] /\ d.pending \in [Items -> Pending]
       /\ d.rows[i] = row /\ d.pending[i] = q
       /\ \A j \in Items \ {i} : d.rows[j] = c.rows[j] /\ d.pending[j] = c.pending[j]
  BY <1>6, <1>7, <1>10, <1>11
<1>13. \A j \in Items \ {i} : /\ d.rows[j] = c.rows[j] /\ d.pending[j] = c.pending[j]
                               /\ d.conflicts[j] = c.conflicts[j]
  BY <1>10, <1>12
<1>14. \A j \in {i} \cap Items :
         /\ EntryOK(feed, clock + 1, used', p, j, d.rows[j], d.pending[j])
         /\ ConflictOK(feed, d.conflicts[j], j, d.left)
         /\ j \notin d.left =>
              InStep(feed, Receipts, j, d.rows[j], d.pending[j], d.conflicts[j], d.cursor)
  BY <1>3, <1>8, <1>9, <1>10, <1>12
<1> HIDE DEF c
<1> QED BY ONLY PhoneOK(feed, Receipts, clock + 1, used', p, c), <1>10, <1>11, <1>12, <1>13,
             <1>14, EntriesChange

\* A phone with a new row, queue entry and conflict of item i.
WithEntry(c, i, row, q, x, left) ==
  [c EXCEPT !.rows = [@ EXCEPT ![i] = row], !.pending = [@ EXCEPT ![i] = q],
            !.conflicts = [@ EXCEPT ![i] = x], !.left = left]

\* A step of the user that changes one item.
LEMMA EntryStep ==
  ASSUME IInv, Synced, NEW p \in Clients, NEW i \in Items,
         NEW row \in RowType, NEW q \in Pending, NEW x \in ConflictType, NEW left,
         phone[p].pc = "idle", phone[p].left \subseteq left,
         phone' = [phone EXCEPT ![p] = WithEntry(phone[p], i, row, q, x, left)],
         UNCHANGED <<store, told>>,
         clock' = clock \/ (clock < MaxEdits /\ clock' = clock + 1),
         used \subseteq used', used' \subseteq Items,
         PhoneOK(feed, Receipts, clock', used', p, phone[p]) =>
           /\ EntryOK(feed, clock', used', p, i, row, q)
           /\ ConflictOK(feed, x, i, left)
           /\ i \notin left => InStep(feed, Receipts, i, row, q, x, phone[p].cursor)
  PROVE  Synced'
<1> DEFINE c == phone[p]
           d == WithEntry(c, i, row, q, x, left)
           n == clock'
           U == used'
<1>1. phone' = [phone EXCEPT ![p] = d]
  OBVIOUS
<1>2. /\ d.pc = c.pc /\ d.cursor = c.cursor /\ d.backup = c.backup /\ d.left = left
      /\ d.conflicts = [c.conflicts EXCEPT ![i] = x]
      /\ d.rows = [c.rows EXCEPT ![i] = row] /\ d.pending = [c.pending EXCEPT ![i] = q]
  BY DEF IInv, Shape, Fields, WithEntry
<1> HIDE DEF d
<1>3. ASSUME PhoneOK(feed, Receipts, n, U, p, c)
      PROVE  PhoneOK(feed, Receipts, n, U, p, d)
  <2>1. /\ c.rows \in [Items -> RowType] /\ c.pending \in [Items -> Pending]
        /\ c.conflicts \in [Items -> ConflictType]
    BY <1>3 DEF PhoneOK
  <2>2. /\ EntryOK(feed, n, U, p, i, row, q)
        /\ ConflictOK(feed, x, i, left)
        /\ i \notin left => InStep(feed, Receipts, i, row, q, x, c.cursor)
    BY <1>3
  <2>3. /\ d.rows \in [Items -> RowType] /\ d.pending \in [Items -> Pending]
        /\ d.conflicts \in [Items -> ConflictType]
        /\ d.rows[i] = row /\ d.pending[i] = q /\ d.conflicts[i] = x
        /\ \A j \in Items \ {i} : /\ d.rows[j] = c.rows[j] /\ d.pending[j] = c.pending[j]
                                  /\ d.conflicts[j] = c.conflicts[j]
    BY <1>2, <2>1
  <2>4. \A j \in {i} \cap Items :
          /\ EntryOK(feed, n, U, p, j, d.rows[j], d.pending[j])
          /\ ConflictOK(feed, d.conflicts[j], j, d.left)
          /\ j \notin d.left =>
               InStep(feed, Receipts, j, d.rows[j], d.pending[j], d.conflicts[j], d.cursor)
    BY <1>2, <2>2, <2>3
  <2>5. d.pc = "idle" /\ c.left \subseteq d.left
    BY <1>2
  <2> HIDE DEF c, n, U
  <2> QED BY ONLY <1>2, <1>3, <2>3, <2>4, <2>5, EntriesChange
<1> QED BY <1>1, <1>3, UserStep

\* A deletion is queued on the base of its row or of the old mutation; what is
\* forgotten was never in the feed that this phone has read.
LEMMA DeleteItemSynced ==
  ASSUME IInv, Synced, NEW p \in Clients, NEW i \in Items, DeleteItem(p, i)
  PROVE  Synced'
<1> DEFINE c == phone[p]
           hidden == Tombstone(c.rows[i])
           base == BaseOf(p, i)
           queued == Queued(p, "delete", i, 0, base)
           forgotten == {j \in {i} : InConflict(p, j)}
           New(row, q, left) == WithEntry(c, i, row, q, c.conflicts[i], left)
<1>1. /\ clock < MaxEdits /\ clock' = clock + 1 /\ used' = used /\ UNCHANGED <<store, told>>
      /\ c.pc = "idle" /\ Visible(c.rows[i])
  BY DEF DeleteItem, MayStart
<1>2. clock \in Nat /\ used \subseteq Items /\ used' \subseteq Items /\ StoreInv /\ WorldOK
  BY <1>1 DEF Synced, StoreInv
<1>3. PhoneOK(feed, Receipts, clock, used, p, c)
  BY DEF Synced
<1>4. /\ c.rows[i] \in RowType /\ c.rows[i].rev \in Nat /\ c.pending[i] \in Pending
      /\ c.pending[i].base \in Nat /\ c.conflicts[i] \in ConflictType
      /\ c.conflicts = [c.conflicts EXCEPT ![i] = c.conflicts[i]]
  BY <1>3, EntryFacts DEF PhoneOK
<1>5. NoRow \in RowType /\ NoPending \in Pending /\ NoRow.rev = 0 /\ NoPending.base = 0
  BY DEF NoRow, RowType, NoPending, Pending
<1>6. CASE c.pending[i].kind = "upsert" /\ c.pending[i].base = 0
  <2>1. phone' = [phone EXCEPT ![p] = New(NoRow, NoPending, c.left \cup forgotten)]
    <3>1. phone' = [phone EXCEPT ![p] =
             [c EXCEPT !.rows = [@ EXCEPT ![i] = NoRow], !.pending = [@ EXCEPT ![i] = NoPending],
                       !.left = c.left \cup forgotten]]
      BY <1>6 DEF DeleteItem
    <3>2. [c EXCEPT !.rows = [@ EXCEPT ![i] = NoRow], !.pending = [@ EXCEPT ![i] = NoPending],
                    !.left = c.left \cup forgotten] = New(NoRow, NoPending, c.left \cup forgotten)
      BY <1>4 DEF IInv, Shape, Fields, WithEntry
    <3> QED BY <3>1, <3>2
  <2>2. c.pending[i] # NoPending
    BY <1>6 DEF NoPending
  <2>3. ASSUME PhoneOK(feed, Receipts, clock', used', p, c)
        PROVE  /\ EntryOK(feed, clock', used', p, i, NoRow, NoPending)
               /\ ConflictOK(feed, c.conflicts[i], i, c.left \cup forgotten)
               /\ i \notin c.left \cup forgotten =>
                    InStep(feed, Receipts, i, NoRow, NoPending, c.conflicts[i], c.cursor)
    <3>1. /\ EntryOK(feed, clock', used', p, i, c.rows[i], c.pending[i])
          /\ ConflictOK(feed, c.conflicts[i], i, c.left)
          /\ i \notin c.left =>
               InStep(feed, Receipts, i, c.rows[i], c.pending[i], c.conflicts[i], c.cursor)
          /\ c.cursor \in 0..Len(feed)
      BY <2>3, EntryFacts
    <3>2. c.rows[i].rev = 0
      BY <1>6, <2>2, <3>1 DEF EntryOK
    <3>3. EntryOK(feed, clock', used', p, i, NoRow, NoPending)
      BY DEF EntryOK, QueuedOK
    <3>4. ConflictOK(feed, c.conflicts[i], i, c.left \cup forgotten)
      BY <3>1 DEF ConflictOK
    <3>5. ASSUME i \notin c.left \cup forgotten
          PROVE  InStep(feed, Receipts, i, NoRow, NoPending, c.conflicts[i], c.cursor)
      <4>1. c.conflicts[i].status # "UNRESOLVED"
        BY <3>5 DEF InConflict
      <4>2. Knows(feed, i, c.rows[i], c.pending[i], c.conflicts[i].rev, c.cursor)
        BY <3>1, <3>5 DEF InStep
      <4>3. Knows(feed, i, NoRow, NoPending, c.conflicts[i].rev, c.cursor)
        <5>1. 0 <= 0 /\ 0 \in Nat
          OBVIOUS
        <5> QED BY <1>2, <1>5, <1>6, <3>1, <3>2, <4>2, <5>1, KnowsMore
      <4> QED BY <4>1, <4>3 DEF InStep, Receivable
    <3> QED BY <3>3, <3>4, <3>5
  <2>4. c.left \subseteq c.left \cup forgotten
    OBVIOUS
  <2> HIDE DEF forgotten
  <2> QED BY <1>1, <1>2, <1>4, <1>5, <2>1, <2>3, <2>4, EntryStep
<1>7. CASE ~(c.pending[i].kind = "upsert" /\ c.pending[i].base = 0)
  <2>1. phone' = [phone EXCEPT ![p] = New(hidden, queued, c.left)]
    <3>1. phone' = [phone EXCEPT ![p] =
             [c EXCEPT !.rows = [@ EXCEPT ![i] = hidden], !.pending = [@ EXCEPT ![i] = queued]]]
      BY <1>7 DEF DeleteItem
    <3>2. [c EXCEPT !.rows = [@ EXCEPT ![i] = hidden], !.pending = [@ EXCEPT ![i] = queued]]
            = New(hidden, queued, c.left)
      BY <1>4 DEF IInv, Shape, Fields, WithEntry
    <3> QED BY <3>1, <3>2
  <2>2. /\ base \in Nat
        /\ base # 0 => \E k \in 1..Len(feed) : feed[k].item = i /\ feed[k].rev = base
        /\ c.pending[i].base <= base
        /\ c.pending[i] # NoPending => base = c.pending[i].base
        /\ base = 0 => c.rows[i].rev = 0
    BY <1>2, <1>3, BaseFacts
  <2>3. EntryOK(feed, clock, used, p, i, c.rows[i], c.pending[i])
    BY <1>3, EntryFacts
  <2>4. base # 0 /\ i \in used
    <3>1. CASE c.pending[i] = NoPending
      <4>1. InFeed(feed, i, c.rows[i])
        BY <1>1, <2>3, <3>1 DEF EntryOK, Visible
      <4>2. c.rows[i].rev # 0 /\ i \in used
        BY <1>2, <4>1, InFeedFacts
      <4> QED BY <2>2, <4>2
    <3>2. CASE c.pending[i] # NoPending
      <4>1. /\ c.pending[i].kind \in {"upsert", "delete"}
            /\ c.pending[i].kind = "delete" => c.pending[i].base # 0
            /\ i \in used
        BY <2>3, <3>2 DEF EntryOK, QueuedOK
      <4> QED BY <1>7, <2>2, <3>2, <4>1
    <3> QED BY <3>1, <3>2
  <2> HIDE DEF base
  <2>5. /\ QueuedOK(feed, clock + 1, used, p, i, queued)
        /\ queued \in Pending /\ queued # NoPending /\ queued.base = base
        /\ \A cursor : Receivable(feed, Receipts, i, queued, cursor)
    <3>1. MayQueue(used, i, "delete", 0, base)
      BY ONLY <2>2, <2>4 DEF MayQueue
    <3>2. IsNew(used, p, i, queued) /\ queued.base = base
      BY ONLY p \in Clients, i \in Items, <1>2, <3>1, NewEntry
    <3> HIDE DEF queued
    <3> QED BY ONLY <3>2 DEF IsNew
  <2>6. hidden \in RowType /\ hidden.rev = c.rows[i].rev
    BY <1>4 DEF Tombstone, RowType
  <2> HIDE DEF hidden, queued
  <2>7. ASSUME PhoneOK(feed, Receipts, clock', used', p, c)
        PROVE  /\ EntryOK(feed, clock', used', p, i, hidden, queued)
               /\ ConflictOK(feed, c.conflicts[i], i, c.left)
               /\ i \notin c.left =>
                    InStep(feed, Receipts, i, hidden, queued, c.conflicts[i], c.cursor)
    <3>1. /\ ConflictOK(feed, c.conflicts[i], i, c.left)
          /\ i \notin c.left =>
               InStep(feed, Receipts, i, c.rows[i], c.pending[i], c.conflicts[i], c.cursor)
          /\ c.cursor \in 0..Len(feed)
      BY <2>7, EntryFacts
    <3>2. EntryOK(feed, clock', used', p, i, hidden, queued)
      BY <1>1, <2>4, <2>5 DEF EntryOK
    <3>3. i \notin c.left => Knows(feed, i, hidden, queued, c.conflicts[i].rev, c.cursor)
      <4> SUFFICES ASSUME i \notin c.left
                   PROVE  Knows(feed, i, hidden, queued, c.conflicts[i].rev, c.cursor)
        OBVIOUS
      <4>1. Knows(feed, i, c.rows[i], c.pending[i], c.conflicts[i].rev, c.cursor)
        BY <3>1 DEF InStep
      <4>2. /\ c.rows[i].rev \in Nat /\ c.pending[i].base \in Nat
            /\ hidden.rev \in Nat /\ queued.base \in Nat
            /\ c.rows[i].rev <= hidden.rev /\ c.pending[i].base <= queued.base
        BY <1>2, <1>4, <2>2, <2>5, <2>6
      <4>3. StoreInv /\ c.cursor \in 0..Len(feed)
        BY <1>2, <3>1
      <4> QED BY ONLY <4>1, <4>2, <4>3, KnowsMore
    <3> QED BY <2>5, <3>1, <3>2, <3>3 DEF InStep
  <2> QED BY <1>1, <1>2, <1>4, <2>1, <2>5, <2>6, <2>7, EntryStep
<1> QED BY <1>6, <1>7

\* An item that is imported is not there, and nothing of it is queued.
LEMMA ImportItemsSynced ==
  ASSUME IInv, Synced, NEW p \in Clients, NEW S \in SUBSET Items, ImportItems(p, S)
  PROVE  Synced'
<1> DEFINE c == phone[p]
           row == Row(clock + 1, 0)
           q(i) == Queued(p, "upsert", i, clock + 1, 0)
           rows == [i \in Items |-> IF i \in S THEN row ELSE c.rows[i]]
           pending == [i \in Items |-> IF i \in S THEN q(i) ELSE c.pending[i]]
           d == [c EXCEPT !.rows = rows, !.pending = pending, !.unlocked = FALSE]
<1>1. /\ phone' = [phone EXCEPT ![p] = d] /\ clock < MaxEdits /\ clock' = clock + 1
      /\ used' = used \cup S /\ UNCHANGED <<store, told>> /\ c.pc = "idle"
      /\ \A i \in S : c.rows[i] = NoRow
  BY DEF ImportItems, MayStart
<1>2. clock \in Nat /\ used \subseteq Items /\ StoreInv /\ WorldOK /\ used' \subseteq Items
  BY <1>1 DEF Synced, StoreInv
<1> HIDE DEF d
<1> SUFFICES ASSUME PhoneOK(feed, Receipts, clock + 1, used', p, c)
             PROVE  PhoneOK(feed, Receipts, clock + 1, used', p, d)
  BY <1>1, <1>2, UserStep
<1> USE DEF d
<1>3. row \in RowType /\ row.rev = 0 /\ NoRow.rev = 0 /\ NoPending.base = 0
  BY <1>2 DEF Row, RowType, NoRow, NoPending
<1>4. ASSUME NEW i \in S
      PROVE  /\ QueuedOK(feed, clock + 1, used', p, i, q(i))
             /\ q(i) \in Pending /\ q(i) # NoPending /\ q(i).base = 0
             /\ \A cursor : Receivable(feed, Receipts, i, q(i), cursor)
  <2>1. i \in Items /\ i \in used' /\ clock + 1 \in Nat /\ clock + 1 # 0 /\ 0 \in Nat
    BY <1>1, <1>2
  <2>2. MayQueue(used', i, "upsert", clock + 1, 0)
    BY ONLY <2>1 DEF MayQueue
  <2>3. IsNew(used', p, i, q(i)) /\ q(i).base = 0
    BY ONLY p \in Clients, <1>2, <2>1, <2>2, NewEntry
  <2> HIDE DEF q
  <2> QED BY ONLY <2>3 DEF IsNew
<1> HIDE DEF row, q
<1>5. ASSUME NEW i \in S, i \notin c.left
      PROVE  InStep(feed, Receipts, i, row, q(i), c.conflicts[i], c.cursor)
  <2>1. i \in Items
    OBVIOUS
  <2>2. /\ c.rows[i] = NoRow /\ c.pending[i] = NoPending
    BY <1>1, <2>1 DEF IInv, QueueMatchesRows, Agree, Visible, NoRow
  <2>3. /\ InStep(feed, Receipts, i, NoRow, NoPending, c.conflicts[i], c.cursor)
        /\ c.cursor \in 0..Len(feed)
    BY <1>5, <2>1, <2>2, EntryFacts
  <2>4. 0 \in Nat /\ 0 <= 0
    OBVIOUS
  <2>5. Knows(feed, i, row, q(i), c.conflicts[i].rev, c.cursor)
    BY <1>2, <1>3, <1>4, <2>3, <2>4, KnowsMore DEF InStep
  <2> QED BY <1>4, <2>3, <2>5 DEF InStep
<1>6. /\ c.rows \in [Items -> RowType] /\ c.pending \in [Items -> Pending]
      /\ c.conflicts \in [Items -> ConflictType]
  BY DEF PhoneOK
<1>7. /\ rows \in [Items -> RowType] /\ pending \in [Items -> Pending]
      /\ \A i \in Items \ S : rows[i] = c.rows[i] /\ pending[i] = c.pending[i]
      /\ \A i \in S \cap Items : rows[i] = row /\ pending[i] = q(i)
  BY <1>3, <1>4, <1>6
<1> HIDE DEF rows, pending
<1>8. /\ d.pc = "idle" /\ d.cursor = c.cursor /\ d.backup = c.backup /\ d.left = c.left
      /\ d.conflicts = c.conflicts /\ d.rows = rows /\ d.pending = pending
  BY <1>1 DEF IInv, Shape, Fields
<1> HIDE DEF d
<1>9. \A i \in Items \ S : /\ d.rows[i] = c.rows[i] /\ d.pending[i] = c.pending[i]
                           /\ d.conflicts[i] = c.conflicts[i]
  BY <1>7, <1>8
<1>10. \A i \in S \cap Items :
         /\ EntryOK(feed, clock + 1, used', p, i, d.rows[i], d.pending[i])
         /\ ConflictOK(feed, d.conflicts[i], i, d.left)
         /\ i \notin d.left =>
              InStep(feed, Receipts, i, d.rows[i], d.pending[i], d.conflicts[i], d.cursor)
  <2> SUFFICES ASSUME NEW i \in S \cap Items
               PROVE  /\ EntryOK(feed, clock + 1, used', p, i, row, q(i))
                      /\ ConflictOK(feed, c.conflicts[i], i, c.left)
                      /\ i \notin c.left =>
                           InStep(feed, Receipts, i, row, q(i), c.conflicts[i], c.cursor)
    BY <1>7, <1>8
  <2>1. EntryOK(feed, clock + 1, used', p, i, row, q(i))
    BY <1>3, <1>4 DEF EntryOK
  <2>2. ConflictOK(feed, c.conflicts[i], i, c.left)
    BY EntryFacts
  <2> QED BY <1>5, <2>1, <2>2
<1>11. /\ d.rows \in [Items -> RowType] /\ d.pending \in [Items -> Pending]
       /\ d.conflicts \in [Items -> ConflictType]
  BY <1>6, <1>7, <1>8
<1> HIDE DEF c
<1> QED BY ONLY PhoneOK(feed, Receipts, clock + 1, used', p, c), <1>8, <1>9, <1>10, <1>11,
             EntriesChange

\* What is kept is queued on the revision that was in its way, which covers all
\* that was pulled.
LEMMA KeepLocalSynced ==
  ASSUME IInv, Synced, NEW p \in Clients, NEW i \in Items, KeepLocal(p, i)
  PROVE  Synced'
<1> DEFINE c == phone[p]
           row == c.rows[i]
           x == c.conflicts[i]
           kind == IF c.pending[i] # NoPending THEN c.pending[i].kind
                   ELSE IF row.deleted THEN "delete" ELSE "upsert"
           stamp == IF kind = "delete" THEN 0 ELSE row.stamp
           base == x.rev
           q == Queued(p, kind, i, stamp, base)
<1>1. /\ clock < MaxEdits /\ clock' = clock + 1 /\ used' = used /\ UNCHANGED <<store, told>>
      /\ c.pc = "idle" /\ row # NoRow /\ x.status = "UNRESOLVED"
  BY DEF KeepLocal, MayResolve, MayStart, InConflict
<1>2. clock \in Nat /\ used \subseteq Items /\ used' \subseteq Items /\ StoreInv /\ WorldOK
  BY <1>1 DEF Synced, StoreInv
<1>3. PhoneOK(feed, Receipts, clock, used, p, c)
  BY DEF Synced
<1>4. /\ row \in RowType /\ row.rev \in Nat /\ row.stamp \in Nat /\ c.pending[i] \in Pending
      /\ c.rows = [c.rows EXCEPT ![i] = row]
      /\ EntryOK(feed, clock, used, p, i, row, c.pending[i]) /\ ConflictOK(feed, x, i, c.left)
  BY <1>3, EntryFacts DEF PhoneOK
<1>5. /\ x.rev \in Nat \ {0} /\ i \in used
      /\ \E k \in 1..Len(feed) : feed[k].item = i /\ feed[k].rev = base
  BY <1>1, <1>2, <1>4, InFeedFacts DEF ConflictOK
<1>6. /\ kind \in {"upsert", "delete"} /\ stamp \in Nat /\ (kind = "upsert" <=> stamp # 0)
  <2>1. Agree(row, c.pending[i])
    BY DEF IInv, QueueMatchesRows
  <2>2. CASE c.pending[i] = NoPending
    <3>1. row.stamp # 0 /\ ~row.deleted
      BY <1>1, <1>4, <2>2 DEF EntryOK
    <3> QED BY <1>4, <2>2, <3>1
  <2>3. CASE c.pending[i] # NoPending
    <3>1. /\ c.pending[i].kind \in {"upsert", "delete"}
          /\ c.pending[i].kind = "upsert" <=> c.pending[i].stamp # 0
      BY <1>4, <2>3 DEF EntryOK, QueuedOK
    <3>2. c.pending[i].kind = "upsert" => row.stamp = c.pending[i].stamp
      BY <2>1 DEF Agree
    <3> QED BY <1>4, <2>3, <3>1, <3>2
  <2> QED BY <2>2, <2>3
<1>7. /\ QueuedOK(feed, clock + 1, used, p, i, q)
      /\ q \in Pending /\ q # NoPending /\ q.base = base
      /\ \A cursor : Receivable(feed, Receipts, i, q, cursor)
  <2> HIDE DEF kind, stamp
  <2>1. MayQueue(used, i, kind, stamp, base)
    BY <1>5, <1>6 DEF MayQueue
  <2>2. IsNew(used, p, i, q) /\ q.base = base
    BY ONLY p \in Clients, i \in Items, <1>2, <2>1, NewEntry
  <2> HIDE DEF q
  <2> QED BY ONLY <2>2 DEF IsNew
<1> HIDE DEF q, kind, stamp
<1>8. phone' = [phone EXCEPT ![p] = WithEntry(c, i, row, q, NoConflict, c.left)]
  <2>1. phone' = [phone EXCEPT ![p] =
           [c EXCEPT !.pending = [@ EXCEPT ![i] = q],
                     !.conflicts = [@ EXCEPT ![i] = NoConflict]]]
    <3>1. phone' = [phone EXCEPT ![p].pending[i] = q, ![p].conflicts[i] = NoConflict]
      BY Zenon DEF KeepLocal, q, kind, stamp
    <3> QED BY ONLY <3>1
  <2>2. [c EXCEPT !.pending = [@ EXCEPT ![i] = q], !.conflicts = [@ EXCEPT ![i] = NoConflict]]
          = WithEntry(c, i, row, q, NoConflict, c.left)
    BY <1>4 DEF IInv, Shape, Fields, WithEntry
  <2> QED BY <2>1, <2>2
<1>9. NoConflict \in ConflictType /\ NoConflict.status = "none"
  BY DEF NoConflict, ConflictType
<1>10. ASSUME PhoneOK(feed, Receipts, clock', used', p, c)
       PROVE  /\ EntryOK(feed, clock', used', p, i, row, q)
              /\ ConflictOK(feed, NoConflict, i, c.left)
              /\ i \notin c.left =>
                   InStep(feed, Receipts, i, row, q, NoConflict, c.cursor)
  <2>1. EntryOK(feed, clock', used', p, i, row, q)
    BY <1>1, <1>5, <1>7 DEF EntryOK
  <2>2. ConflictOK(feed, NoConflict, i, c.left)
    BY <1>9 DEF ConflictOK
  <2>3. i \notin c.left => Covered(feed, i, q.base, c.cursor) /\ c.cursor \in 0..Len(feed)
    BY <1>1, <1>7, <1>10, EntryFacts DEF InStep
  <2>4. i \notin c.left => Knows(feed, i, row, q, NoConflict.rev, c.cursor)
    <3>1. i \notin c.left =>
            \A k \in 1..c.cursor : /\ k \in 1..Len(feed) /\ feed[k].rev \in Nat
                                   /\ feed[k].item = i => feed[k].rev <= q.base
      BY <1>2, <2>3, FeedFacts DEF Covered
    <3>2. q.base \in Nat
      BY <1>5, <1>7
    <3> QED BY <3>1, <3>2 DEF Knows
  <2> QED BY <1>7, <1>9, <2>1, <2>2, <2>4 DEF InStep
<1>11. c.left \subseteq c.left
  OBVIOUS
<1> HIDE DEF base
<1> QED BY <1>1, <1>2, <1>4, <1>7, <1>8, <1>9, <1>10, <1>11, EntryStep

\* A conflict that is skipped counts its item among those left in conflict.
LEMMA SkipSynced ==
  ASSUME IInv, Synced, NEW p \in Clients, NEW i \in Items, Skip(p, i)
  PROVE  Synced'
<1> DEFINE c == phone[p]
           x == [c.conflicts[i] EXCEPT !.status = "SKIPPED"]
           left == c.left \cup {i}
<1>1. /\ clock < MaxEdits /\ clock' = clock + 1 /\ used' = used /\ UNCHANGED <<store, told>>
      /\ c.pc = "idle"
  BY DEF Skip, MayResolve, MayStart
<1>2. clock \in Nat /\ used' \subseteq Items
  BY <1>1 DEF Synced, StoreInv
<1>3. PhoneOK(feed, Receipts, clock, used, p, c)
  BY DEF Synced
<1>4. /\ c.rows[i] \in RowType /\ c.pending[i] \in Pending /\ c.conflicts[i] \in ConflictType
      /\ c.rows = [c.rows EXCEPT ![i] = c.rows[i]]
      /\ c.pending = [c.pending EXCEPT ![i] = c.pending[i]]
  BY <1>3, EntryFacts DEF PhoneOK
<1>5. x \in ConflictType /\ x.status = "SKIPPED"
  BY <1>4 DEF ConflictType
<1>6. phone' = [phone EXCEPT ![p] = WithEntry(c, i, c.rows[i], c.pending[i], x, left)]
  <2>1. phone' = [phone EXCEPT ![p] =
           [c EXCEPT !.conflicts = [@ EXCEPT ![i] = x], !.left = left]]
    BY DEF Skip
  <2>2. [c EXCEPT !.conflicts = [@ EXCEPT ![i] = x], !.left = left]
          = WithEntry(c, i, c.rows[i], c.pending[i], x, left)
    BY <1>4 DEF IInv, Shape, Fields, WithEntry
  <2> QED BY <2>1, <2>2
<1> HIDE DEF x
<1>7. ASSUME PhoneOK(feed, Receipts, clock', used', p, c)
      PROVE  /\ EntryOK(feed, clock', used', p, i, c.rows[i], c.pending[i])
             /\ ConflictOK(feed, x, i, left)
             /\ i \notin left => InStep(feed, Receipts, i, c.rows[i], c.pending[i], x, c.cursor)
  BY <1>5, <1>7, EntryFacts DEF ConflictOK
<1>8. c.left \subseteq left
  OBVIOUS
<1> HIDE DEF left
<1> QED BY <1>1, <1>2, <1>4, <1>5, <1>6, <1>7, <1>8, EntryStep

----------------------------------------------------------------------------
(* Taking the version of the server.                                        *)

\* The remote version of a conflict, as a row.
RemoteRow(x) == IF x.stamp = 0 THEN NoRow ELSE Row(x.stamp, x.rev)

\* What the server had has a revision.
LEMMA HadRevision ==
  ASSUME NEW f, FeedOK(f), NEW i, NEW x, InFeed(f, i, x)
  PROVE  /\ x.rev \in Nat \ {0} /\ x.stamp \in Nat
         /\ \E k \in 1..Len(f) :
              /\ f[k].item = i /\ f[k].rev = x.rev
              /\ x.stamp = 0 => f[k].kind = "delete"
<1>1. PICK k \in 1..Len(f) :
        f[k] = [item |-> i, kind |-> IF x.stamp = 0 THEN "delete" ELSE "upsert",
                rev |-> x.rev, stamp |-> x.stamp]
  BY DEF InFeed
<1>2. f[k].item = i /\ f[k].rev = x.rev /\ f[k].stamp = x.stamp
  BY <1>1
<1>3. x.stamp = 0 => f[k].kind = "delete"
  BY <1>1
<1> QED BY <1>2, <1>3 DEF FeedOK

\* A deletion in the feed says all of what came before it.
LEMMA DeletionIsKnown ==
  ASSUME NEW f, FeedOK(f), NEW i, NEW row, NEW q, NEW rev, NEW gone, NEW cursor \in 0..Len(f),
         InFeed(f, i, gone), gone.stamp = 0, Covered(f, i, gone.rev, cursor)
  PROVE  Knows(f, i, row, q, rev, cursor)
<1>1. PICK m \in 1..Len(f) :
        f[m].item = i /\ f[m].rev = gone.rev /\ f[m].kind = "delete"
  BY HadRevision
<1> SUFFICES ASSUME NEW k \in 1..cursor, f[k].item = i
             PROVE  \E l \in k..Len(f) : f[l].item = i /\ f[l].kind = "delete"
  BY DEF Knows
<1>2. k \in 1..Len(f) /\ f[k].rev <= gone.rev
  BY DEF FeedOK, Covered
<1>3. k <= m
  BY <1>1, <1>2 DEF FeedOK
<1> QED BY <1>1, <1>3

\* So does a row in the revision that covers what is behind the cursor.
LEMMA CoveredIsKnown ==
  ASSUME NEW f, FeedOK(f), NEW i, NEW row, NEW q, NEW rev, NEW cursor \in 0..Len(f),
         row.rev \in Nat, Covered(f, i, row.rev, cursor)
  PROVE  Knows(f, i, row, q, rev, cursor)
<1>1. \A k \in 1..cursor : k \in 1..Len(f) /\ f[k].rev \in Nat
  BY DEF FeedOK
<1> QED BY <1>1 DEF Knows, Covered

\* A version that covers what is behind the cursor, with nothing queued.
LEMMA ServedEntry ==
  ASSUME NEW f, FeedOK(f), NEW R, NEW n, NEW U, NEW p, NEW i, NEW x, InFeed(f, i, x)
  PROVE  /\ RemoteRow(x) \in RowType
         /\ EntryOK(f, n, U, p, i, RemoteRow(x), NoPending)
         /\ \A y : \A cursor \in 0..Len(f) :
              Covered(f, i, x.rev, cursor) /\ y.status # "UNRESOLVED" =>
                InStep(f, R, i, RemoteRow(x), NoPending, y, cursor)
<1>1. x.rev \in Nat \ {0} /\ x.stamp \in Nat
  BY HadRevision
<1>2. RemoteRow(x) \in RowType
  BY <1>1 DEF RemoteRow, RowType, NoRow, Row
<1>3. EntryOK(f, n, U, p, i, RemoteRow(x), NoPending)
  <2>1. CASE x.stamp = 0
    BY <2>1 DEF RemoteRow, EntryOK, QueuedOK
  <2>2. CASE x.stamp # 0
    <3>1. /\ RemoteRow(x).stamp = x.stamp /\ RemoteRow(x).rev = x.rev
          /\ ~RemoteRow(x).deleted
      BY <2>2 DEF RemoteRow, Row
    <3>2. InFeed(f, i, RemoteRow(x))
      BY <3>1 DEF InFeed
    <3> QED BY <2>2, <3>1, <3>2 DEF EntryOK, QueuedOK
  <2> QED BY <2>1, <2>2
<1>4. ASSUME NEW y, NEW cursor \in 0..Len(f), Covered(f, i, x.rev, cursor),
             y.status # "UNRESOLVED"
      PROVE  InStep(f, R, i, RemoteRow(x), NoPending, y, cursor)
  <2>1. Knows(f, i, RemoteRow(x), NoPending, y.rev, cursor)
    <3>1. CASE x.stamp = 0
      BY <1>4, <3>1, DeletionIsKnown
    <3>2. CASE x.stamp # 0
      <4>1. RemoteRow(x).rev = x.rev
        BY <3>2 DEF RemoteRow, Row
      <4> QED BY <1>1, <1>4, <4>1, CoveredIsKnown
    <3> QED BY <3>1, <3>2
  <2> QED BY <1>4, <2>1 DEF InStep, Receivable
<1> QED BY <1>2, <1>3, <1>4

\* The version of the server replaces the row and what was queued.
LEMMA AcceptRemoteSynced ==
  ASSUME IInv, Synced, NEW p \in Clients, NEW i \in Items, AcceptRemote(p, i)
  PROVE  Synced'
<1> DEFINE c == phone[p]
           x == c.conflicts[i]
           row == RemoteRow(x)
<1>1. /\ UNCHANGED <<store, told>> /\ clock' = clock /\ used' = used /\ c.pc = "idle"
      /\ x.status = "UNRESOLVED"
  BY DEF AcceptRemote, MayResolve, MayStart, InConflict, world, store
<1>2. StoreInv /\ used' \subseteq Items /\ PhoneOK(feed, Receipts, clock, used, p, c)
  BY <1>1 DEF Synced, StoreInv
<1>3. /\ ConflictOK(feed, x, i, c.left) /\ c.cursor \in 0..Len(feed)
      /\ i \notin c.left =>
           InStep(feed, Receipts, i, c.rows[i], c.pending[i], x, c.cursor)
  BY <1>2, EntryFacts
<1>4. InFeed(feed, i, x) /\ (i \notin c.left => Covered(feed, i, x.rev, c.cursor))
  BY <1>1, <1>3 DEF ConflictOK, InStep
<1>5. /\ NoConflict \in ConflictType /\ NoConflict.status = "none"
      /\ NoPending \in Pending
  BY DEF NoConflict, ConflictType, NoPending, Pending
<1>6. phone' = [phone EXCEPT ![p] = WithEntry(c, i, row, NoPending, NoConflict, c.left)]
  <2>1. phone' = [phone EXCEPT ![p] = WithRemote(c, i)]
    BY DEF AcceptRemote
  <2>2. WithRemote(c, i) = WithEntry(c, i, row, NoPending, NoConflict, c.left)
    BY DEF WithRemote, RemoteRow, WithEntry, IInv, Shape, Fields
  <2> QED BY <2>1, <2>2
<1>7. /\ row \in RowType
      /\ EntryOK(feed, clock, used, p, i, row, NoPending)
      /\ i \notin c.left => InStep(feed, Receipts, i, row, NoPending, NoConflict, c.cursor)
  BY <1>2, <1>3, <1>4, <1>5, FeedIsOK, ServedEntry
<1>8. ConflictOK(feed, NoConflict, i, c.left)
  BY <1>5 DEF ConflictOK
<1>9. c.left \subseteq c.left
  OBVIOUS
<1> HIDE DEF row
<1> QED BY <1>1, <1>2, <1>5, <1>6, <1>7, <1>8, <1>9, EntryStep

\* The copy is a new item, of which the server has never heard.
LEMMA CreateCopySynced ==
  ASSUME IInv, Synced, NEW p \in Clients, NEW i \in Items, NEW j \in Items, CreateCopy(p, i, j)
  PROVE  Synced'
<1> DEFINE c == phone[p]
           x == c.conflicts[i]
           row == RemoteRow(x)
           copy == Row(clock + 1, 0)
           q == Queued(p, "upsert", j, clock + 1, 0)
           d == [WithRemote(c, i) EXCEPT !.rows = [@ EXCEPT ![j] = copy],
                                         !.pending = [@ EXCEPT ![j] = q]]
<1>1. /\ clock < MaxEdits /\ clock' = clock + 1 /\ used' = used \cup {j}
      /\ UNCHANGED <<store, told>> /\ c.pc = "idle" /\ x.status = "UNRESOLVED"
      /\ j \notin used /\ phone' = [phone EXCEPT ![p] = d]
  BY DEF CreateCopy, MayResolve, MayStart, InConflict, MakeVersion
<1>2. clock \in Nat /\ used \subseteq Items /\ StoreInv /\ WorldOK
  BY DEF Synced, StoreInv
<1> HIDE DEF d
<1> SUFFICES ASSUME PhoneOK(feed, Receipts, clock + 1, used', p, c)
             PROVE  PhoneOK(feed, Receipts, clock + 1, used', p, d)
  BY <1>1, <1>2, UserStep
<1>3. /\ ConflictOK(feed, x, i, c.left) /\ c.cursor \in 0..Len(feed)
      /\ i \notin c.left =>
           InStep(feed, Receipts, i, c.rows[i], c.pending[i], x, c.cursor)
      /\ ConflictOK(feed, c.conflicts[j], j, c.left)
  BY EntryFacts
<1>4. InFeed(feed, i, x) /\ (i \notin c.left => Covered(feed, i, x.rev, c.cursor))
  BY <1>1, <1>3 DEF ConflictOK, InStep
<1>5. i # j
  BY <1>1, <1>2, <1>4, InFeedFacts
<1>6. /\ NoConflict \in ConflictType /\ NoConflict.status = "none"
      /\ NoPending \in Pending
  BY DEF NoConflict, ConflictType, NoPending, Pending
<1>7. /\ row \in RowType
      /\ EntryOK(feed, clock + 1, used', p, i, row, NoPending)
      /\ i \notin c.left => InStep(feed, Receipts, i, row, NoPending, NoConflict, c.cursor)
  BY <1>2, <1>3, <1>4, <1>6, FeedIsOK, ServedEntry
<1>8. copy \in RowType /\ copy.rev = 0
  BY <1>2 DEF Row, RowType
<1>9. /\ q.kind = "upsert" /\ q.stamp # 0 /\ q.base = 0 /\ q.mut = <<p, clock, j, q.stamp>>
      /\ q \in [kind: {"upsert", "delete"}, stamp: Nat, base: Nat,
                mut: Clients \X Nat \X Items \X Nat]
  BY <1>2 DEF Queued
<1>10. /\ d.pc = "idle" /\ d.cursor = c.cursor /\ d.backup = c.backup /\ d.left = c.left
       /\ d.rows = [[c.rows EXCEPT ![i] = row] EXCEPT ![j] = copy]
       /\ d.pending = [[c.pending EXCEPT ![i] = NoPending] EXCEPT ![j] = q]
       /\ d.conflicts = [c.conflicts EXCEPT ![i] = NoConflict]
  <2> DEFINE e == WithRemote(c, i)
  <2>1. /\ e.pc = "idle" /\ e.cursor = c.cursor /\ e.backup = c.backup /\ e.left = c.left
        /\ e.rows = [c.rows EXCEPT ![i] = row]
        /\ e.pending = [c.pending EXCEPT ![i] = NoPending]
        /\ e.conflicts = [c.conflicts EXCEPT ![i] = NoConflict]
        /\ DOMAIN e = Fields
    BY <1>1 DEF WithRemote, RemoteRow, IInv, Shape, Fields
  <2> HIDE DEF e, row, copy, q, c
  <2> QED BY <2>1 DEF d, Fields, e
<1> HIDE DEF row, copy, q
<1>11. j \in used'
  BY <1>1
<1>12. /\ QueuedOK(feed, clock + 1, used', p, j, q)
       /\ q \in Pending /\ q # NoPending
       /\ \A cursor : Receivable(feed, Receipts, j, q, cursor)
  <2>1. MayQueue(used', j, "upsert", clock + 1, 0)
    BY <1>2, <1>11 DEF MayQueue
  <2>2. IsNew(used', p, j, q)
    BY ONLY p \in Clients, j \in Items, <1>2, <2>1, NewEntry DEF q
  <2> QED BY ONLY <2>2 DEF IsNew
<1>13. EntryOK(feed, clock + 1, used', p, j, copy, q)
  BY <1>8, <1>12 DEF EntryOK
<1>14. InStep(feed, Receipts, j, copy, q, c.conflicts[j], c.cursor)
  <2>1. c.conflicts[j].status # "UNRESOLVED"
    BY <1>1, <1>2, <1>3, InFeedFacts DEF ConflictOK
  <2>2. \A k \in 1..c.cursor : feed[k].item # j
    BY <1>1, <1>2, <1>3, FeedFacts
  <2> QED BY <1>12, <2>1, <2>2 DEF InStep, Knows
<1>15. /\ c.rows \in [Items -> RowType] /\ c.pending \in [Items -> Pending]
       /\ c.conflicts \in [Items -> ConflictType]
  BY DEF PhoneOK
<1>16. /\ d.rows \in [Items -> RowType] /\ d.pending \in [Items -> Pending]
       /\ d.conflicts \in [Items -> ConflictType]
       /\ d.rows[i] = row /\ d.pending[i] = NoPending /\ d.conflicts[i] = NoConflict
       /\ d.rows[j] = copy /\ d.pending[j] = q /\ d.conflicts[j] = c.conflicts[j]
  BY <1>5, <1>6, <1>7, <1>8, <1>10, <1>12, <1>15
<1>17. \A k \in Items \ {i, j} : /\ d.rows[k] = c.rows[k] /\ d.pending[k] = c.pending[k]
                                  /\ d.conflicts[k] = c.conflicts[k]
  BY <1>10, <1>15
<1>18. ConflictOK(feed, NoConflict, i, c.left)
  BY <1>6 DEF ConflictOK
<1>19. \A k \in {i, j} \cap Items :
         /\ EntryOK(feed, clock + 1, used', p, k, d.rows[k], d.pending[k])
         /\ ConflictOK(feed, d.conflicts[k], k, d.left)
         /\ k \notin d.left =>
              InStep(feed, Receipts, k, d.rows[k], d.pending[k], d.conflicts[k], d.cursor)
  BY <1>3, <1>7, <1>10, <1>13, <1>14, <1>16, <1>18
<1> HIDE DEF c
<1>20. c.left \subseteq d.left
  BY <1>10
<1> QED BY ONLY PhoneOK(feed, Receipts, clock + 1, used', p, c), <1>10, <1>16, <1>17, <1>19,
             <1>20, EntriesChange

----------------------------------------------------------------------------
(* Backups, and the steps that touch no table.                              *)

\* The tables say the same, whatever the run is at.
LEMMA SameTables ==
  ASSUME NEW f, NEW R, NEW n, NEW U, NEW p, NEW c, PhoneOK(f, R, n, U, p, c),
         NEW d, d.rows = c.rows, d.pending = c.pending, d.conflicts = c.conflicts,
         d.cursor = c.cursor, d.backup = c.backup, d.left = c.left,
         d.pc \in {"idle", "push", "conflicts", "pull"},
         d.pc = "conflicts" => c.pc = "conflicts" /\ d.answered = c.answered
  PROVE  PhoneOK(f, R, n, U, p, d)
<1>1. d.pc = "conflicts" => AnsweredOK(f, d)
  BY DEF PhoneOK, AnsweredOK
<1>2. \A i \in Items \ d.left : ItemOK(f, R, d, i)
  BY DEF PhoneOK, ItemOK
<1> QED BY <1>1, <1>2 DEF PhoneOK

\* A run starts, or has pushed everything; the phone is locked or unlocked.
LEMMA RunSynced ==
  ASSUME IInv, Synced, NEW p \in Clients,
         StartSync(p) \/ PushDone(p) \/ Lock(p) \/ Unlock(p)
  PROVE  Synced'
<1> DEFINE c == phone[p]
<1>1. ASSUME NEW d, phone' = [phone EXCEPT ![p] = d], UNCHANGED <<world, told>>,
             d.rows = c.rows, d.pending = c.pending, d.conflicts = c.conflicts,
             d.cursor = c.cursor, d.backup = c.backup, d.left = c.left,
             d.pc \in {"idle", "push", "conflicts", "pull"},
             d.pc = "conflicts" => c.pc = "conflicts" /\ d.answered = c.answered
      PROVE  Synced'
  <2>1. /\ UNCHANGED <<store, told>> /\ clock' = clock /\ used' = used
        /\ used' \subseteq Items
    BY <1>1 DEF world, store, Synced, StoreInv
  <2>2. PhoneOK(feed, Receipts, clock', used', p, c) =>
          PhoneOK(feed, Receipts, clock', used', p, d)
    BY <1>1, SameTables
  <2> QED BY <1>1, <2>1, <2>2, UserStep
<1>2. c.pc \in {"idle", "push", "conflicts", "pull"}
  BY DEF Synced, PhoneOK
<1>3. CASE StartSync(p) \/ PushDone(p)
  <2> DEFINE Run(pc, taken) == [c EXCEPT !.pc = pc, !.taken = taken]
  <2>1. /\ \/ phone' = [phone EXCEPT ![p] = Run("push", {})]
           \/ phone' = [phone EXCEPT ![p] = Run("pull", c.taken)]
        /\ UNCHANGED <<world, told>>
    BY <1>3 DEF StartSync, PushDone, IInv, Shape, Fields
  <2>2. PICK pc \in {"push", "pull"}, taken \in {{}, c.taken} :
          phone' = [phone EXCEPT ![p] = Run(pc, taken)]
    BY <2>1
  <2> DEFINE d == Run(pc, taken)
  <2>3. /\ d.rows = c.rows /\ d.pending = c.pending /\ d.conflicts = c.conflicts
        /\ d.cursor = c.cursor /\ d.backup = c.backup /\ d.left = c.left /\ d.pc = pc
    BY DEF IInv, Shape, Fields
  <2> HIDE DEF d
  <2>4. phone' = [phone EXCEPT ![p] = d]
    BY <2>2 DEF d
  <2> QED BY <1>1, <2>1, <2>3, <2>4
<1>4. CASE Lock(p) \/ Unlock(p)
  <2> DEFINE Open(unlocked, taken) == [c EXCEPT !.unlocked = unlocked, !.taken = taken]
  <2>1. /\ \/ phone' = [phone EXCEPT ![p] = Open(FALSE, c.taken)]
           \/ phone' = [phone EXCEPT ![p] = Open(TRUE, {})]
        /\ UNCHANGED <<world, told>>
    BY <1>4 DEF Lock, Unlock, IInv, Shape, Fields
  <2>2. PICK unlocked \in BOOLEAN, taken \in {{}, c.taken} :
          phone' = [phone EXCEPT ![p] = Open(unlocked, taken)]
    BY <2>1
  <2> DEFINE d == Open(unlocked, taken)
  <2>3. /\ d.rows = c.rows /\ d.pending = c.pending /\ d.conflicts = c.conflicts
        /\ d.cursor = c.cursor /\ d.backup = c.backup /\ d.left = c.left
        /\ d.pc = c.pc /\ d.answered = c.answered
    BY DEF IInv, Shape, Fields
  <2> HIDE DEF d
  <2>4. phone' = [phone EXCEPT ![p] = d]
    BY <2>2 DEF d
  <2> QED BY <1>1, <1>2, <2>1, <2>3, <2>4
<1> QED BY <1>3, <1>4

\* A backup is made while no conflict is open, so that it is in step without one.
LEMMA CreateBackupSynced ==
  ASSUME IInv, Synced, NEW p \in Clients, CreateBackup(p)
  PROVE  Synced'
<1> DEFINE c == phone[p]
           b == [made |-> TRUE, rows |-> c.rows, pending |-> c.pending, cursor |-> c.cursor]
           d == [c EXCEPT !.backup = b]
<1>1. /\ phone' = [phone EXCEPT ![p] = d] /\ UNCHANGED <<store, told>> /\ clock' = clock
      /\ used' = used /\ used' \subseteq Items /\ c.pc = "idle"
      /\ \A i \in Items : c.conflicts[i].status # "UNRESOLVED"
  BY DEF CreateBackup, MayStart, InConflict, world, store, Synced, StoreInv
<1>2. /\ d.rows = c.rows /\ d.pending = c.pending /\ d.conflicts = c.conflicts
      /\ d.cursor = c.cursor /\ d.backup = b /\ d.left = c.left /\ d.pc = "idle"
  BY <1>1 DEF IInv, Shape, Fields
<1>3. b.rows = c.rows /\ b.pending = c.pending /\ b.cursor = c.cursor
  OBVIOUS
<1> HIDE DEF b, d
<1> SUFFICES ASSUME PhoneOK(feed, Receipts, clock', used', p, c)
             PROVE  PhoneOK(feed, Receipts, clock', used', p, d)
  BY <1>1, UserStep
<1>4. ASSUME NEW i \in Items \ d.left PROVE ItemOK(feed, Receipts, d, i)
  <2>1. /\ ConflictOK(feed, c.conflicts[i], i, c.left) /\ c.conflicts[i] \in ConflictType
        /\ InStep(feed, Receipts, i, c.rows[i], c.pending[i], c.conflicts[i], c.cursor)
    BY <1>2, EntryFacts
  <2>2. c.conflicts[i] = NoConflict
    BY <1>1, <1>2, <2>1 DEF ConflictOK, ConflictType
  <2> QED BY <1>2, <1>3, <2>1, <2>2 DEF ItemOK
<1> QED BY <1>2, <1>3, <1>4 DEF PhoneOK

\* A restored backup knows what was pulled before it was made, and its cursor
\* goes back to there.
LEMMA RestoreBackupSynced ==
  ASSUME IInv, Synced, NEW p \in Clients, RestoreBackup(p)
  PROVE  Synced'
<1> DEFINE c == phone[p]
           b == c.backup
           d == [c EXCEPT !.rows = b.rows, !.pending = b.pending, !.cursor = b.cursor,
                          !.unlocked = FALSE, !.conflicts = [i \in Items |-> NoConflict]]
<1>1. /\ phone' = [phone EXCEPT ![p] = d] /\ UNCHANGED <<store, told>>
      /\ clock < MaxEdits /\ clock' = clock + 1 /\ used' = used /\ used' \subseteq Items
      /\ c.pc = "idle" /\ b # NoBackup
  BY DEF RestoreBackup, MayStart, Synced, StoreInv
<1>2. /\ d.rows = b.rows /\ d.pending = b.pending /\ d.cursor = b.cursor
      /\ d.conflicts = [i \in Items |-> NoConflict]
      /\ d.backup = b /\ d.left = c.left /\ d.pc = "idle"
  BY <1>1 DEF IInv, Shape, Fields
<1> HIDE DEF d
<1> SUFFICES ASSUME PhoneOK(feed, Receipts, clock', used', p, c)
             PROVE  PhoneOK(feed, Receipts, clock', used', p, d)
  BY <1>1, UserStep
<1>3. NoConflict \in ConflictType /\ NoConflict.status = "none"
  BY DEF NoConflict, ConflictType
<1>4. /\ b.cursor \in 0..Len(feed) /\ b.rows \in [Items -> RowType]
      /\ b.pending \in [Items -> Pending]
      /\ \A i \in Items : EntryOK(feed, clock', used', p, i, b.rows[i], b.pending[i])
  BY <1>1 DEF PhoneOK
<1>5. ASSUME NEW i \in Items \ d.left PROVE ItemOK(feed, Receipts, d, i)
  <2>1. InStep(feed, Receipts, i, b.rows[i], b.pending[i], NoConflict, b.cursor)
    BY <1>1, <1>2 DEF PhoneOK, ItemOK
  <2> QED BY <1>2, <2>1 DEF ItemOK
<1>6. d.conflicts \in [Items -> ConflictType]
  BY <1>2, <1>3
<1>7. \A i \in Items : ConflictOK(feed, d.conflicts[i], i, d.left)
  BY <1>2, <1>3 DEF ConflictOK
<1> QED BY <1>2, <1>4, <1>5, <1>6, <1>7 DEF PhoneOK

----------------------------------------------------------------------------
(* The run.                                                                 *)

\* The conflicts that are saved are with what the server had, and cover all that
\* was pulled.
LEMMA SaveConflictsSynced ==
  ASSUME IInv, Synced, NEW p \in Clients, SaveConflicts(p)
  PROVE  Synced'
<1> DEFINE c == phone[p]
           told2(i) == Unresolved(c.answered[i].stamp, c.answered[i].rev)
           conflicts == [i \in Items |-> IF i \in DOMAIN c.answered THEN told2(i)
                                         ELSE c.conflicts[i]]
           d == [c EXCEPT !.conflicts = conflicts, !.answered = <<>>, !.pc = "push"]
<1>1. /\ phone' = [phone EXCEPT ![p] = d] /\ UNCHANGED <<store, told>> /\ clock' = clock
      /\ used' = used /\ used' \subseteq Items /\ c.pc = "conflicts" /\ StoreInv
  BY DEF SaveConflicts, world, store, Synced, StoreInv
<1>2. /\ d.rows = c.rows /\ d.pending = c.pending /\ d.cursor = c.cursor
      /\ d.conflicts = conflicts /\ d.backup = c.backup /\ d.left = c.left /\ d.pc = "push"
  BY DEF IInv, Shape, Fields
<1> HIDE DEF d
<1> SUFFICES ASSUME PhoneOK(feed, Receipts, clock', used', p, c)
             PROVE  PhoneOK(feed, Receipts, clock', used', p, d)
  BY <1>1, UserStep
<1>3. ASSUME NEW i \in DOMAIN c.answered
      PROVE  /\ i \in Items /\ told2(i) \in ConflictType /\ told2(i).status = "UNRESOLVED"
             /\ told2(i).rev = c.answered[i].rev /\ InFeed(feed, i, told2(i))
             /\ c.pending[i] # NoPending
  <2>1. /\ i \in Items /\ InFeed(feed, i, c.answered[i]) /\ c.pending[i] # NoPending
    BY <1>1 DEF PhoneOK, AnsweredOK
  <2>2. c.answered[i].rev \in Nat /\ c.answered[i].stamp \in Nat
    BY <1>1, <2>1, InFeedFacts
  <2>3. InFeed(feed, i, told2(i))
    BY <2>1 DEF InFeed, Unresolved
  <2> QED BY <2>1, <2>2, <2>3 DEF Unresolved, ConflictType
<1> HIDE DEF told2
<1>4. \A i \in Items : i \in DOMAIN c.answered => conflicts[i] = told2(i)
  OBVIOUS
<1>5. \A i \in Items : i \notin DOMAIN c.answered => conflicts[i] = c.conflicts[i]
  OBVIOUS
<1>6. conflicts \in [Items -> ConflictType]
  BY <1>3 DEF PhoneOK
<1> HIDE DEF conflicts
<1>7. ASSUME NEW i \in Items PROVE ConflictOK(feed, conflicts[i], i, c.left)
  <2>1. CASE i \in DOMAIN c.answered
    BY <1>3, <1>4, <2>1 DEF ConflictOK
  <2>2. CASE i \notin DOMAIN c.answered
    BY <1>5, <2>2 DEF PhoneOK
  <2> QED BY <2>1, <2>2
<1>8. ASSUME NEW i \in Items \ c.left PROVE ItemOK(feed, Receipts, d, i)
  <2>1. ItemOK(feed, Receipts, c, i) /\ c.cursor \in 0..Len(feed)
    BY DEF PhoneOK
  <2>2. InStep(feed, Receipts, i, c.rows[i], c.pending[i], conflicts[i], c.cursor)
    <3>1. CASE i \in DOMAIN c.answered
      <4>1. /\ conflicts[i].status = "UNRESOLVED" /\ c.pending[i] # NoPending
            /\ Covered(feed, i, conflicts[i].rev, c.cursor) /\ conflicts[i].rev \in Nat
        BY <1>1, <1>3, <1>4, <1>6, <2>1, <3>1 DEF ItemOK, ConflictType
      <4>2. \A k \in 1..c.cursor : feed[k].rev \in Nat
        BY <1>1, <2>1, FeedFacts
      <4> QED BY <4>1, <4>2 DEF InStep, Knows, Covered
    <3>2. CASE i \notin DOMAIN c.answered
      BY <1>5, <2>1, <3>2 DEF ItemOK
    <3> QED BY <3>1, <3>2
  <2> QED BY <1>2, <2>1, <2>2 DEF ItemOK
<1> QED BY <1>2, <1>6, <1>7, <1>8 DEF PhoneOK

----------------------------------------------------------------------------
(* A request and its answer.                                                *)

\* What a batch asks of the server is a request, of mutations that were queued.
LEMMA BatchIsRequest ==
  ASSUME IsFiniteSet(Items), Synced, NEW p \in Clients, NEW batch \in Batches(p)
  PROVE  /\ RequestOK(Operations(batch))
         /\ \A o \in Operations(batch) : o.item \in used /\ SentOK(feed, clock, o)
         /\ \A i \in DOMAIN batch :
              /\ i \in Items /\ batch[i] = phone[p].pending[i]
              /\ phone[p].pending[i] # NoPending /\ phone[p].conflicts[i].status # "UNRESOLVED"
<1> DEFINE c == phone[p]
           Op(i) == [mut |-> c.pending[i].mut, item |-> i, kind |-> c.pending[i].kind,
                     base |-> c.pending[i].base]
           D == DOMAIN batch
<1>1. ASSUME NEW i \in D
      PROVE  /\ i \in Items /\ batch[i] = c.pending[i]
             /\ c.pending[i] # NoPending /\ c.conflicts[i].status # "UNRESOLVED"
  BY DEF Batches, Eligible, InConflict
<1>2. \A o \in Operations(batch) : \E i \in D : o = Op(i)
  BY <1>1 DEF Operations
<1>3. ASSUME NEW i \in D
      PROVE  /\ OpOK(Op(i)) /\ Op(i).item = i /\ i \in used /\ SentOK(feed, clock, Op(i))
  <2> DEFINE q == c.pending[i]
  <2>1. QueuedOK(feed, clock, used, p, i, q)
    BY <1>1 DEF Synced, PhoneOK, EntryOK
  <2>2. /\ q \in [kind: {"upsert", "delete"}, stamp: Nat, base: Nat,
                  mut: Clients \X Nat \X Items \X Nat]
        /\ q.mut[1] = p /\ q.mut[2] < clock /\ q.mut[3] = i /\ q.mut[4] = q.stamp
        /\ q.kind = "upsert" <=> q.stamp # 0
        /\ q.kind = "delete" => q.base # 0
        /\ q.base # 0 => \E k \in 1..Len(feed) : feed[k].item = i /\ feed[k].rev = q.base
        /\ i \in used
    BY <1>1, <2>1 DEF QueuedOK
  <2> HIDE DEF q
  <2>3. /\ q.mut \in Authors \X Nat \X Items \X Nat /\ q.kind \in {"upsert", "delete"}
        /\ q.base \in Nat
    BY <2>2 DEF Authors
  <2> DEFINE o == [mut |-> q.mut, item |-> i, kind |-> q.kind, base |-> q.base]
  <2>4. o \in OpType /\ o.item = i /\ o.mut = q.mut /\ o.kind = q.kind /\ o.base = q.base
    BY <1>1, <2>3 DEF OpType
  <2> HIDE DEF o
  <2>5. OpOK(o) /\ SentOK(feed, clock, o)
    BY <2>2, <2>4 DEF OpOK, SentOK, Stamp
  <2> QED BY <2>2, <2>4, <2>5 DEF o, q
<1>4. IsFiniteSet(Operations(batch))
  <2> DEFINE op == [i \in D |-> Op(i)]
  <2>1. IsFiniteSet(D) /\ DOMAIN op = D
    BY <1>1, FS_Subset
  <2>2. Operations(batch) = {op[i] : i \in D}
    BY <1>1 DEF Operations
  <2> HIDE DEF op, D
  <2> QED BY <2>1, <2>2, FiniteImage
<1> HIDE DEF Op, D
<1>5. RequestOK(Operations(batch))
  BY <1>2, <1>3, <1>4 DEF RequestOK
<1>6. \A o \in Operations(batch) : o.item \in used /\ SentOK(feed, clock, o)
  BY <1>2, <1>3
<1> QED BY <1>1, <1>5, <1>6 DEF D

\* A run that ends leaves the tables as they are, and its request on its way.
LEMMA FailSynced ==
  ASSUME IsFiniteSet(Items), IInv, Synced, NEW p \in Clients, Fail(p)
  PROVE  Synced'
<1> DEFINE c == phone[p]
           d == [c EXCEPT !.pc = "idle", !.answered = <<>>]
<1>1. phone' = [phone EXCEPT ![p] = d] /\ UNCHANGED <<clock, used, told>>
  BY DEF Fail
<1>2. /\ d.rows = c.rows /\ d.pending = c.pending /\ d.conflicts = c.conflicts
      /\ d.cursor = c.cursor /\ d.backup = c.backup /\ d.left = c.left /\ d.pc = "idle"
  BY DEF IInv, Shape, Fields
<1> HIDE DEF d
<1>3. /\ StoreInv' /\ WorldOK'
      /\ WorldGrows(feed, feed', Receipts, Receipts', clock, clock', used, used')
  <2>1. CASE c.pc = "push" /\ Eligible(p) # {}
    <3>1. PICK batch \in Batches(p) : GiveUp(Operations(batch))
      BY <2>1 DEF Fail
    <3>2. /\ RequestOK(Operations(batch))
          /\ \A o \in Operations(batch) : o.item \in used /\ SentOK(feed, clock, o)
      BY BatchIsRequest
    <3>3. StoreInv /\ WorldOK
      BY DEF Synced
    <3> QED BY <1>1, <3>1, <3>2, <3>3, GiveUpMoves
  <2>2. CASE ~(c.pc = "push" /\ Eligible(p) # {})
    <3>1. UNCHANGED <<store, told>>
      BY <1>1, <2>2 DEF Fail
    <3>2. used \subseteq used' /\ used' \subseteq Items /\ StoreInv /\ WorldOK
      BY <1>1 DEF Synced, StoreInv
    <3> QED BY <1>1, <3>1, <3>2, UserMoves
  <2> QED BY <2>1, <2>2
<1>4. PhoneOK(feed', Receipts', clock', used', p, c)
  BY <1>3, PhoneStays DEF Synced
<1>5. PhoneOK(feed', Receipts', clock', used', p, d)
  BY <1>2, <1>4, SameTables
<1> QED BY <1>1, <1>3, <1>5, PhoneMoves

\* Rows and queue when the mutations of the items A are acknowledged.
AnsweredRows(c, A, rev) ==
  [i \in Items |->
     IF i \in A THEN IF c.pending[i].kind = "delete" THEN NoRow ELSE Row(c.rows[i].stamp, rev[i])
     ELSE c.rows[i]]
AnsweredQueue(c, A) == [i \in Items |-> IF i \in A THEN NoPending ELSE c.pending[i]]

\* The answers to the queued mutations of the items D: those of A were applied,
\* and the others are told what the server has.
AnswersOK(f, R, c, D, A, rev, remote) ==
  /\ D \subseteq Items /\ A \subseteq D /\ DOMAIN remote = D \ A
  /\ \A i \in D : c.pending[i] # NoPending /\ c.conflicts[i].status # "UNRESOLVED"
  /\ \A i \in A : /\ [mut |-> c.pending[i].mut, rev |-> rev[i]] \in R
                   /\ InFeed(f, i, [stamp |-> c.pending[i].stamp, rev |-> rev[i]])
                   /\ Agree(c.rows[i], c.pending[i])
  /\ \A i \in D \ A : /\ [mut |-> c.pending[i].mut, rev |-> remote[i].rev] \in R
                       /\ InFeed(f, i, remote[i])

\* What becomes of the phone c.
WithAnswers(d, c, A, rev, remote) ==
  /\ d.pc \in {"idle", "push", "conflicts", "pull"} /\ d.answered = remote
  /\ d.rows = AnsweredRows(c, A, rev) /\ d.pending = AnsweredQueue(c, A)
  /\ d.conflicts = c.conflicts /\ d.cursor = c.cursor /\ d.backup = c.backup
  /\ d.left = c.left

LEMMA AnswersArrive ==
  ASSUME NEW f, FeedOK(f), NEW R, NEW n, NEW U, NEW p, NEW c, PhoneOK(f, R, n, U, p, c),
         NEW D, NEW A, NEW rev, NEW remote, AnswersOK(f, R, c, D, A, rev, remote),
         NEW d, WithAnswers(d, c, A, rev, remote)
  PROVE  PhoneOK(f, R, n, U, p, d)
<1> USE DEF AnswersOK, WithAnswers
<1>1. c.cursor \in 0..Len(f) /\ c.rows \in [Items -> RowType] /\ c.pending \in [Items -> Pending]
  BY DEF PhoneOK
<1>2. ASSUME NEW i \in A
      PROVE  /\ d.rows[i] \in RowType /\ d.pending[i] = NoPending
             /\ EntryOK(f, n, U, p, i, d.rows[i], d.pending[i])
             /\ i \notin c.left =>
                  InStep(f, R, i, d.rows[i], d.pending[i], d.conflicts[i], d.cursor)
  <2> DEFINE q == c.pending[i]
             x == [stamp |-> q.stamp, rev |-> rev[i]]
  <2>1. i \in Items /\ QueuedOK(f, n, U, p, i, q) /\ q # NoPending /\ Agree(c.rows[i], q)
    BY DEF PhoneOK, EntryOK
  <2>2. q.kind \in {"upsert", "delete"} /\ (q.kind = "upsert" <=> q.stamp # 0)
    BY <2>1 DEF QueuedOK
  <2>3. d.rows[i] = RemoteRow(x) /\ d.pending[i] = NoPending
    <3>1. q.kind = "upsert" => c.rows[i].stamp = q.stamp
      BY <2>1 DEF Agree
    <3>2. d.rows[i] = IF q.kind = "delete" THEN NoRow ELSE Row(c.rows[i].stamp, rev[i])
      BY <2>1 DEF AnsweredRows
    <3>3. d.pending[i] = NoPending
      BY <2>1 DEF AnsweredQueue
    <3> QED BY <2>2, <3>1, <3>2, <3>3 DEF RemoteRow
  <2>4. InFeed(f, i, x) /\ x.rev = rev[i]
    OBVIOUS
  <2>5. i \notin c.left => Covered(f, i, x.rev, c.cursor)
    <3>1. i \notin c.left => Receivable(f, R, i, q, c.cursor)
      BY <2>1, EntryFacts DEF InStep
    <3>2. [mut |-> q.mut, rev |-> rev[i]] \in R
      OBVIOUS
    <3> QED BY <2>1, <2>4, <3>1, <3>2 DEF Receivable
  <2> HIDE DEF x
  <2>6. /\ RemoteRow(x) \in RowType /\ EntryOK(f, n, U, p, i, RemoteRow(x), NoPending)
        /\ i \notin c.left =>
             InStep(f, R, i, RemoteRow(x), NoPending, c.conflicts[i], c.cursor)
    BY <1>1, <2>4, <2>5, ServedEntry
  <2> QED BY <2>3, <2>6
<1>3. ASSUME NEW i \in Items, i \notin A
      PROVE  d.rows[i] = c.rows[i] /\ d.pending[i] = c.pending[i]
  BY <1>3 DEF AnsweredRows, AnsweredQueue
<1>4. ASSUME NEW i \in D \ A
      PROVE  i \notin c.left => Covered(f, i, remote[i].rev, c.cursor)
  <2>1. i \notin c.left => Receivable(f, R, i, c.pending[i], c.cursor)
    BY EntryFacts DEF InStep
  <2>2. [mut |-> c.pending[i].mut, rev |-> remote[i].rev] \in R /\ c.pending[i] # NoPending
    OBVIOUS
  <2> QED BY <2>1, <2>2 DEF Receivable
<1>5. NoPending \in Pending
  BY DEF NoPending, Pending
<1>6. d.rows \in [Items -> RowType]
  <2>1. \A i \in Items : d.rows[i] \in RowType
    BY <1>1, <1>2, <1>3
  <2> QED BY <2>1 DEF AnsweredRows
<1>7. d.pending \in [Items -> Pending]
  BY <1>1, <1>5 DEF AnsweredQueue
<1>8. \A i \in Items : EntryOK(f, n, U, p, i, d.rows[i], d.pending[i])
  BY <1>2, <1>3 DEF PhoneOK
<1>9. AnsweredOK(f, d)
  BY <1>3 DEF AnsweredOK
<1>10. ASSUME NEW i \in Items \ c.left PROVE ItemOK(f, R, d, i)
  <2>1. ItemOK(f, R, c, i)
    BY DEF PhoneOK
  <2>2. InStep(f, R, i, d.rows[i], d.pending[i], d.conflicts[i], d.cursor)
    BY <1>2, <1>3, <2>1 DEF ItemOK
  <2>3. i \in DOMAIN d.answered => Covered(f, i, d.answered[i].rev, d.cursor)
    BY <1>4
  <2> QED BY <2>1, <2>2, <2>3 DEF ItemOK
<1>11. /\ d.cursor \in 0..Len(f) /\ d.conflicts \in [Items -> ConflictType]
       /\ \A i \in Items : ConflictOK(f, d.conflicts[i], i, d.left)
       /\ d.backup # NoBackup =>
            /\ d.backup.cursor \in 0..Len(f)
            /\ d.backup.rows \in [Items -> RowType] /\ d.backup.pending \in [Items -> Pending]
            /\ \A i \in Items : EntryOK(f, n, U, p, i, d.backup.rows[i], d.backup.pending[i])
  BY DEF PhoneOK
<1>12. \A i \in Items \ d.left : ItemOK(f, R, d, i)
  BY <1>10
<1>13. d.pc \in {"idle", "push", "conflicts", "pull"}
  OBVIOUS
<1> QED BY ONLY <1>6, <1>7, <1>8, <1>9, <1>11, <1>12, <1>13 DEF PhoneOK

\* What the server says of a queued mutation is a receipt of it, and a version
\* the server had.
LEMMA AnswerFacts ==
  ASSUME StoreInv', WorldOK', NEW n, NEW U, NEW p, NEW i \in Items, NEW q,
         QueuedOK(feed', n, U, p, i, q), q # NoPending,
         NEW v \in verdict', v.op.mut = q.mut,
         NEW t, (\E y \in told' : y.mut = q.mut) => t \in told' /\ t.mut = q.mut
  PROVE  /\ v.status = "applied" =>
              /\ [mut |-> q.mut, rev |-> v.rev] \in Receipts'
              /\ InFeed(feed', i, [stamp |-> q.stamp, rev |-> v.rev])
         /\ v.status # "applied" =>
              /\ [mut |-> q.mut, rev |-> t.remote.rev] \in Receipts'
              /\ InFeed(feed', i, t.remote)
<1>1. v \in verdict' /\ v.op.mut = q.mut
  OBVIOUS
<1>2. /\ q.mut[3] = i /\ q.mut[4] = q.stamp /\ q.kind \in {"upsert", "delete"}
      /\ q.kind = "upsert" <=> q.stamp # 0
  BY DEF QueuedOK
<1>3. ASSUME v.status = "applied"
      PROVE  /\ [mut |-> q.mut, rev |-> v.rev] \in Receipts'
             /\ InFeed(feed', i, [stamp |-> q.stamp, rev |-> v.rev])
  <2>1. [mut |-> q.mut, rev |-> v.rev] \in Receipts'
    BY <1>1, <1>3 DEF Receipts
  <2>2. /\ OpOK(v.op) /\ \E k \in 1..Len(feed') : feed'[k] = ChangeOf(v.op, v.rev)
    BY <1>1, <1>3 DEF StoreInv, VerdictsStand
  <2>3. /\ v.op.item = i /\ Stamp(v.op) = q.stamp
        /\ v.op.kind = IF q.stamp = 0 THEN "delete" ELSE "upsert"
    BY <1>1, <1>2, <2>2 DEF OpOK, OpType, Stamp
  <2>4. ChangeOf(v.op, v.rev) = [item |-> i, kind |-> IF q.stamp = 0 THEN "delete" ELSE "upsert",
                                 rev |-> v.rev, stamp |-> q.stamp]
    BY <2>3 DEF ChangeOf
  <2> QED BY <2>1, <2>2, <2>4 DEF InFeed
<1>4. ASSUME v.status # "applied"
      PROVE  /\ [mut |-> q.mut, rev |-> t.remote.rev] \in Receipts'
             /\ InFeed(feed', i, t.remote)
  <2>1. v.status = "conflict"
    BY <1>1, <1>4 DEF StoreInv, VerdictsStand
  <2>2. \E y \in told' : y.mut = q.mut
    BY <1>1, <2>1 DEF WorldOK
  <2>3. t \in told' /\ t.mut = q.mut
    BY <2>2
  <2>4. InFeed(feed', i, t.remote)
    BY <1>2, <2>3 DEF WorldOK
  <2>5. [mut |-> q.mut, rev |-> t.remote.rev] \in Receipts'
    BY <2>3 DEF Receipts
  <2> QED BY <2>4, <2>5
<1> QED BY <1>3, <1>4

\* A batch is answered: what was applied is synced, and the rest is told.
LEMMA PushSynced ==
  ASSUME IsFiniteSet(Items), IInv, Synced, NEW p \in Clients, Push(p)
  PROVE  Synced'
<1>0. PICK batch \in Batches(p) : PushBatch(p, batch)
  BY DEF Push
<1> DEFINE c == phone[p]
           D == DOMAIN batch
           answer(i) == CHOOSE v \in verdict' : v.op.mut = c.pending[i].mut
           A == {i \in D : answer(i).status = "applied"}
           toldOf(i) == (CHOOSE t \in told' : t.mut = c.pending[i].mut).remote
           rev == [i \in A |-> answer(i).rev]
           remote == [i \in D \ A |-> toldOf(i)]
           d == [Acknowledged(c, rev) EXCEPT
                   !.answered = remote, !.pc = IF A = D THEN "push" ELSE "conflicts"]
<1>1. /\ \A i \in D : /\ i \in Items /\ batch[i] = c.pending[i]
                      /\ c.pending[i] # NoPending /\ c.conflicts[i].status # "UNRESOLVED"
      /\ RequestOK(Operations(batch))
      /\ \A o \in Operations(batch) : o.item \in used /\ SentOK(feed, clock, o)
  BY BatchIsRequest
<1>2. /\ ServePhone(Operations(batch)) /\ UNCHANGED <<clock, used>>
      /\ phone' = [phone EXCEPT ![p] = d]
  <2>1. \A i \in D : /\ Verdict(verdict', batch, i) = answer(i)
                     /\ (CHOOSE t \in told' : t.mut = batch[i].mut).remote = toldOf(i)
    BY <1>1 DEF Verdict
  <2>2. {i \in D : Verdict(verdict', batch, i).status = "applied"} = A
    BY <2>1
  <2>3. [i \in A |-> Verdict(verdict', batch, i).rev] = rev
    BY <2>1
  <2>4. [i \in D \ A |-> (CHOOSE t \in told' : t.mut = batch[i].mut).remote] = remote
    BY <2>1
  <2> HIDE DEF answer, toldOf, A, rev, remote
  <2>5. phone' = [phone EXCEPT ![p] =
           [Acknowledged(c, rev) EXCEPT
             !.answered = remote, !.pc = IF A = D THEN "push" ELSE "conflicts"]]
    BY <1>0, <2>2, <2>3, <2>4 DEF PushBatch
  <2> QED BY <1>0, <2>5 DEF PushBatch
<1>3. /\ StoreInv' /\ WorldOK'
      /\ WorldGrows(feed, feed', Receipts, Receipts', clock, clock', used, used')
      /\ \A o \in Operations(batch) : \E v \in verdict' : v.op.mut = o.mut
  BY <1>1, <1>2, ServeMoves DEF Synced
<1>4. PhoneOK(feed', Receipts', clock', used', p, c)
  BY <1>3, PhoneStays DEF Synced
<1>5. ASSUME NEW i \in D
      PROVE  /\ i \in A =>
                  /\ [mut |-> c.pending[i].mut, rev |-> rev[i]] \in Receipts'
                  /\ InFeed(feed', i, [stamp |-> c.pending[i].stamp, rev |-> rev[i]])
             /\ i \notin A =>
                  /\ [mut |-> c.pending[i].mut, rev |-> remote[i].rev] \in Receipts'
                  /\ InFeed(feed', i, remote[i])
  <2> DEFINE q == c.pending[i]
  <2>1. i \in Items /\ q # NoPending /\ QueuedOK(feed', clock', used', p, i, q)
    BY <1>1, <1>4 DEF PhoneOK, EntryOK
  <2>2. \E v \in verdict' : v.op.mut = q.mut
    <3> DEFINE o == [mut |-> batch[i].mut, item |-> i, kind |-> batch[i].kind,
                     base |-> batch[i].base]
    <3>1. o \in Operations(batch) /\ o.mut = q.mut
      BY <1>1 DEF Operations
    <3> HIDE DEF o
    <3> QED BY <1>3, <3>1
  <2>3. /\ answer(i).status = "applied" =>
             /\ [mut |-> q.mut, rev |-> answer(i).rev] \in Receipts'
             /\ InFeed(feed', i, [stamp |-> q.stamp, rev |-> answer(i).rev])
        /\ answer(i).status # "applied" =>
             /\ [mut |-> q.mut, rev |-> toldOf(i).rev] \in Receipts'
             /\ InFeed(feed', i, toldOf(i))
    <3> DEFINE v == CHOOSE v \in verdict' : v.op.mut = q.mut
               t == CHOOSE t \in told' : t.mut = q.mut
    <3>1. v \in verdict' /\ v.op.mut = q.mut
      BY <2>2
    <3>2. (\E y \in told' : y.mut = q.mut) => t \in told' /\ t.mut = q.mut
      OBVIOUS
    <3>3. answer(i) = v /\ toldOf(i) = t.remote
      OBVIOUS
    <3> HIDE DEF v, t, q, answer, toldOf
    <3>4. /\ v.status = "applied" =>
               /\ [mut |-> q.mut, rev |-> v.rev] \in Receipts'
               /\ InFeed(feed', i, [stamp |-> q.stamp, rev |-> v.rev])
          /\ v.status # "applied" =>
               /\ [mut |-> q.mut, rev |-> t.remote.rev] \in Receipts'
               /\ InFeed(feed', i, t.remote)
      BY ONLY <1>3, <2>1, <3>1, <3>2, AnswerFacts
    <3> QED BY <3>3, <3>4
  <2> HIDE DEF answer, toldOf, q
  <2>4. i \in A => answer(i).status = "applied" /\ rev[i] = answer(i).rev
    OBVIOUS
  <2>5. i \notin A => answer(i).status # "applied" /\ remote[i] = toldOf(i)
    OBVIOUS
  <2> QED BY <2>3, <2>4, <2>5 DEF q
<1>6. DOMAIN rev = A /\ DOMAIN remote = D \ A /\ A \subseteq D /\ D \subseteq Items
  BY <1>1
<1> HIDE DEF rev, remote, A, D
<1>7. WithAnswers(d, c, A, rev, remote)
  <2> DEFINE e == Acknowledged(c, rev)
  <2>1. /\ DOMAIN e = Fields
        /\ e.rows = AnsweredRows(c, A, rev) /\ e.pending = AnsweredQueue(c, A)
        /\ e.conflicts = c.conflicts /\ e.cursor = c.cursor /\ e.backup = c.backup
        /\ e.left = c.left
    BY <1>6 DEF Acknowledged, AnsweredRows, AnsweredQueue, IInv, Shape, Fields
  <2> HIDE DEF e
  <2> QED BY <2>1 DEF WithAnswers, Fields, e
<1> HIDE DEF d
<1>8. \A i \in D : /\ c.pending[i] # NoPending /\ c.conflicts[i].status # "UNRESOLVED"
                   /\ Agree(c.rows[i], c.pending[i])
  BY <1>1 DEF D, IInv, QueueMatchesRows
<1>9. FeedOK(feed')
  BY <1>3, FeedIsOK
<1>10. PhoneOK(feed', Receipts', clock', used', p, d)
  <2> HIDE DEF c
  <2>1. AnswersOK(feed', Receipts', c, D, A, rev, remote)
    BY <1>5, <1>6, <1>8 DEF AnswersOK
  <2> QED BY ONLY <1>4, <1>7, <1>9, <2>1, AnswersArrive
<1> QED BY <1>2, <1>3, <1>10, PhoneMoves

\* A page is the part of the feed behind the cursor, and has a last change of
\* every item in it.
LEMMA PageFacts ==
  ASSUME StoreInv, NEW p \in Clients, phone[p].cursor \in 0..Len(feed)
  PROVE  LET e == PageEnd(feed, phone[p].cursor)
         IN  /\ e \in phone[p].cursor..Len(feed)
             /\ \A x \in LastChanges(p) : \E k \in phone[p].cursor + 1..e :
                  /\ x = feed[k]
                  /\ \A l \in phone[p].cursor + 1..e : feed[l].item = feed[k].item => l <= k
             /\ \A k \in phone[p].cursor + 1..e : \E x \in LastChanges(p) : x.item = feed[k].item
<1> DEFINE cursor == phone[p].cursor
           e == PageEnd(feed, cursor)
           page == Page(feed, cursor)
           last == {k \in DOMAIN page :
                      \A l \in DOMAIN page : page[l].item = page[k].item => l <= k}
<1>1. Len(feed) \in Nat /\ cursor \in Nat /\ cursor <= Len(feed) /\ feed \in Seq(ChangeType)
  BY DEF StoreInv, FeedInOrder
<1>2. e \in cursor..Len(feed)
  BY PageIsPart DEF e, page
<1>3. DOMAIN page = 1..e - cursor /\ \A k \in 1..e - cursor : page[k] = feed[cursor + k]
  BY PageIsPart DEF e, page
<1> HIDE DEF e, cursor
<1> HIDE DEF page
<1>4. LastChanges(p) = {page[k] : k \in last}
  BY DEF LastChanges, page, cursor
<1>5. ASSUME NEW x \in LastChanges(p)
      PROVE  \E k \in cursor + 1..e :
               /\ x = feed[k]
               /\ \A l \in cursor + 1..e : feed[l].item = feed[k].item => l <= k
  <2>1. PICK k \in last : x = page[k]
    BY <1>4
  <2>2. k \in 1..e - cursor /\ x = feed[cursor + k] /\ cursor + k \in cursor + 1..e
    BY <1>1, <1>2, <1>3, <2>1
  <2>3. ASSUME NEW l \in cursor + 1..e, feed[l].item = feed[cursor + k].item
        PROVE  l <= cursor + k
    <3>1. l - cursor \in 1..e - cursor /\ cursor + (l - cursor) = l
      BY <1>1, <1>2
    <3>2. page[l - cursor].item = page[k].item
      BY <1>3, <2>2, <2>3, <3>1
    <3>3. l - cursor <= k
      BY <1>3, <2>1, <3>1, <3>2
    <3> QED BY <1>1, <1>2, <2>2, <3>3
  <2> QED BY <2>2, <2>3
<1>6. ASSUME NEW k \in cursor + 1..e
      PROVE  \E x \in LastChanges(p) : x.item = feed[k].item
  <2> DEFINE T == {l \in 1..e - cursor : page[l].item = feed[k].item}
  <2>1. k - cursor \in T
    BY <1>1, <1>2, <1>3
  <2>2. e - cursor \in Nat /\ T \in SUBSET Nat /\ T # {} /\ \A l \in T : l <= e - cursor
    BY <1>1, <1>2, <2>1
  <2>3. PICK m \in T : \A l \in T : l <= m
    <3> HIDE DEF T
    <3> DEFINE N == e - cursor
    <3>1. N \in Nat /\ \A l \in T : l <= N
      BY <2>2
    <3> HIDE DEF N
    <3> QED BY ONLY <2>2, <3>1, MaximumExists
  <2>4. m \in last
    BY <1>3, <2>3
  <2> QED BY <1>4, <2>3, <2>4
<1> QED BY <1>2, <1>5, <1>6 DEF e, cursor

\* A page is applied: what was not queued is what the server has, and what was
\* queued is in conflict with it.
LEMMA PullSynced ==
  ASSUME IInv, Synced, NEW p \in Clients, Pull(p)
  PROVE  Synced'
<1> DEFINE c == phone[p]
           e == PageEnd(feed, c.cursor)
           changes == LastChanges(p)
           C == {i \in Items : \E x \in changes : x.item = i}
           change(i) == CHOOSE x \in changes : x.item = i
           x(i) == [stamp |-> change(i).stamp, rev |-> change(i).rev]
           rows == [i \in Items |-> IF i \in C THEN PulledRow(c, change(i)) ELSE c.rows[i]]
           conflicts == [i \in Items |->
             IF i \in C /\ c.pending[i] # NoPending
             THEN Unresolved(change(i).stamp, change(i).rev) ELSE c.conflicts[i]]
           pc == IF HasMore(feed, c.cursor) THEN "pull" ELSE "idle"
           taken == c.taken \cup {i \in Items : /\ Visible(c.rows[i])
                                               /\ \E y \in changes : y.item = i
                                               /\ PulledRow(c, change(i)) = NoRow}
           d == [c EXCEPT !.rows = rows, !.conflicts = conflicts, !.cursor = e,
                          !.taken = taken, !.pc = pc]
<1>1. /\ phone' = [phone EXCEPT ![p] = d] /\ UNCHANGED <<store, told>> /\ clock' = clock
      /\ used' = used /\ used' \subseteq Items /\ StoreInv
  <2>1. AfterPull(c, changes) = d
    <3>1. \A i \in Items : i \in C <=> \E y \in changes : y.item = i
      OBVIOUS
    <3>2. rows = [i \in Items |-> IF \E y \in changes : y.item = i
                                  THEN PulledRow(c, change(i)) ELSE c.rows[i]]
      BY <3>1
    <3>3. conflicts = [i \in Items |->
             IF (\E y \in changes : y.item = i) /\ c.pending[i] # NoPending
             THEN Unresolved(change(i).stamp, change(i).rev) ELSE c.conflicts[i]]
      BY <3>1
    <3> HIDE DEF changes, rows, conflicts
    <3> QED BY <3>2, <3>3 DEF AfterPull
  <2> HIDE DEF d
  <2> QED BY <2>1 DEF Pull, world, store, Synced, StoreInv
<1>2. /\ d.rows = rows /\ d.conflicts = conflicts /\ d.cursor = e /\ d.pending = c.pending
      /\ d.backup = c.backup /\ d.left = c.left /\ d.pc \in {"idle", "pull"}
  <2> HIDE DEF rows, conflicts, e, taken
  <2> QED BY DEF IInv, Shape, Fields
<1> HIDE DEF d
<1> SUFFICES ASSUME PhoneOK(feed, Receipts, clock', used', p, c)
             PROVE  PhoneOK(feed, Receipts, clock', used', p, d)
  BY <1>1, UserStep
<1>3. c.cursor \in 0..Len(feed) /\ c.rows \in [Items -> RowType] /\ c.pending \in [Items -> Pending]
  BY DEF PhoneOK
<1>4. /\ e \in c.cursor..Len(feed)
      /\ \A y \in changes : \E k \in c.cursor + 1..e :
           y = feed[k] /\ \A l \in c.cursor + 1..e : feed[l].item = feed[k].item => l <= k
      /\ \A k \in c.cursor + 1..e : \E y \in changes : y.item = feed[k].item
  BY <1>1, <1>3, PageFacts
<1>5. Len(feed) \in Nat /\ FeedOK(feed) /\ e \in 0..Len(feed)
  BY <1>1, <1>3, <1>4, FeedIsOK DEF FeedOK
<1> HIDE DEF e, changes
<1>6. ASSUME NEW i \in C
      PROVE  /\ InFeed(feed, i, x(i)) /\ Covered(feed, i, x(i).rev, e)
             /\ change(i).item = i
             /\ change(i).kind \in {"upsert", "delete"} /\ (change(i).kind = "upsert" <=> x(i).stamp # 0)
  <2>1. change(i) \in changes /\ change(i).item = i
    OBVIOUS
  <2>2. PICK k \in c.cursor + 1..e :
          change(i) = feed[k] /\ \A l \in c.cursor + 1..e : feed[l].item = feed[k].item => l <= k
    <3> HIDE DEF change
    <3> QED BY ONLY <1>4, <2>1
  <2> HIDE DEF change
  <2>3. k \in 1..Len(feed) /\ feed[k] \in ChangeType /\ (feed[k].kind = "upsert" <=> feed[k].stamp # 0)
    <3>1. k \in 1..Len(feed)
      BY ONLY k \in c.cursor + 1..e, <1>3, <1>4, <1>5
    <3>2. \A l \in 1..Len(feed) :
            feed[l] \in ChangeType /\ (feed[l].kind = "upsert" <=> feed[l].stamp # 0)
      <4>1. FeedInOrder
        BY <1>1 DEF StoreInv
      <4> QED BY ONLY <4>1 DEF FeedInOrder
    <3> QED BY ONLY <3>1, <3>2
  <2>4. feed[k] = [item |-> i, kind |-> IF x(i).stamp = 0 THEN "delete" ELSE "upsert",
                   rev |-> x(i).rev, stamp |-> x(i).stamp]
    BY <2>1, <2>2, <2>3 DEF ChangeType
  <2>5. Covered(feed, i, x(i).rev, e)
    <3> SUFFICES ASSUME NEW l \in 1..e, feed[l].item = i PROVE feed[l].rev <= feed[k].rev
      BY <2>2 DEF Covered
    <3>1. feed[k].item = i /\ c.cursor \in Nat /\ e \in Nat /\ e <= Len(feed) /\ l \in Nat
      BY <1>3, <1>4, <1>5, <2>1, <2>2
    <3>2. l \in c.cursor + 1..e => l <= k
      BY <2>2, <3>1
    <3>3. l \in 1..Len(feed) /\ (l < k \/ l = k)
      BY <1>5, <3>1, <3>2
    <3>4. feed[k].rev \in Nat
      BY <1>5, <2>3 DEF FeedOK
    <3>5. l < k => feed[l].rev <= feed[k].rev
      BY <1>1, <2>3, <3>3 DEF StoreInv, FeedInOrder
    <3> QED BY <3>3, <3>4, <3>5
  <2> QED BY <2>1, <2>2, <2>3, <2>4, <2>5 DEF InFeed, ChangeType
<1>7. ASSUME NEW i \in Items, i \notin C
      PROVE  \A k \in 1..e : feed[k].item = i => k \in 1..c.cursor
  BY <1>3, <1>4, <1>7
<1>8. \A i \in Items : i \in C /\ c.pending[i] # NoPending =>
        conflicts[i] = Unresolved(x(i).stamp, x(i).rev)
  OBVIOUS
<1>9. \A i \in Items : ~(i \in C /\ c.pending[i] # NoPending) => conflicts[i] = c.conflicts[i]
  OBVIOUS
<1>10. ASSUME NEW i \in Items, i \in C, c.pending[i] = NoPending
       PROVE  rows[i] = RemoteRow(x(i))
  BY <1>6, <1>10 DEF PulledRow, RemoteRow
<1>11. ASSUME NEW i \in Items, ~(i \in C /\ c.pending[i] = NoPending)
       PROVE  rows[i] = c.rows[i]
  BY <1>6, <1>11 DEF PulledRow
<1>12. ASSUME NEW i \in C
       PROVE  /\ Unresolved(x(i).stamp, x(i).rev) \in ConflictType
              /\ InFeed(feed, i, Unresolved(x(i).stamp, x(i).rev))
              /\ x(i).rev \in Nat
  <2>1. InFeed(feed, i, x(i))
    BY <1>6
  <2> HIDE DEF x
  <2>2. x(i).rev \in Nat /\ x(i).stamp \in Nat
    BY <1>5, <2>1, HadRevision
  <2> QED BY <2>1, <2>2 DEF InFeed, Unresolved, ConflictType
<1> HIDE DEF C, change, x, rows, conflicts
<1>13. ASSUME NEW i \in Items
       PROVE  /\ rows[i] \in RowType
              /\ EntryOK(feed, clock', used', p, i, rows[i], c.pending[i])
  <2>1. CASE i \in C /\ c.pending[i] = NoPending
    <3>1. InFeed(feed, i, x(i))
      BY <1>6, <2>1
    <3>2. /\ RemoteRow(x(i)) \in RowType
          /\ EntryOK(feed, clock', used', p, i, RemoteRow(x(i)), NoPending)
      BY <1>5, <3>1, ServedEntry
    <3> QED BY <1>10, <2>1, <3>2
  <2>2. CASE ~(i \in C /\ c.pending[i] = NoPending)
    BY <1>11, <2>2, EntryFacts
  <2> QED BY <2>1, <2>2
<1>14. ASSUME NEW i \in Items
       PROVE  /\ conflicts[i] \in ConflictType /\ ConflictOK(feed, conflicts[i], i, c.left)
  <2>1. CASE i \in C /\ c.pending[i] # NoPending
    <3>1. Unresolved(x(i).stamp, x(i).rev).status = "UNRESOLVED"
      BY DEF Unresolved
    <3> QED BY <1>8, <1>12, <2>1, <3>1 DEF ConflictOK
  <2>2. CASE ~(i \in C /\ c.pending[i] # NoPending)
    BY <1>9, <2>2, EntryFacts
  <2> QED BY <2>1, <2>2
<1>15. ASSUME NEW i \in Items \ c.left
       PROVE  InStep(feed, Receipts, i, rows[i], c.pending[i], conflicts[i], e)
  <2>1. InStep(feed, Receipts, i, c.rows[i], c.pending[i], c.conflicts[i], c.cursor)
    BY EntryFacts
  <2>2. CASE i \in C /\ c.pending[i] = NoPending
    <3>1. InFeed(feed, i, x(i)) /\ Covered(feed, i, x(i).rev, e)
      BY <1>6, <2>2
    <3>2. c.conflicts[i].status # "UNRESOLVED"
      BY <2>1, <2>2 DEF InStep
    <3>3. InStep(feed, Receipts, i, RemoteRow(x(i)), NoPending, c.conflicts[i], e)
      BY <1>5, <3>1, <3>2, ServedEntry
    <3> QED BY <1>9, <1>10, <2>2, <3>3
  <2>3. CASE i \in C /\ c.pending[i] # NoPending
    <3>1. Covered(feed, i, x(i).rev, e) /\ x(i).rev \in Nat
      BY <1>6, <1>12, <2>3
    <3>2. conflicts[i].status = "UNRESOLVED" /\ conflicts[i].rev = x(i).rev
      <4>1. conflicts[i] = Unresolved(x(i).stamp, x(i).rev)
        BY <1>8, <2>3
      <4> QED BY ONLY <4>1 DEF Unresolved
    <3>3. \A k \in 1..e : feed[k].rev \in Nat
      BY <1>5 DEF FeedOK
    <3> QED BY <2>3, <3>1, <3>2, <3>3 DEF InStep, Knows, Covered
  <2>4. CASE i \notin C
    <3>1. rows[i] = c.rows[i] /\ conflicts[i] = c.conflicts[i]
      BY <1>9, <1>11, <2>4
    <3>2. \A k \in 1..e : feed[k].item = i => k \in 1..c.cursor
      BY <1>7, <2>4
    <3>3. Knows(feed, i, c.rows[i], c.pending[i], c.conflicts[i].rev, e)
      BY <2>1, <3>2 DEF InStep, Knows
    <3>4. \A rev : Covered(feed, i, rev, c.cursor) => Covered(feed, i, rev, e)
      BY <3>2 DEF Covered
    <3>5. Receivable(feed, Receipts, i, c.pending[i], c.cursor) =>
            Receivable(feed, Receipts, i, c.pending[i], e)
      BY <3>4 DEF Receivable
    <3> QED BY <2>1, <3>1, <3>3, <3>4, <3>5 DEF InStep
  <2> QED BY <2>2, <2>3, <2>4
<1>16. ASSUME NEW i \in Items \ d.left PROVE ItemOK(feed, Receipts, d, i)
  <2>1. ItemOK(feed, Receipts, c, i)
    BY <1>2 DEF PhoneOK
  <2> QED BY <1>2, <1>15, <2>1 DEF ItemOK
<1>17. rows \in [Items -> RowType] /\ conflicts \in [Items -> ConflictType]
  <2>1. DOMAIN rows = Items /\ DOMAIN conflicts = Items
    BY DEF rows, conflicts
  <2>2. rows = [i \in Items |-> rows[i]] /\ conflicts = [i \in Items |-> conflicts[i]]
    BY DEF rows, conflicts
  <2> QED BY <1>13, <1>14, <2>2
<1>18. /\ \A i \in Items : EntryOK(feed, clock', used', p, i, d.rows[i], d.pending[i])
       /\ \A i \in Items : ConflictOK(feed, d.conflicts[i], i, d.left)
       /\ d.rows \in [Items -> RowType] /\ d.pending \in [Items -> Pending]
       /\ d.conflicts \in [Items -> ConflictType] /\ d.cursor \in 0..Len(feed)
  BY <1>2, <1>3, <1>5, <1>13, <1>14, <1>17
<1> QED BY <1>2, <1>16, <1>18 DEF PhoneOK

----------------------------------------------------------------------------
(* The invariant, and what follows from it.                                 *)

LEMMA InitSynced == Init => Synced
<1> SUFFICES ASSUME Init PROVE Synced
  OBVIOUS
<1>1. StoreInv
  BY InitStore DEF Init
<1>2. /\ feed = <<>> /\ clock = 0 /\ used = {} /\ late = {} /\ verdict = {} /\ told = {}
  BY DEF Init, StoreInit, Store!Init
<1>3. WorldOK
  BY <1>2, ClientAssumption DEF WorldOK
<1>4. ASSUME NEW p \in Clients PROVE PhoneOK(feed, Receipts, clock, used, p, phone[p])
  <2> DEFINE c == phone[p]
  <2>1. /\ c.pc = "idle" /\ c.rows = [i \in Items |-> NoRow]
        /\ c.pending = [i \in Items |-> NoPending]
        /\ c.conflicts = [i \in Items |-> NoConflict]
        /\ c.cursor = 0 /\ c.backup = NoBackup /\ Len(feed) = 0
    BY <1>2 DEF Init
  <2>2. /\ NoRow \in RowType /\ NoPending \in Pending /\ NoConflict \in ConflictType
        /\ NoConflict.status = "none"
    BY DEF NoRow, RowType, NoPending, Pending, NoConflict, ConflictType
  <2> HIDE DEF c
  <2>3. \A i \in Items : EntryOK(feed, clock, used, p, i, c.rows[i], c.pending[i])
    BY <2>1 DEF EntryOK, QueuedOK
  <2>4. \A i \in Items : ConflictOK(feed, c.conflicts[i], i, c.left)
    BY <2>1, <2>2 DEF ConflictOK
  <2>5. \A i \in Items : ItemOK(feed, Receipts, c, i)
    BY <2>1, <2>2 DEF ItemOK, InStep, Knows, Receivable
  <2> QED BY <2>1, <2>2, <2>3, <2>4, <2>5 DEF PhoneOK, c
<1> QED BY <1>1, <1>3, <1>4 DEF Synced

LEMMA NextSynced ==
  ASSUME IsFiniteSet(Items), IInv, Synced, [Next]_vars PROVE Synced'
<1>1. CASE Elsewhere
  <2>1. /\ StoreInv' /\ WorldOK' /\ phone' = phone
        /\ WorldGrows(feed, feed', Receipts, Receipts', clock, clock', used, used')
    BY <1>1, ElsewhereMoves DEF Synced
  <2>2. \A p \in Clients : PhoneOK(feed', Receipts', clock', used', p, phone[p])
    BY <2>1, PhoneStays DEF Synced
  <2> QED BY <2>1, <2>2 DEF Synced
<1>2. ASSUME NEW p \in Clients, PhoneNext(p) PROVE Synced'
  <2>1. CASE \/ StartSync(p) \/ Push(p) \/ SaveConflicts(p) \/ PushDone(p) \/ Pull(p)
             \/ Fail(p) \/ Lock(p) \/ Unlock(p)
    BY <2>1, RunSynced, PushSynced, SaveConflictsSynced, PullSynced, FailSynced
  <2>2. CASE CreateBackup(p) \/ RestoreBackup(p)
    BY <2>2, CreateBackupSynced, RestoreBackupSynced
  <2>3. ASSUME NEW S \in SUBSET Items \ {{}}, ImportItems(p, S) PROVE Synced'
    BY <2>3, ImportItemsSynced
  <2>4. ASSUME NEW i \in Items,
               \/ SaveItem(p, i) \/ DeleteItem(p, i)
               \/ KeepLocal(p, i) \/ AcceptRemote(p, i) \/ Skip(p, i)
               \/ \E j \in Items : CreateCopy(p, i, j)
        PROVE  Synced'
    BY <2>4, SaveItemSynced, DeleteItemSynced, KeepLocalSynced, AcceptRemoteSynced,
       SkipSynced, CreateCopySynced
  <2> QED BY <1>2, <2>1, <2>2, <2>3, <2>4 DEF PhoneNext
<1>3. CASE UNCHANGED vars
  <2>1. /\ UNCHANGED <<store, told>> /\ clock' = clock /\ used' = used /\ phone' = phone
    BY <1>3 DEF vars, world, store
  <2>2. StoreInv /\ WorldOK /\ used' \subseteq Items /\ used \subseteq used'
    BY <2>1 DEF Synced, StoreInv
  <2>3. /\ StoreInv' /\ WorldOK'
        /\ WorldGrows(feed, feed', Receipts, Receipts', clock, clock', used, used')
    BY <2>1, <2>2, UserMoves
  <2>4. \A p \in Clients : PhoneOK(feed', Receipts', clock', used', p, phone[p])
    BY <2>3, PhoneStays DEF Synced
  <2> QED BY <2>1, <2>3, <2>4 DEF Synced
<1> QED BY <1>1, <1>2, <1>3 DEF Next

\* Every state of the specification satisfies the invariant.
THEOREM PhonesStaySynced ==
  ASSUME IsFiniteSet(Items) PROVE Spec => [](IInv /\ Synced)
<1>1. Init => IInv /\ Synced
  BY InitHolds, InitSynced
<1>2. IInv /\ Synced /\ [Next]_vars => (IInv /\ Synced)'
  BY NextKeeps, NextSynced
<1> QED BY <1>1, <1>2, PTL DEF Spec

\* The state of every phone and of the server is of its type, for any finite set
\* of items.
THEOREM StateIsTyped ==
  ASSUME IsFiniteSet(Items) PROVE Spec => []TypeOK
<1>1. IInv /\ Synced => TypeOK
  <2> SUFFICES ASSUME Synced PROVE TypeOK
    OBVIOUS
  <2>1. StoreTypeOK
    <3>1. /\ revision \in Nat /\ clock \in 0..MaxEdits /\ used \subseteq Items
      BY ClientAssumption DEF Synced, StoreInv, WorldOK
    <3>2. ASSUME NEW k \in DOMAIN feed PROVE feed[k].item \in Items /\ feed[k].rev \in 1..revision
      <4>1. k \in 1..Len(feed) /\ feed[k] \in ChangeType /\ feed[k].rev <= revision
        BY DEF Synced, StoreInv, FeedInOrder
      <4> QED BY <3>1, <4>1 DEF ChangeType
    <3> QED BY <3>1, <3>2 DEF StoreTypeOK
  <2> QED BY <2>1 DEF Synced, PhoneOK, TypeOK
<1> QED BY <1>1, PhonesStaySynced, PTL

\* What a phone takes for synced is what the server stored: whatever was lost,
\* repeated, refused, resolved or restored, a row with nothing queued has the
\* version and the revision of one change.
THEOREM SyncedRowsAreServed ==
  ASSUME IsFiniteSet(Items) PROVE Spec => []RowsAreServed
<1>1. Synced => RowsAreServed
  <2> SUFFICES ASSUME Synced, NEW p \in Clients, NEW i \in Items,
                      phone[p].rows[i] # NoRow, phone[p].pending[i] = NoPending
               PROVE  \E k \in DOMAIN feed :
                        feed[k] = [item |-> i, kind |-> "upsert", rev |-> phone[p].rows[i].rev,
                                   stamp |-> phone[p].rows[i].stamp]
    BY DEF RowsAreServed
  <2>1. phone[p].rows[i].stamp # 0 /\ InFeed(feed, i, phone[p].rows[i])
    BY DEF Synced, PhoneOK, EntryOK
  <2>2. DOMAIN feed = 1..Len(feed)
    BY DEF Synced, StoreInv, FeedInOrder
  <2> QED BY <2>1, <2>2 DEF InFeed
<1> QED BY <1>1, PhonesStaySynced, PTL

\* A phone knows what is behind its cursor, of every item that its user never
\* left in conflict.
THEOREM NothingPulledIsForgotten ==
  ASSUME IsFiniteSet(Items) PROVE Spec => []KnowsWhatItPulled
<1>1. Synced => KnowsWhatItPulled
  <2> SUFFICES ASSUME Synced, NEW p \in Clients, NEW k \in DOMAIN feed,
                      k <= phone[p].cursor, feed[k].item \notin phone[p].left
               PROVE  LET i == feed[k].item
                      IN  \/ phone[p].rows[i].rev >= feed[k].rev
                          \/ phone[p].pending[i].base >= feed[k].rev
                          \/ phone[p].conflicts[i].rev >= feed[k].rev
                          \/ \E l \in k..Len(feed) : feed[l].item = i /\ feed[l].kind = "delete"
    BY DEF KnowsWhatItPulled
  <2> DEFINE i == feed[k].item
  <2>1. k \in 1..Len(feed) /\ i \in Items
    BY FeedFacts DEF Synced, StoreInv, FeedInOrder
  <2>2. Knows(feed, i, phone[p].rows[i], phone[p].pending[i], phone[p].conflicts[i].rev,
              phone[p].cursor)
    BY <2>1, EntryFacts DEF Synced, InStep
  <2>3. phone[p].cursor \in Nat /\ k \in 1..phone[p].cursor
    BY <2>1, FeedFacts DEF Synced, PhoneOK
  <2> QED BY <2>2, <2>3 DEF Knows
<1> QED BY <1>1, PhonesStaySynced, PTL

\* No version and no deletion that a user made is overwritten by a pull before
\* the server has decided it: a pull replaces a version only if it had been
\* served, and no tombstone.
THEOREM PullsEraseNoEdit ==
  ASSUME IsFiniteSet(Items) PROVE Spec => PullErasesNoEdit
<1> DEFINE Kept == \A p \in Clients, i \in Items :
                     phone'[p].rows[i] # phone[p].rows[i] /\ Pull(p) =>
                       \/ phone[p].rows[i] = NoRow
                       \/ /\ ~phone[p].rows[i].deleted
                          /\ \E k \in DOMAIN feed :
                               feed[k].item = i /\ feed[k].stamp = phone[p].rows[i].stamp
<1>1. IInv /\ Synced => Kept
  <2> SUFFICES ASSUME IInv, Synced, NEW p \in Clients, NEW i \in Items, Pull(p),
                      phone'[p].rows[i] # phone[p].rows[i], phone[p].rows[i] # NoRow
               PROVE  /\ ~phone[p].rows[i].deleted
                      /\ \E k \in DOMAIN feed :
                           feed[k].item = i /\ feed[k].stamp = phone[p].rows[i].stamp
    OBVIOUS
  <2>1. phone[p].pending[i] = NoPending
    <3>1. phone'[p] = AfterPull(phone[p], LastChanges(p))
      BY DEF Pull, IInv, Shape
    <3> DEFINE changes == LastChanges(p)
               pulled == CHOOSE x \in changes : x.item = i
    <3> HIDE DEF changes
    <3>2. phone'[p].rows =
            [j \in Items |-> IF \E x \in changes : x.item = j
                              THEN PulledRow(phone[p], CHOOSE x \in changes : x.item = j)
                              ELSE phone[p].rows[j]]
      BY <3>1 DEF AfterPull, IInv, Shape, Fields, changes
    <3>3. (\E x \in changes : x.item = i) /\ phone'[p].rows[i] = PulledRow(phone[p], pulled)
      BY <3>2
    <3>4. pulled.item = i
      BY <3>3
    <3> HIDE DEF pulled
    <3> QED BY <3>3, <3>4 DEF PulledRow
  <2>2. InFeed(feed, i, phone[p].rows[i])
    BY <2>1 DEF Synced, PhoneOK, EntryOK
  <2>3. DOMAIN feed = 1..Len(feed)
    BY DEF Synced, StoreInv, FeedInOrder
  <2>4. ~phone[p].rows[i].deleted
    <3>1. Agree(phone[p].rows[i], phone[p].pending[i])
      BY DEF IInv, QueueMatchesRows
    <3> QED BY <2>1, <3>1 DEF Agree, NoPending
  <2> QED BY <2>2, <2>3, <2>4 DEF InFeed
<1> QED BY <1>1, PhonesStaySynced, PTL DEF PullErasesNoEdit

=============================================================================
