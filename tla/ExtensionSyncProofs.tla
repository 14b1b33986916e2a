------------------------ MODULE ExtensionSyncProofs ------------------------
(***************************************************************************)
(* What the extension stores and what it sends, for every number of        *)
(* extensions, items, edits, pages and plans.                              *)
(*                                                                         *)
(* The argument.  A version that the server may still apply is that of one *)
(* mutation id: a version gets its id when it is planned, the plan is      *)
(* committed before it is sent, and only after a refusal does the same     *)
(* version get a new id.  The invariant therefore ties every version that  *)
(* is not synced to its pending operation and to what is on the way, and   *)
(* every version that is synced to the feed.                               *)
(***************************************************************************)
EXTENDS ExtensionSync, SharedStoreProofs

PlanType == UNION {[S -> Pending] : S \in SUBSET Items}
ExtType ==
  [unlocked: BOOLEAN, pc: {"idle", "plan", "push", "pull"}, vault: Vault, sync: SyncState,
   plan: PlanType, n: Nat]

----------------------------------------------------------------------------
(* The invariant.                                                           *)

\* The operations that were sent, and those of them that are or may be applied.
Sent == (UNION late) \cup {v.op : v \in verdict}
Refused(o) == \E v \in verdict : v.op.mut = o.mut /\ v.status # "applied"
Standing == {o \in Sent : ~Refused(o)}

\* A version is never sent before it is made, an extension sends no deletion, and a
\* version stands under one mutation id only.
WorldOK ==
  /\ StoreInv /\ FeedIsDecided /\ clock <= MaxEdits
  /\ \A o \in Sent : Stamp(o) <= clock /\ (o.mut[1] \in Clients => o.kind = "upsert")
  /\ \A o, q \in Standing : Stamp(o) # 0 /\ Stamp(o) = Stamp(q) => o.mut = q.mut

\* What is pending is an upsert on the revision that is known.
PendingOK(e, i, rev, q) ==
  q # NoPending =>
    /\ q.kind = "upsert" /\ q.stamp # 0 /\ q.base = Base(rev)
    /\ q.mut \in Clients \X Nat \X Items \X Nat
    /\ q.mut[1] = e /\ q.mut[3] = i /\ q.mut[4] = q.stamp

\* An item's version v, the revision rev and version ts that were synced last, and
\* what is pending, of an item that is in conflict or not: only what is local is
\* known, pending or in conflict, and what is synced was served.
KnownOK(f, n, U, e, i, v, rev, ts, q, inConflict) ==
  /\ v = 0 => rev = NoRevision /\ q = NoPending /\ ~inConflict
  /\ v # 0 => i \in U
  /\ v <= n /\ ts <= n
  /\ ts # 0 => /\ rev # NoRevision
               /\ \E k \in 1..Len(f) :
                    f[k] = [item |-> i, kind |-> "upsert", rev |-> rev, stamp |-> ts]
  /\ PendingOK(e, i, rev, q)
  /\ q # NoPending \/ inConflict => ts # v

\* A version that is not synced stands under the pending mutation or not at all.
OwnOK(L, v, ts, q, inConflict) ==
  v # 0 /\ v # ts =>
    \A o \in L : Stamp(o) = v => ~inConflict /\ q # NoPending /\ o.mut = q.mut

\* What is behind the cursor is known.
CoverOK(f, cursor, i, rev, inConflict) ==
  ~inConflict => \A k \in 1..cursor : f[k].item = i =>
    rev >= f[k].rev \/ \E l \in k..Len(f) : f[l].item = i /\ f[l].kind = "delete"

\* A plan that is on its way is what is pending, and a pull has nothing to send.
RunOK(c) ==
  /\ c.pc = "push" <=> c.plan # <<>>
  /\ ~c.unlocked => c.pc = "idle"
  /\ \A i \in DOMAIN c.plan :
       /\ c.plan[i] = c.sync.pending[i] /\ c.plan[i] # NoPending
       /\ c.plan[i].stamp = c.vault[i] /\ i \notin c.sync.conflicts
  /\ c.pc = "pull" => \A i \in Items \ c.sync.conflicts :
       c.sync.pending[i] = NoPending /\ (c.vault[i] # 0 => c.vault[i] = c.sync.timestamps[i])

ItemOK(f, n, U, L, e, c, i) ==
  LET v == c.vault[i]
      rev == c.sync.revisions[i]
      ts == c.sync.timestamps[i]
      q == c.sync.pending[i]
      inConflict == i \in c.sync.conflicts
  IN  /\ KnownOK(f, n, U, e, i, v, rev, ts, q, inConflict)
      /\ OwnOK(L, v, ts, q, inConflict)
      /\ CoverOK(f, c.sync.cursor, i, rev, inConflict)

ExtOK(f, n, U, L, e, c) ==
  /\ c \in ExtType /\ c.sync.cursor <= Len(f)
  /\ RunOK(c)
  /\ \A i \in Items : ItemOK(f, n, U, L, e, c, i)

\* Two versions that are not synced are two versions.
Unsynced(c, i) == c.vault[i] # 0 /\ c.vault[i] # c.sync.timestamps[i]
Apart(c, d) ==
  \A i, j \in Items : Unsynced(c, i) /\ Unsynced(d, j) => c.vault[i] # d.vault[j]
ApartOnce(c) ==
  \A i, j \in Items : Unsynced(c, i) /\ Unsynced(c, j) /\ c.vault[i] = c.vault[j] => i = j

ExtInv ==
  /\ WorldOK
  /\ DOMAIN ext = Clients
  /\ \A e \in Clients : ExtOK(feed, clock, used, Standing, e, ext[e]) /\ ApartOnce(ext[e])
  /\ \A e, f \in Clients : e # f => Apart(ext[e], ext[f])

----------------------------------------------------------------------------
(* What a step of the world leaves.                                         *)

\* An operation that an extension or another client may send: its version has been
\* made, and it is the only one that stands under another mutation id than it.
MaySend(ops, n) ==
  /\ \A o \in ops : Stamp(o) <= n /\ (o.mut[1] \in Clients => o.kind = "upsert")
  /\ \A o \in ops, q \in Standing \cup ops :
       Stamp(o) # 0 /\ Stamp(o) = Stamp(q) /\ ~Refused(o) /\ ~Refused(q) => o.mut = q.mut

\* Requests that are sent may be served, be late, or both.
LEMMA WorldGrows ==
  ASSUME WorldOK, StoreInv', StoreGrows, FeedIsDecided',
         clock' \in Nat, clock <= clock', clock' <= MaxEdits,
         NEW ops, MaySend(ops, clock'), Sent' \subseteq Sent \cup ops
  PROVE  WorldOK' /\ \A o \in Standing' : o \in Standing \/ (o \in ops /\ ~Refused(o))
<1>1. \A o : Refused(o) => Refused(o)'
  BY DEF Refused, StoreGrows
<1>2. \A o \in Standing' : o \in Sent \cup ops /\ ~Refused(o)
  BY <1>1 DEF Standing
<1>3. \A o \in Standing' : o \in Standing \/ (o \in ops /\ ~Refused(o))
  BY <1>2 DEF Standing
<1>4. \A o \in Standing : ~Refused(o)
  BY DEF Standing
<1>5. ASSUME NEW o \in Sent'
      PROVE  Stamp(o) <= clock' /\ (o.mut[1] \in Clients => o.kind = "upsert")
  <2>1. CASE o \in ops
    BY <2>1 DEF MaySend
  <2>2. CASE o \in Sent
    <3>1. Stamp(o) <= clock /\ (o.mut[1] \in Clients => o.kind = "upsert")
      BY <2>2 DEF WorldOK
    <3>2. Stamp(o) \in Nat /\ clock \in Nat
      <4>1. clock \in Nat
        BY DEF WorldOK, StoreInv
      <4>2. OpOK(o)
        BY <2>2 DEF WorldOK, StoreInv, VerdictsStand, Sent, RequestOK
      <4> QED BY <4>1, <4>2 DEF OpOK, OpType, Stamp
    <3> QED BY <3>1, <3>2
  <2> QED BY <1>5, <2>1, <2>2
<1>6. ASSUME NEW o \in Standing', NEW q \in Standing', Stamp(o) # 0, Stamp(o) = Stamp(q)
      PROVE  o.mut = q.mut
  <2>1. CASE o \in Standing /\ q \in Standing
    BY <1>6, <2>1 DEF WorldOK
  <2>2. CASE o \notin Standing
    BY <1>2, <1>3, <1>4, <1>6, <2>2 DEF MaySend
  <2>3. CASE q \notin Standing
    <3>1. q \in ops /\ ~Refused(q) /\ ~Refused(o) /\ o \in Standing \cup ops
      BY <1>2, <1>3, <2>3
    <3> QED BY <1>6, <3>1 DEF MaySend
  <2> QED BY <2>1, <2>2, <2>3
<1>7. \A o \in Sent' : Stamp(o) <= clock' /\ (o.mut[1] \in Clients => o.kind = "upsert")
  BY <1>5
<1>8. \A o, q \in Standing' : Stamp(o) # 0 /\ Stamp(o) = Stamp(q) => o.mut = q.mut
  BY <1>6
<1>9. WorldOK'
  BY <1>7, <1>8 DEF WorldOK
<1> QED BY <1>3, <1>9

\* A request is served.
LEMMA ServeWorld ==
  ASSUME WorldOK, NEW ops, RequestOK(ops), Serve(ops), MaySend(ops, clock'),
         clock' \in Nat, clock <= clock', clock' <= MaxEdits,
         used \subseteq used', used' \subseteq Items, \A o \in ops : o.item \in used'
  PROVE  /\ WorldOK' /\ StoreGrows
         /\ \A o \in Standing' : o \in Standing \/ (o \in ops /\ ~Refused(o))
         /\ \A o \in ops : \E v \in verdict' : v.op.mut = o.mut
<1>1. /\ StoreInv' /\ StoreGrows /\ late' \subseteq late
      /\ \A v \in verdict' : v \in verdict \/ v.op \in ops
      /\ \A o \in ops : \E v \in verdict' : v.op.mut = o.mut
  BY ServeKeeps DEF WorldOK
<1>2. FeedIsDecided'
  BY <1>1, FeedStaysDecided DEF WorldOK
<1>3. Sent' \subseteq Sent \cup ops
  BY <1>1 DEF Sent
<1> QED BY <1>1, <1>2, <1>3, WorldGrows

\* A request is given up.
LEMMA GiveUpWorld ==
  ASSUME WorldOK, NEW ops, RequestOK(ops), GiveUp(ops), MaySend(ops, clock),
         UNCHANGED <<clock, used>>, \A o \in ops : o.item \in used
  PROVE  /\ WorldOK' /\ StoreGrows
         /\ \A o \in Standing' : o \in Standing \/ (o \in ops /\ ~Refused(o))
<1>1. StoreInv' /\ StoreGrows /\ late' \subseteq late \cup {ops}
  BY GiveUpKeeps DEF WorldOK
<1>2. verdict' = verdict /\ feed' = feed
  BY DEF GiveUp
<1>3. FeedIsDecided' /\ Sent' \subseteq Sent \cup ops
  BY <1>1, <1>2 DEF WorldOK, FeedIsDecided, Sent
<1>4. clock' = clock /\ clock \in Nat /\ clock <= MaxEdits
  BY DEF WorldOK, StoreInv
<1> QED BY <1>1, <1>3, <1>4, WorldGrows

\* A user does something.
LEMMA UserWorld ==
  ASSUME WorldOK, UNCHANGED store, clock' \in Nat, clock <= clock', clock' <= MaxEdits,
         used \subseteq used', used' \subseteq Items
  PROVE  WorldOK' /\ StoreGrows /\ Standing' = Standing
<1>1. StoreInv' /\ StoreGrows
  BY StoreUnchanged DEF WorldOK
<1>2. verdict' = verdict /\ feed' = feed /\ late' = late
  BY DEF store
<1>3. FeedIsDecided' /\ Sent' = Sent
  BY <1>2 DEF WorldOK, FeedIsDecided, Sent
<1>4. MaySend({}, clock')
  BY DEF MaySend
<1>5. Standing' = Standing
  BY <1>2, <1>3 DEF Standing, Refused
<1> QED BY <1>1, <1>3, <1>4, <1>5, WorldGrows

----------------------------------------------------------------------------
(* What a step of the world leaves to an extension, and what its own leaves. *)

\* The parts of an extension.
LEMMA Typed ==
  ASSUME NEW c \in ExtType
  PROVE  /\ c.vault \in [Items -> Nat] /\ c.sync \in SyncState
         /\ c.sync.revisions \in [Items -> Nat \cup {NoRevision}]
         /\ c.sync.timestamps \in [Items -> Nat] /\ c.sync.pending \in [Items -> Pending]
         /\ c.sync.cursor \in Nat /\ c.sync.serverRevision \in Nat
         /\ c.sync.conflicts \subseteq Items
         /\ c.plan \in PlanType /\ DOMAIN c.plan \subseteq Items /\ c.n \in Nat
         /\ c.pc \in {"idle", "plan", "push", "pull"} /\ c.unlocked \in BOOLEAN
  BY DEF ExtType, Vault, SyncState, PlanType

\* No step of the world touches what an extension has, as long as what is sent
\* does not have its versions under other mutation ids.
LEMMA ExtKeeps ==
  ASSUME StoreInv, StoreGrows, clock' \in Nat, clock <= clock', used \subseteq used',
         NEW e \in Clients, NEW c, ExtOK(feed, clock, used, Standing, e, c),
         \A o \in Standing' : o \in Standing \/
           \A i \in Items : Unsynced(c, i) /\ Stamp(o) = c.vault[i] =>
             /\ i \notin c.sync.conflicts /\ c.sync.pending[i] # NoPending
             /\ o.mut = c.sync.pending[i].mut
  PROVE  ExtOK(feed', clock', used', Standing', e, c)
<1>1. /\ Len(feed) \in Nat /\ Len(feed') \in Nat /\ Len(feed) <= Len(feed') /\ clock \in Nat
      /\ \A k \in 1..Len(feed) : k \in 1..Len(feed') /\ feed'[k] = feed[k]
  BY DEF StoreInv, FeedInOrder, StoreGrows
<1>2. /\ c \in ExtType /\ RunOK(c) /\ c.sync.cursor \in Nat
      /\ c.sync.cursor <= Len(feed) /\ c.sync.cursor <= Len(feed')
  <2>1. c \in ExtType /\ RunOK(c) /\ c.sync.cursor <= Len(feed)
    BY DEF ExtOK
  <2> QED BY <1>1, <2>1, Typed
<1>3. ASSUME NEW i \in Items PROVE ItemOK(feed', clock', used', Standing', e, c, i)
  <2> DEFINE v == c.vault[i]
             rev == c.sync.revisions[i]
             ts == c.sync.timestamps[i]
             q == c.sync.pending[i]
             inConflict == i \in c.sync.conflicts
  <2>1. /\ KnownOK(feed, clock, used, e, i, v, rev, ts, q, inConflict)
        /\ OwnOK(Standing, v, ts, q, inConflict)
        /\ CoverOK(feed, c.sync.cursor, i, rev, inConflict)
    BY DEF ExtOK, ItemOK
  <2>2. v \in Nat /\ ts \in Nat
    BY <1>2, Typed
  <2>3. OwnOK(Standing', v, ts, q, inConflict)
    BY <2>1 DEF OwnOK, Unsynced
  <2> HIDE DEF v, rev, ts, q, inConflict
  <2>4. KnownOK(feed', clock', used', e, i, v, rev, ts, q, inConflict)
    <3>1. v <= clock' /\ ts <= clock'
      BY <1>1, <2>1, <2>2 DEF KnownOK
    <3>2. ts # 0 => \E k \in 1..Len(feed') :
            feed'[k] = [item |-> i, kind |-> "upsert", rev |-> rev, stamp |-> ts]
      BY <1>1, <2>1 DEF KnownOK
    <3> QED BY <2>1, <3>1, <3>2 DEF KnownOK
  <2>5. CoverOK(feed', c.sync.cursor, i, rev, inConflict)
    <3> SUFFICES ASSUME ~inConflict, NEW k \in 1..c.sync.cursor, feed'[k].item = i
                 PROVE  \/ rev >= feed'[k].rev
                        \/ \E l \in k..Len(feed') : feed'[l].item = i /\ feed'[l].kind = "delete"
      BY DEF CoverOK
    <3>1. k \in 1..Len(feed) /\ feed'[k] = feed[k]
      BY <1>1, <1>2
    <3>2. rev >= feed[k].rev \/ \E l \in k..Len(feed) : feed[l].item = i /\ feed[l].kind = "delete"
      BY <2>1, <3>1 DEF CoverOK
    <3>3. \A l \in k..Len(feed) : l \in k..Len(feed') /\ feed'[l] = feed[l]
      BY <1>1, <3>1
    <3> QED BY <3>1, <3>2, <3>3
  <2> QED BY <2>3, <2>4, <2>5 DEF ItemOK, v, rev, ts, q, inConflict
<1> QED BY <1>2, <1>3 DEF ExtOK

\* What is not synced in d was not in c, but for a new version of item j.
Moves(c, d, j) ==
  \A i \in Items : Unsynced(d, i) =>
    \/ Unsynced(c, i) /\ d.vault[i] = c.vault[i]
    \/ i = j /\ d.vault[i] = clock + 1

\* An extension moves.
LEMMA ExtMoves ==
  ASSUME ExtInv, WorldOK', NEW e \in Clients, NEW d, ext' = [ext EXCEPT ![e] = d],
         \A f \in Clients : f # e => ExtOK(feed', clock', used', Standing', f, ext[f]),
         ExtOK(feed', clock', used', Standing', e, d),
         NEW j, Moves(ext[e], d, j)
  PROVE  ExtInv'
<1>1. DOMAIN ext' = Clients /\ ext'[e] = d /\ \A f \in Clients : f # e => ext'[f] = ext[f]
  BY DEF ExtInv
<1>2. \A f \in Clients : ExtOK(feed', clock', used', Standing', f, ext'[f])
  BY <1>1
<1>3. ASSUME NEW f \in Clients, NEW i \in Items
      PROVE  ext[f].vault[i] \in Nat /\ clock \in Nat /\ ext[f].vault[i] # clock + 1
  <2>1. ext[f] \in ExtType /\ ItemOK(feed, clock, used, Standing, f, ext[f], i)
    BY DEF ExtInv, ExtOK
  <2>2. ext[f].vault[i] <= clock
    BY <2>1 DEF ItemOK, KnownOK
  <2>3. ext[f].vault[i] \in Nat /\ clock \in Nat
    BY <2>1, Typed DEF ExtInv, WorldOK, StoreInv
  <2> QED BY <2>2, <2>3
<1>4. ASSUME NEW f \in Clients PROVE ApartOnce(ext'[f])
  <2>1. CASE f # e
    BY <1>1, <2>1 DEF ExtInv
  <2>2. CASE f = e
    <3>1. ApartOnce(ext[e])
      BY DEF ExtInv
    <3>2. ApartOnce(d)
      BY <1>3, <3>1 DEF ApartOnce, Moves
    <3> QED BY <1>1, <2>2, <3>2
  <2> QED BY <2>1, <2>2
<1>5. ASSUME NEW f \in Clients, f # e PROVE Apart(d, ext[f]) /\ Apart(ext[f], d)
  <2>1. Apart(ext[e], ext[f]) /\ Apart(ext[f], ext[e])
    BY <1>5 DEF ExtInv
  <2> QED BY <1>3, <2>1 DEF Apart, Moves
<1>6. ASSUME NEW f \in Clients, NEW g \in Clients, f # g PROVE Apart(ext'[f], ext'[g])
  <2>1. CASE f = e
    BY <1>1, <1>5, <1>6, <2>1
  <2>2. CASE g = e
    BY <1>1, <1>5, <1>6, <2>2
  <2>3. CASE f # e /\ g # e
    BY <1>1, <1>6, <2>3 DEF ExtInv
  <2> QED BY <2>1, <2>2, <2>3
<1> QED BY <1>1, <1>2, <1>4, <1>6 DEF ExtInv

\* An operation that an extension sends of one of its versions.
IsOwn(c, o) ==
  \E i \in Items : /\ Unsynced(c, i) /\ Stamp(o) = c.vault[i]
                   /\ i \notin c.sync.conflicts /\ c.sync.pending[i] # NoPending
                   /\ o.mut = c.sync.pending[i].mut

\* What one extension sends touches no version of another.
LEMMA AllKeep ==
  ASSUME ExtInv, StoreGrows, clock' \in Nat, clock <= clock', used \subseteq used',
         NEW e \in Clients, \A o \in Standing' : o \in Standing \/ IsOwn(ext[e], o)
  PROVE  \A f \in Clients : ExtOK(feed', clock', used', Standing', f, ext[f])
<1> TAKE f \in Clients
<1>1. StoreInv /\ ExtOK(feed, clock, used, Standing, f, ext[f])
  BY DEF ExtInv, WorldOK
<1>2. ASSUME NEW o \in Standing', o \notin Standing, NEW i \in Items,
             Unsynced(ext[f], i), Stamp(o) = ext[f].vault[i]
      PROVE  /\ i \notin ext[f].sync.conflicts /\ ext[f].sync.pending[i] # NoPending
             /\ o.mut = ext[f].sync.pending[i].mut
  <2>1. PICK j \in Items : /\ Unsynced(ext[e], j) /\ Stamp(o) = ext[e].vault[j]
                           /\ j \notin ext[e].sync.conflicts
                           /\ ext[e].sync.pending[j] # NoPending
                           /\ o.mut = ext[e].sync.pending[j].mut
    BY <1>2 DEF IsOwn
  <2>2. f = e
    BY <1>2, <2>1 DEF ExtInv, Apart
  <2>3. i = j
    BY <1>2, <2>1, <2>2 DEF ExtInv, ApartOnce
  <2> QED BY <2>1, <2>2, <2>3
<1>3. \A o \in Standing' : o \in Standing \/
        \A i \in Items : Unsynced(ext[f], i) /\ Stamp(o) = ext[f].vault[i] =>
          /\ i \notin ext[f].sync.conflicts /\ ext[f].sync.pending[i] # NoPending
          /\ o.mut = ext[f].sync.pending[i].mut
  BY <1>2
<1> QED BY <1>1, <1>3, ExtKeeps

\* A user does something: the server and what was sent are as they were.
LEMMA UserStep ==
  ASSUME ExtInv, UNCHANGED store, clock' \in Nat, clock <= clock', clock' <= MaxEdits,
         used \subseteq used', used' \subseteq Items
  PROVE  /\ WorldOK' /\ StoreGrows /\ feed' = feed /\ Standing' = Standing
         /\ \A f \in Clients : ExtOK(feed', clock', used', Standing', f, ext[f])
<1>1. WorldOK' /\ StoreGrows /\ feed' = feed /\ Standing' = Standing
  BY UserWorld DEF ExtInv, store
<1>2. \A e \in Clients :
        (\A f \in Clients : ExtOK(feed', clock', used', Standing', f, ext[f]))
  BY <1>1, AllKeep
<1> QED BY <1>1, <1>2

\* A step of a run that changes neither the vault nor the sync state.
LEMMA RunStep ==
  ASSUME ExtInv, WorldOK', NEW e \in Clients, NEW d \in ExtType,
         ext' = [ext EXCEPT ![e] = d],
         \A f \in Clients : ExtOK(feed', clock', used', Standing', f, ext[f]),
         d.vault = ext[e].vault, d.sync = ext[e].sync, RunOK(d)
  PROVE  ExtInv'
<1>1. ExtOK(feed', clock', used', Standing', e, ext[e])
  OBVIOUS
<1>2. ExtOK(feed', clock', used', Standing', e, d)
  BY <1>1 DEF ExtOK, ItemOK
<1>3. Moves(ext[e], d, e)
  BY DEF Moves, Unsynced
<1> QED BY <1>2, <1>3, ExtMoves

LEMMA WorldUnchanged ==
  ASSUME ExtInv, UNCHANGED world
  PROVE  /\ WorldOK' /\ StoreGrows /\ feed' = feed /\ Standing' = Standing
         /\ \A f \in Clients : ExtOK(feed', clock', used', Standing', f, ext[f])
<1>1. /\ UNCHANGED store /\ clock' \in Nat /\ clock <= clock' /\ clock' <= MaxEdits
      /\ used \subseteq used' /\ used' \subseteq Items
  BY DEF ExtInv, WorldOK, StoreInv, world
<1> QED BY <1>1, UserStep

\* Starting a run.
LEMMA StartOK ==
  ASSUME ExtInv, NEW e \in Clients, ExtStart(e)
  PROVE  ExtInv'
<1> DEFINE c == ext[e]
           d == [c EXCEPT !.pc = "plan"]
<1>1. /\ UNCHANGED world /\ c.pc = "idle" /\ c.unlocked
      /\ ext' = [ext EXCEPT ![e] = d]
  BY DEF ExtStart
<1>2. c \in ExtType /\ RunOK(c)
  BY DEF ExtInv, ExtOK
<1>3. /\ d \in ExtType /\ d.vault = c.vault /\ d.sync = c.sync /\ d.plan = c.plan
      /\ d.pc = "plan" /\ d.unlocked
  BY <1>1, <1>2 DEF ExtType
<1> HIDE DEF d
<1>4. RunOK(d)
  BY <1>1, <1>2, <1>3 DEF RunOK
<1> QED BY <1>1, <1>3, <1>4, WorldUnchanged, RunStep

\* Unlocking starts one.
LEMMA UnlockOK ==
  ASSUME ExtInv, NEW e \in Clients, ExtUnlock(e)
  PROVE  ExtInv'
<1> DEFINE c == ext[e]
           d == [c EXCEPT !.pc = "plan", !.unlocked = TRUE]
<1>1. UNCHANGED world /\ ~c.unlocked /\ ext' = [ext EXCEPT ![e] = d]
  BY DEF ExtUnlock
<1>2. c \in ExtType /\ RunOK(c)
  BY DEF ExtInv, ExtOK
<1>3. /\ d \in ExtType /\ d.vault = c.vault /\ d.sync = c.sync /\ d.plan = c.plan
      /\ d.pc = "plan" /\ d.unlocked
  BY <1>1, <1>2 DEF ExtType
<1> HIDE DEF d
<1>4. RunOK(d)
  BY <1>1, <1>2, <1>3 DEF RunOK
<1> QED BY <1>1, <1>3, <1>4, WorldUnchanged, RunStep

----------------------------------------------------------------------------
(* The steps of an extension.                                               *)

\* What holds of an extension and of its item.
LEMMA Facts ==
  ASSUME ExtInv, NEW e \in Clients
  PROVE  /\ ext[e] \in ExtType /\ RunOK(ext[e]) /\ ext[e].sync.cursor \in 0..Len(feed)
         /\ \A i \in Items : /\ ext[e].vault[i] \in Nat /\ ext[e].vault[i] <= clock
                             /\ ItemOK(feed, clock, used, Standing, e, ext[e], i)
         /\ clock \in Nat /\ used \subseteq Items /\ Len(feed) \in Nat
<1>1. /\ ext[e] \in ExtType /\ RunOK(ext[e]) /\ ext[e].sync.cursor <= Len(feed)
      /\ \A i \in Items : ItemOK(feed, clock, used, Standing, e, ext[e], i)
  BY DEF ExtInv, ExtOK
<1>2. clock \in Nat /\ used \subseteq Items /\ Len(feed) \in Nat
  BY DEF ExtInv, WorldOK, StoreInv, FeedInOrder
<1>3. \A i \in Items : ext[e].vault[i] <= clock
  BY <1>1 DEF ItemOK, KnownOK
<1> QED BY <1>1, <1>2, <1>3, Typed

\* A version is made: nothing stands of it yet.
LEMMA SaveOK ==
  ASSUME ExtInv, NEW e \in Clients, NEW i \in Items, ExtSave(e, i)
  PROVE  ExtInv'
<1> DEFINE c == ext[e]
           d == [c EXCEPT !.pc = "plan", !.vault[i] = clock + 1]
<1>1. /\ UNCHANGED store /\ c.pc = "idle" /\ c.unlocked /\ ext' = [ext EXCEPT ![e] = d]
      /\ clock < MaxEdits /\ clock' = clock + 1 /\ used' = used \cup {i}
  BY DEF ExtSave, MakeVersion
<1>2. /\ c \in ExtType /\ RunOK(c) /\ clock \in Nat /\ used \subseteq Items
      /\ \A j \in Items : c.vault[j] \in Nat /\ c.vault[j] <= clock
  BY Facts
<1>3. /\ clock' \in Nat /\ clock <= clock' /\ clock' <= MaxEdits
      /\ used \subseteq used' /\ used' \subseteq Items
  BY <1>1, <1>2, ClientAssumption
<1>4. /\ WorldOK' /\ feed' = feed /\ Standing' = Standing
      /\ \A f \in Clients : ExtOK(feed', clock', used', Standing', f, ext[f])
  BY <1>1, <1>3, UserStep
<1>5. /\ d \in ExtType /\ d.sync = c.sync /\ d.plan = c.plan
      /\ d.pc = "plan" /\ d.unlocked
      /\ d.vault = [c.vault EXCEPT ![i] = clock + 1]
  <2> DEFINE v == [c.vault EXCEPT ![i] = clock + 1]
  <2>1. v \in Vault
    BY <1>2, Typed DEF Vault
  <2>2. d = [c EXCEPT !.pc = "plan", !.vault = v]
    BY <1>2 DEF ExtType
  <2> HIDE DEF v, d
  <2>3. /\ d \in ExtType /\ d.sync = c.sync /\ d.plan = c.plan
        /\ d.pc = "plan" /\ d.unlocked = c.unlocked /\ d.vault = v
    BY <1>2, <2>1, <2>2 DEF ExtType
  <2> QED BY <1>1, <2>3 DEF v
<1> HIDE DEF d
<1>6. d.vault[i] = clock' /\ \A j \in Items : j # i => d.vault[j] = c.vault[j]
  BY <1>1, <1>2, <1>5, Typed
<1>7. RunOK(d)
  BY <1>1, <1>2, <1>5 DEF RunOK
<1>8. ExtOK(feed', clock', used', Standing', e, c)
  BY <1>4
<1>9. ASSUME NEW j \in Items PROVE ItemOK(feed', clock', used', Standing', e, d, j)
  <2> DEFINE v == c.vault[j]
             rev == c.sync.revisions[j]
             ts == c.sync.timestamps[j]
             q == c.sync.pending[j]
             inConflict == j \in c.sync.conflicts
  <2>1. /\ KnownOK(feed', clock', used', e, j, v, rev, ts, q, inConflict)
        /\ OwnOK(Standing', v, ts, q, inConflict)
        /\ CoverOK(feed', c.sync.cursor, j, rev, inConflict)
    BY <1>8 DEF ExtOK, ItemOK
  <2>2. KnownOK(feed, clock, used, e, j, v, rev, ts, q, inConflict)
    BY Facts DEF ItemOK
  <2>3. ts \in Nat
    BY <1>2, Typed
  <2>4. CASE j # i
    BY <1>5, <1>6, <2>1, <2>4 DEF ItemOK
  <2>5. CASE j = i
    <3>1. ts < clock' /\ clock' # 0
      BY <1>1, <1>2, <2>2, <2>3 DEF KnownOK
    <3>2. KnownOK(feed', clock', used', e, j, clock', rev, ts, q, inConflict)
      <4> HIDE DEF v, rev, ts, q, inConflict
      <4>1. j \in used' /\ clock' <= clock' /\ ts <= clock'
        BY <1>1, <1>3, <2>3, <2>5, <3>1
      <4> QED BY <2>1, <2>3, <3>1, <4>1 DEF KnownOK
    <3>3. \A o \in Standing' : Stamp(o) # clock'
      <4>1. \A o \in Standing : Stamp(o) <= clock
        BY DEF ExtInv, WorldOK, Standing
      <4> QED BY <1>1, <1>2, <1>4, <4>1
    <3>4. OwnOK(Standing', clock', ts, q, inConflict)
      BY <3>3 DEF OwnOK
    <3> QED BY <1>5, <1>6, <2>1, <2>5, <3>2, <3>4 DEF ItemOK
  <2> QED BY <2>4, <2>5
<1>10. ExtOK(feed', clock', used', Standing', e, d)
  BY <1>5, <1>7, <1>8, <1>9 DEF ExtOK
<1>11. Moves(c, d, i)
  BY <1>1, <1>5, <1>6 DEF Moves, Unsynced
<1> QED BY <1>1, <1>4, <1>10, <1>11, ExtMoves

\* What is planned is an upsert of some of the edited items, and all of them if it is
\* nothing: no item is to be deleted.
LEMMA PlanIs ==
  ASSUME IsFiniteSet(Items), ExtInv, NEW e \in Clients,
         NEW plan \in Plans(ext[e].vault, ext[e].sync, e, ext[e].n)
  PROVE  LET c == ext[e]
             edited == Edited(c.vault, c.sync)
         IN  /\ DOMAIN plan \subseteq edited
             /\ \A i \in DOMAIN plan : plan[i] = Upsert(c.vault, c.sync, i, e, c.n)
             /\ plan = <<>> => edited = {}
             /\ plan = [i \in DOMAIN plan |-> plan[i]]
<1> DEFINE c == ext[e]
           edited == Edited(c.vault, c.sync)
<1>1. Dropped(c.vault, c.sync) = {}
  <2> SUFFICES ASSUME NEW i \in Dropped(c.vault, c.sync) PROVE FALSE
    OBVIOUS
  <2>1. i \in Items /\ c.vault[i] = 0
    BY DEF Dropped
  <2>2. c.sync.revisions[i] = NoRevision /\ c.sync.pending[i] = NoPending
    BY <2>1, Facts DEF ItemOK, KnownOK
  <2> QED BY <2>2 DEF Dropped
<1>0. PICK U \in UpTo(MaxMutations, edited) :
        \E D \in UpTo(MaxMutations - Cardinality(U), Dropped(c.vault, c.sync)) :
          plan = [i \in U \cup D |-> IF i \in U THEN Upsert(c.vault, c.sync, i, e, c.n)
                                                 ELSE Delete(c.sync, i, e, c.n)]
  BY DEF Plans
<1>2. PICK D \in UpTo(MaxMutations - Cardinality(U), Dropped(c.vault, c.sync)) :
        plan = [i \in U \cup D |-> IF i \in U THEN Upsert(c.vault, c.sync, i, e, c.n)
                                               ELSE Delete(c.sync, i, e, c.n)]
  BY <1>0
<1>3. D = {}
  BY <1>1, <1>2 DEF UpTo
<1>4. /\ U \subseteq edited
      /\ Cardinality(U) = IF Cardinality(edited) < MaxMutations THEN Cardinality(edited)
                          ELSE MaxMutations
  BY <1>2 DEF UpTo
<1>5. DOMAIN plan = U /\ \A i \in U : plan[i] = Upsert(c.vault, c.sync, i, e, c.n)
  BY <1>2, <1>3
<1>6. ASSUME plan = <<>> PROVE edited = {}
  <2>1. U = {}
    BY <1>5, <1>6
  <2>2. Cardinality(U) = 0
    BY <2>1, FS_EmptySet
  <2>3. edited \subseteq Items
    BY DEF Edited
  <2>4. IsFiniteSet(edited) /\ Cardinality(edited) \in Nat
    BY <2>3, FS_Subset, FS_CardinalityType
  <2>5. Cardinality(edited) = 0
    BY <1>4, <2>2, <2>4, EngineAssumption
  <2> QED BY <2>4, <2>5, FS_EmptySet
<1>7. plan = [i \in DOMAIN plan |-> plan[i]]
  BY <1>2
<1> QED BY <1>4, <1>5, <1>6, <1>7

\* The operation of an edited item: of its version, and the one that stands already
\* if there is one.
LEMMA UpsertIs ==
  ASSUME ExtInv, NEW e \in Clients, NEW i \in Edited(ext[e].vault, ext[e].sync)
  PROVE  LET c == ext[e]
             q == Upsert(c.vault, c.sync, i, e, c.n)
         IN  /\ q \in Pending /\ q # NoPending /\ q.stamp = c.vault[i]
             /\ i \in Items /\ i \notin c.sync.conflicts
             /\ c.vault[i] # 0 /\ c.vault[i] # c.sync.timestamps[i]
             /\ PendingOK(e, i, c.sync.revisions[i], q)
             /\ OwnOK(Standing, c.vault[i], c.sync.timestamps[i], q, FALSE)
<1> DEFINE c == ext[e]
           v == c.vault[i]
           rev == c.sync.revisions[i]
           ts == c.sync.timestamps[i]
           old == c.sync.pending[i]
           q == Upsert(c.vault, c.sync, i, e, c.n)
           new == [kind |-> "upsert", mut |-> <<e, c.n, i, v>>, stamp |-> v, base |-> Base(rev)]
<1>1. i \in Items /\ i \notin c.sync.conflicts /\ v # 0 /\ (ts # v \/ old # NoPending)
  BY DEF Edited
<1>2. c \in ExtType /\ v \in Nat /\ ItemOK(feed, clock, used, Standing, e, c, i)
  BY <1>1, Facts
<1>3. /\ KnownOK(feed, clock, used, e, i, v, rev, ts, old, i \in c.sync.conflicts)
      /\ OwnOK(Standing, v, ts, old, i \in c.sync.conflicts)
  BY <1>2 DEF ItemOK
<1>4. /\ v # ts /\ PendingOK(e, i, rev, old)
      /\ OwnOK(Standing, v, ts, old, FALSE)
  BY <1>1, <1>3 DEF KnownOK, OwnOK
<1>5. old \in Pending /\ rev \in Nat \cup {NoRevision} /\ c.n \in Nat
  BY <1>1, <1>2, Typed
<1>6. CASE CanReplay(c.vault, c.sync, i)
  <2>1. q = old /\ old.kind = "upsert" /\ old.stamp = v
    BY <1>6 DEF Upsert, CanReplay
  <2>2. old # NoPending
    BY <2>1 DEF NoPending
  <2> QED BY <1>1, <1>4, <1>5, <2>1, <2>2
<1>7. CASE ~CanReplay(c.vault, c.sync, i)
  <2>1. q = new
    BY <1>7 DEF Upsert
  <2>2. new \in Pending /\ new # NoPending /\ new.stamp = v
    BY <1>1, <1>2, <1>5 DEF Pending, NoPending, Base, NoRevision
  <2>3. PendingOK(e, i, rev, new)
    BY <1>1, <1>2, <1>5 DEF PendingOK
  <2>4. \A o \in Standing : Stamp(o) # v
    <3> SUFFICES ASSUME NEW o \in Standing, Stamp(o) = v PROVE FALSE
      OBVIOUS
    <3>1. old # NoPending /\ o.mut = old.mut
      BY <1>1, <1>4 DEF OwnOK
    <3>2. old.kind = "upsert" /\ old.mut[4] = old.stamp
      BY <1>4, <3>1 DEF PendingOK
    <3> QED BY <1>7, <3>1, <3>2 DEF CanReplay, Stamp
  <2>5. OwnOK(Standing, v, ts, new, FALSE)
    BY <2>4 DEF OwnOK
  <2> HIDE DEF new
  <2> QED BY <1>1, <1>4, <2>1, <2>2, <2>3, <2>5
<1> QED BY <1>6, <1>7

\* The plan is committed.
LEMMA PlanOK ==
  ASSUME IsFiniteSet(Items), ExtInv, NEW e \in Clients, ExtPlan(e)
  PROVE  ExtInv'
<1> DEFINE c == ext[e]
           pc(plan) == IF plan = <<>> THEN "pull" ELSE "push"
<1>1. PICK plan \in Plans(c.vault, c.sync, e, c.n) :
        ext' = [ext EXCEPT ![e].sync = PlannedState(@, plan), ![e].plan = plan,
                           ![e].pc = pc(plan), ![e].n = NextNumber(@, plan)]
  BY DEF ExtPlan
<1> DEFINE s == WithPending(c.sync, plan)
           d == [c EXCEPT !.sync = s, !.plan = plan, !.pc = pc(plan),
                          !.n = NextNumber(c.n, plan)]
           pending == [i \in Items |-> IF i \in DOMAIN plan THEN plan[i]
                                       ELSE c.sync.pending[i]]
<1>2. UNCHANGED world /\ c.pc = "plan"
  BY DEF ExtPlan
<1>3. c \in ExtType /\ RunOK(c) /\ c.unlocked
  BY <1>2, Facts DEF RunOK
<1>4. /\ DOMAIN plan \subseteq Edited(c.vault, c.sync)
      /\ \A i \in DOMAIN plan : plan[i] = Upsert(c.vault, c.sync, i, e, c.n)
      /\ plan = <<>> => Edited(c.vault, c.sync) = {}
  BY PlanIs
<1>5. \A i \in DOMAIN plan :
        /\ plan[i] \in Pending /\ plan[i] # NoPending /\ plan[i].stamp = c.vault[i]
        /\ i \in Items /\ i \notin c.sync.conflicts
        /\ c.vault[i] # 0 /\ c.vault[i] # c.sync.timestamps[i]
        /\ PendingOK(e, i, c.sync.revisions[i], plan[i])
        /\ OwnOK(Standing, c.vault[i], c.sync.timestamps[i], plan[i], FALSE)
  <2> TAKE i \in DOMAIN plan
  <2>1. i \in Edited(c.vault, c.sync) /\ plan[i] = Upsert(c.vault, c.sync, i, e, c.n)
    BY ONLY i \in DOMAIN plan, <1>4
  <2> DEFINE q == Upsert(c.vault, c.sync, i, e, c.n)
  <2>2. /\ q \in Pending /\ q # NoPending /\ q.stamp = c.vault[i]
        /\ i \in Items /\ i \notin c.sync.conflicts
        /\ c.vault[i] # 0 /\ c.vault[i] # c.sync.timestamps[i]
        /\ PendingOK(e, i, c.sync.revisions[i], q)
        /\ OwnOK(Standing, c.vault[i], c.sync.timestamps[i], q, FALSE)
    BY ONLY ExtInv, e \in Clients, <2>1, UpsertIs
  <2>3. plan[i] = q
    BY ONLY <2>1
  <2> HIDE DEF q, c
  <2> QED BY ONLY <2>2, <2>3
<1>6. DOMAIN plan \subseteq Items /\ plan \in PlanType
  <2>1. plan \in [DOMAIN plan -> Pending]
    <3>1. plan = [i \in DOMAIN plan |-> plan[i]]
      BY PlanIs
    <3> QED BY <1>5, <3>1
  <2>2. DOMAIN plan \subseteq Items
    BY <1>5
  <2> QED BY <2>1, <2>2 DEF PlanType
<1>7. pending \in [Items -> Pending]
  <2>1. c.sync.pending \in [Items -> Pending]
    BY ONLY <1>3, Typed
  <2>2. \A i \in DOMAIN plan : plan[i] \in Pending
    BY ONLY <1>5
  <2> QED BY ONLY <2>1, <2>2
<1>8. s = [c.sync EXCEPT !.pending = pending]
  BY DEF WithPending
<1>9. NextNumber(c.n, plan) \in Nat
  BY <1>3, Typed DEF NextNumber
<1>10. ext' = [ext EXCEPT ![e] = d]
  BY <1>1 DEF PlannedState
<1> HIDE DEF pending
<1>11. /\ s \in SyncState /\ s.pending = pending /\ s.conflicts = c.sync.conflicts
       /\ s.cursor = c.sync.cursor /\ s.revisions = c.sync.revisions
       /\ s.timestamps = c.sync.timestamps
  BY <1>3, <1>7, <1>8, Typed DEF SyncState
<1> HIDE DEF s
<1>12. /\ d \in ExtType /\ d.vault = c.vault /\ d.sync = s /\ d.plan = plan
       /\ d.pc = pc(plan) /\ d.unlocked
  BY <1>3, <1>6, <1>9, <1>11 DEF ExtType
<1> HIDE DEF d
<1>13. \A i \in Items : pending[i] = IF i \in DOMAIN plan THEN plan[i] ELSE c.sync.pending[i]
  BY DEF pending
<1>14. ASSUME plan = <<>>, NEW i \in Items \ c.sync.conflicts
       PROVE  pending[i] = NoPending /\ (c.vault[i] # 0 => c.vault[i] = c.sync.timestamps[i])
  <2>1. i \notin DOMAIN plan
    BY <1>14
  <2>2. i \notin Edited(c.vault, c.sync)
    BY <1>4, <1>14
  <2>3. c.vault[i] = 0 => c.sync.pending[i] = NoPending
    BY Facts DEF ItemOK, KnownOK
  <2> QED BY <1>13, <2>1, <2>2, <2>3 DEF Edited
<1>15. RunOK(d)
  <2>1. d.pc = "push" <=> d.plan # <<>>
    BY ONLY <1>12
  <2>2. \A i \in DOMAIN plan : /\ plan[i] = pending[i] /\ plan[i] # NoPending
                               /\ plan[i].stamp = c.vault[i] /\ i \notin c.sync.conflicts
    BY ONLY <1>5, <1>13
  <2>3. d.pc = "pull" => plan = <<>>
    BY ONLY <1>12
  <2> HIDE DEF c
  <2>4. \A i \in DOMAIN d.plan :
          /\ d.plan[i] = d.sync.pending[i] /\ d.plan[i] # NoPending
          /\ d.plan[i].stamp = d.vault[i] /\ i \notin d.sync.conflicts
    BY ONLY <1>11, <1>12, <2>2
  <2>5. d.pc = "pull" => \A i \in Items \ d.sync.conflicts :
          d.sync.pending[i] = NoPending /\ (d.vault[i] # 0 => d.vault[i] = d.sync.timestamps[i])
    BY ONLY <1>11, <1>12, <1>14, <2>3
  <2> QED BY ONLY <1>12, <2>1, <2>4, <2>5 DEF RunOK
<1>16. /\ WorldOK' /\ feed' = feed /\ Standing' = Standing
       /\ \A f \in Clients : ExtOK(feed', clock', used', Standing', f, ext[f])
  BY <1>2, WorldUnchanged
<1>17. ExtOK(feed', clock', used', Standing', e, c)
  BY <1>16
<1>18. ASSUME NEW i \in Items PROVE ItemOK(feed', clock', used', Standing', e, d, i)
  <2> DEFINE v == c.vault[i]
             rev == c.sync.revisions[i]
             ts == c.sync.timestamps[i]
             q == c.sync.pending[i]
             inConflict == i \in c.sync.conflicts
  <2>1. /\ KnownOK(feed', clock', used', e, i, v, rev, ts, q, inConflict)
        /\ OwnOK(Standing', v, ts, q, inConflict)
        /\ CoverOK(feed', c.sync.cursor, i, rev, inConflict)
    BY <1>17 DEF ExtOK, ItemOK
  <2>2. CASE i \notin DOMAIN plan
    BY <1>11, <1>12, <1>13, <2>1, <2>2 DEF ItemOK
  <2>3. CASE i \in DOMAIN plan
    <3>1. KnownOK(feed', clock', used', e, i, v, rev, ts, plan[i], inConflict)
      BY <1>5, <2>1, <2>3 DEF KnownOK
    <3>2. OwnOK(Standing', v, ts, plan[i], inConflict)
      BY <1>5, <1>16, <2>3 DEF OwnOK
    <3> QED BY <1>11, <1>12, <1>13, <2>1, <2>3, <3>1, <3>2 DEF ItemOK
  <2> QED BY <2>2, <2>3
<1>19. ExtOK(feed', clock', used', Standing', e, d)
  BY <1>11, <1>12, <1>15, <1>17, <1>18 DEF ExtOK
<1>20. Moves(c, d, e)
  BY <1>11, <1>12 DEF Moves, Unsynced
<1> QED BY <1>10, <1>16, <1>19, <1>20, ExtMoves

\* The request of a plan that is on its way: every operation is that of a version of the
\* extension under the mutation that is pending.
LEMMA PlanRequest ==
  ASSUME IsFiniteSet(Items), ExtInv, NEW e \in Clients
  PROVE  LET ops == Operations(ext[e].plan)
         IN  /\ RequestOK(ops) /\ MaySend(ops, clock)
             /\ \A o \in ops : o.item \in used /\ IsOwn(ext[e], o)
<1> DEFINE c == ext[e]
           plan == c.plan
           op == [i \in DOMAIN plan |-> [mut |-> plan[i].mut, item |-> i, kind |-> plan[i].kind,
                                         base |-> plan[i].base]]
           ops == Operations(plan)
<1>1. DOMAIN plan \subseteq Items /\ IsFiniteSet(DOMAIN plan)
  BY Facts, Typed, FS_Subset
<1>2. \A i \in DOMAIN plan :
        /\ plan[i] = c.sync.pending[i] /\ plan[i] # NoPending
        /\ plan[i].stamp = c.vault[i] /\ i \notin c.sync.conflicts
  BY Facts DEF RunOK
<1>3. ops = {op[i] : i \in DOMAIN plan}
  BY DEF Operations
<1>4. IsFiniteSet(ops)
  <2>1. DOMAIN op = DOMAIN plan
    OBVIOUS
  <2> HIDE DEF op
  <2> QED BY <1>1, <1>3, <2>1, FiniteImage
<1>5. \A o \in ops : o.item \in DOMAIN plan /\ o = op[o.item]
  BY <1>3
<1>6. ASSUME NEW i \in DOMAIN plan
      PROVE  /\ OpOK(op[i]) /\ op[i].item = i /\ i \in used /\ op[i].kind = "upsert"
             /\ op[i].mut = c.sync.pending[i].mut /\ op[i].mut[1] \in Clients
             /\ Stamp(op[i]) = c.vault[i] /\ Stamp(op[i]) <= clock
             /\ Unsynced(c, i)
             /\ OwnOK(Standing, c.vault[i], c.sync.timestamps[i], plan[i], FALSE)
  <2> DEFINE v == c.vault[i]
             rev == c.sync.revisions[i]
             ts == c.sync.timestamps[i]
  <2>1. i \in Items
    BY <1>1
  <2>2. /\ KnownOK(feed, clock, used, e, i, v, rev, ts, plan[i], i \in c.sync.conflicts)
        /\ OwnOK(Standing, v, ts, plan[i], i \in c.sync.conflicts)
    BY <1>2, <2>1, Facts DEF ItemOK
  <2>3. /\ plan[i].kind = "upsert" /\ plan[i].stamp # 0
        /\ plan[i].mut \in Clients \X Nat \X Items \X Nat
        /\ plan[i].mut[1] = e /\ plan[i].mut[3] = i /\ plan[i].mut[4] = plan[i].stamp
    BY <1>2, <2>2 DEF KnownOK, PendingOK
  <2>4. v # 0 /\ ts # v /\ i \in used /\ v <= clock
    BY <1>2, <2>2, <2>3 DEF KnownOK
  <2>5. plan[i].base \in Nat
    BY <1>2, <2>1, Facts, Typed DEF Pending
  <2>6. op[i] = [mut |-> plan[i].mut, item |-> i, kind |-> "upsert", base |-> plan[i].base]
    BY <2>3
  <2>7. OpOK(op[i])
    BY <2>1, <2>3, <2>5, <2>6 DEF OpOK, OpType, Authors, Stamp
  <2> HIDE DEF op
  <2>8. Stamp(op[i]) = v
    BY <1>2, <2>3, <2>6 DEF Stamp
  <2>9. OwnOK(Standing, v, ts, plan[i], FALSE)
    BY <1>2, <2>2 DEF OwnOK
  <2>10. /\ op[i].item = i /\ op[i].kind = "upsert" /\ op[i].mut = plan[i].mut
         /\ op[i].mut[1] \in Clients
    BY <2>3, <2>6
  <2>11. Unsynced(c, i) /\ op[i].mut = c.sync.pending[i].mut
    BY <1>2, <2>4, <2>10 DEF Unsynced
  <2>12. Stamp(op[i]) = c.vault[i] /\ Stamp(op[i]) <= clock
    BY ONLY <2>4, <2>8
  <2>13. OwnOK(Standing, c.vault[i], c.sync.timestamps[i], plan[i], FALSE)
    BY ONLY <2>9, Zenon
  <2> HIDE DEF v, ts, c, plan
  <2> QED BY ONLY <2>4, <2>7, <2>10, <2>11, <2>12, <2>13, Zenon
<1> HIDE DEF op, ops
<1>7. RequestOK(ops)
  <2>1. \A i \in DOMAIN plan : OpOK(op[i])
    BY <1>6
  <2> HIDE DEF plan
  <2> QED BY ONLY <1>4, <1>5, <2>1 DEF RequestOK
<1>8. \A o \in ops : o.item \in used /\ IsOwn(c, o)
  <2> TAKE o \in ops
  <2> DEFINE i == o.item
  <2>1. i \in Items /\ i \in DOMAIN plan /\ o = op[i]
    BY <1>1, <1>5
  <2>2. c.sync.pending[i] # NoPending /\ i \notin c.sync.conflicts
    BY <1>2, <2>1
  <2> HIDE DEF i
  <2>3. /\ i \in used /\ o.mut = c.sync.pending[i].mut /\ Stamp(o) = c.vault[i]
        /\ Unsynced(c, i)
    BY ONLY <1>6, <2>1
  <2>4. IsOwn(c, o)
    BY <2>1, <2>2, <2>3 DEF IsOwn
  <2> QED BY <2>3, <2>4 DEF i
<1>9. ASSUME NEW o \in ops, NEW q \in Standing \cup ops, Stamp(o) # 0, Stamp(o) = Stamp(q)
      PROVE  o.mut = q.mut
  <2>1. o.item \in DOMAIN plan /\ o = op[o.item]
    BY <1>5
  <2>2. CASE q \in Standing
    <3>1. q.mut = plan[o.item].mut
      <4> DEFINE j == o.item
      <4>1. /\ OwnOK(Standing, c.vault[j], c.sync.timestamps[j], plan[j], FALSE)
            /\ c.vault[j] = Stamp(o) /\ Unsynced(c, j)
        <5> HIDE DEF j, c, plan
        <5>1. j \in DOMAIN plan /\ o = op[j]
          BY ONLY <2>1, Zenon DEF j
        <5>2. /\ OwnOK(Standing, c.vault[j], c.sync.timestamps[j], plan[j], FALSE)
              /\ Stamp(op[j]) = c.vault[j] /\ Unsynced(c, j)
          BY ONLY <1>6, <5>1
        <5> QED BY ONLY <5>1, <5>2
      <4> HIDE DEF j
      <4>2. c.vault[j] = Stamp(q) /\ c.vault[j] # 0 /\ c.sync.timestamps[j] # c.vault[j]
        BY ONLY <1>9, <4>1 DEF Unsynced
      <4>3. q.mut = plan[j].mut
        BY ONLY <2>2, <4>1, <4>2 DEF OwnOK
      <4> QED BY ONLY <4>3 DEF j
    <3>2. op[o.item].mut = plan[o.item].mut
      BY ONLY <1>2, <1>6, <2>1
    <3> QED BY ONLY <2>1, <3>1, <3>2
  <2>3. CASE q \in ops
    <3>1. q.item \in DOMAIN plan /\ q = op[q.item]
      BY <1>5, <2>3
    <3>2. /\ o.item \in Items /\ Unsynced(c, o.item) /\ c.vault[o.item] = Stamp(o)
          /\ q.item \in Items /\ Unsynced(c, q.item) /\ c.vault[q.item] = Stamp(q)
      <4>1. Unsynced(c, o.item) /\ Stamp(op[o.item]) = c.vault[o.item]
        BY <1>6, <2>1
      <4>2. Unsynced(c, q.item) /\ Stamp(op[q.item]) = c.vault[q.item]
        BY <1>6, <3>1
      <4> QED BY <1>1, <2>1, <3>1, <4>1, <4>2
    <3>3. ApartOnce(c)
      BY DEF ExtInv
    <3>4. o.item = q.item
      BY <1>9, <3>2, <3>3 DEF ApartOnce
    <3> QED BY <2>1, <3>1, <3>4
  <2> QED BY <2>2, <2>3
<1>10. \A o \in ops : Stamp(o) <= clock /\ (o.mut[1] \in Clients => o.kind = "upsert")
  <2> TAKE o \in ops
  <2>1. o.item \in DOMAIN plan /\ o = op[o.item]
    BY <1>5
  <2>2. Stamp(op[o.item]) <= clock /\ op[o.item].kind = "upsert"
    BY <1>6, <2>1
  <2> QED BY <2>1, <2>2
<1>11. MaySend(ops, clock)
  BY <1>9, <1>10 DEF MaySend
<1> QED BY <1>7, <1>8, <1>11 DEF ops

\* The run ends early: its request may be on its way.
LEMMA StopWorld ==
  ASSUME IsFiniteSet(Items), ExtInv, NEW e \in Clients, ExtStop(e), UNCHANGED <<clock, used>>
  PROVE  WorldOK' /\ \A f \in Clients : ExtOK(feed', clock', used', Standing', f, ext[f])
<1>1. CASE ext[e].pc = "push"
  <2> DEFINE ops == Operations(ext[e].plan)
  <2>1. /\ RequestOK(ops) /\ MaySend(ops, clock) /\ GiveUp(ops)
        /\ \A o \in ops : o.item \in used /\ IsOwn(ext[e], o)
    BY <1>1, PlanRequest DEF ExtStop
  <2> HIDE DEF ops
  <2>2. /\ WorldOK' /\ StoreGrows
        /\ \A o \in Standing' : o \in Standing \/ (o \in ops /\ ~Refused(o))
    BY <2>1, GiveUpWorld DEF ExtInv
  <2>3. clock' \in Nat /\ clock <= clock' /\ used \subseteq used'
    BY Facts
  <2>4. \A o \in Standing' : o \in Standing \/ IsOwn(ext[e], o)
    BY <2>1, <2>2
  <2>5. \A f \in Clients : ExtOK(feed', clock', used', Standing', f, ext[f])
    BY <2>2, <2>3, <2>4, AllKeep
  <2> QED BY <2>2, <2>5
<1>2. CASE ext[e].pc # "push"
  <2>1. UNCHANGED world
    BY <1>2 DEF ExtStop, world
  <2> QED BY <2>1, WorldUnchanged
<1> QED BY <1>1, <1>2

\* Nothing is on its way any more.
LEMMA NoPlan == <<>> \in PlanType
<1>1. <<>> \in [{} -> Pending]
  OBVIOUS
<1>2. {} \in SUBSET Items
  OBVIOUS
<1> QED BY <1>1, <1>2 DEF PlanType

LEMMA FailOK ==
  ASSUME IsFiniteSet(Items), ExtInv, NEW e \in Clients, ExtFail(e)
  PROVE  ExtInv'
<1> DEFINE c == ext[e]
           d == [c EXCEPT !.pc = "idle", !.plan = <<>>]
<1>1. ext' = [ext EXCEPT ![e] = d]
  BY DEF ExtFail
<1>2. WorldOK' /\ \A f \in Clients : ExtOK(feed', clock', used', Standing', f, ext[f])
  BY StopWorld DEF ExtFail
<1>3. c \in ExtType /\ RunOK(c)
  BY Facts
<1>4. <<>> \in PlanType
  BY NoPlan
<1>5. /\ d \in ExtType /\ d.vault = c.vault /\ d.sync = c.sync /\ d.plan = <<>>
      /\ d.pc = "idle"
  BY <1>3, <1>4 DEF ExtType
<1> HIDE DEF d
<1>6. RunOK(d)
  BY <1>5 DEF RunOK
<1> QED BY <1>1, <1>2, <1>5, <1>6, RunStep

LEMMA LockOK ==
  ASSUME IsFiniteSet(Items), ExtInv, NEW e \in Clients, ExtLock(e)
  PROVE  ExtInv'
<1> DEFINE c == ext[e]
           d == [c EXCEPT !.pc = "idle", !.plan = <<>>, !.unlocked = FALSE]
<1>1. ext' = [ext EXCEPT ![e] = d]
  BY DEF ExtLock
<1>2. WorldOK' /\ \A f \in Clients : ExtOK(feed', clock', used', Standing', f, ext[f])
  BY StopWorld DEF ExtLock
<1>3. c \in ExtType /\ RunOK(c)
  BY Facts
<1>4. <<>> \in PlanType
  BY NoPlan
<1>5. /\ d \in ExtType /\ d.vault = c.vault /\ d.sync = c.sync /\ d.plan = <<>>
      /\ d.pc = "idle"
  BY <1>3, <1>4 DEF ExtType
<1> HIDE DEF d
<1>6. RunOK(d)
  BY <1>5 DEF RunOK
<1> QED BY <1>1, <1>2, <1>5, <1>6, RunStep

\* What an answer says of an operation of the plan.
LEMMA AnswerIs ==
  ASSUME NEW s, NEW plan, NEW verdicts, NEW rev, ValidAnswer(s, plan, verdicts, rev),
         NEW i \in DOMAIN plan
  PROVE  LET v == Verdict(verdicts, plan, i)
         IN  /\ v \in verdicts /\ v.op.mut = plan[i].mut
             /\ v.op.item = i /\ v.op.kind = plan[i].kind
             /\ v.status = "applied" => v.rev \in (plan[i].base + 1)..rev
<1>1. \E v \in verdicts : v.op.mut = plan[i].mut
  BY DEF ValidAnswer
<1>2. /\ Verdict(verdicts, plan, i) \in verdicts
      /\ Verdict(verdicts, plan, i).op.mut = plan[i].mut
  BY <1>1 DEF Verdict
<1> QED BY <1>2 DEF ValidAnswer

\* The answer is committed.
LEMMA PushOK ==
  ASSUME IsFiniteSet(Items), ExtInv, NEW e \in Clients, ExtPush(e)
  PROVE  ExtInv'
<1> DEFINE c == ext[e]
           plan == c.plan
           ops == Operations(plan)
           said(i) == Verdict(verdict', plan, i)
           applied == {i \in DOMAIN plan : said(i).status = "applied"}
           s == AfterPush(c.sync, plan, verdict', revision')
           d == [c EXCEPT !.sync = s, !.plan = <<>>, !.pc = "plan"]
<1>1. /\ c.pc = "push" /\ Serve(ops) /\ ValidAnswer(c.sync, plan, verdict', revision')
      /\ ext' = [ext EXCEPT ![e] = d] /\ clock' = clock /\ used' = used
  BY DEF ExtPush
<1>2. /\ c \in ExtType /\ RunOK(c) /\ c.unlocked
      /\ clock \in Nat /\ clock <= MaxEdits /\ used \subseteq Items
  BY <1>1, Facts DEF RunOK, ExtInv, WorldOK
<1>3. /\ DOMAIN plan \subseteq Items
      /\ \A i \in DOMAIN plan : /\ plan[i] = c.sync.pending[i] /\ plan[i] # NoPending
                                /\ plan[i].stamp = c.vault[i] /\ i \notin c.sync.conflicts
  BY <1>2, Typed DEF RunOK
<1>4. /\ RequestOK(ops) /\ MaySend(ops, clock)
      /\ \A o \in ops : o.item \in used /\ IsOwn(c, o)
  BY PlanRequest
<1> HIDE DEF ops
<1>5. /\ WorldOK' /\ StoreGrows
      /\ \A o \in Standing' : o \in Standing \/ (o \in ops /\ ~Refused(o))
  BY <1>1, <1>2, <1>4, ServeWorld DEF ExtInv
<1>6. \A f \in Clients : ExtOK(feed', clock', used', Standing', f, ext[f])
  <2>1. \A o \in Standing' : o \in Standing \/ IsOwn(c, o)
    BY <1>4, <1>5
  <2>2. clock' \in Nat /\ clock <= clock' /\ used \subseteq used'
    BY <1>1, <1>2
  <2> QED BY <1>5, <2>1, <2>2, AllKeep
<1>7. ExtOK(feed', clock', used', Standing', e, c)
  BY <1>6
<1>8. \A i \in DOMAIN plan :
        /\ said(i) \in verdict' /\ said(i).op.mut = plan[i].mut
        /\ said(i).op.item = i /\ said(i).op.kind = plan[i].kind
        /\ said(i).status = "applied" => said(i).rev \in (plan[i].base + 1)..revision'
  BY <1>1, AnswerIs
<1>9. \A i \in DOMAIN plan :
        /\ KnownOK(feed', clock', used', e, i, c.vault[i], c.sync.revisions[i],
                   c.sync.timestamps[i], plan[i], FALSE)
        /\ OwnOK(Standing', c.vault[i], c.sync.timestamps[i], plan[i], FALSE)
        /\ CoverOK(feed', c.sync.cursor, i, c.sync.revisions[i], FALSE)
  <2> TAKE i \in DOMAIN plan
  <2>1. i \in Items /\ plan[i] = c.sync.pending[i] /\ (i \in c.sync.conflicts) = FALSE
    BY <1>3
  <2>2. ItemOK(feed', clock', used', Standing', e, c, i)
    BY <1>7, <2>1 DEF ExtOK
  <2> QED BY <2>1, <2>2 DEF ItemOK
<1>10. \A i \in DOMAIN plan :
         /\ plan[i].kind = "upsert" /\ plan[i].stamp # 0
         /\ plan[i].base = Base(c.sync.revisions[i])
         /\ plan[i].mut[4] = plan[i].stamp
  BY <1>3, <1>9 DEF KnownOK, PendingOK
<1>11. revision' \in Nat /\ \A i \in DOMAIN plan : plan[i].stamp \in Nat /\ plan[i].base \in Nat
  BY <1>2, <1>3, <1>5, Typed DEF Pending, WorldOK, StoreInv
<1>12. \A i \in applied : said(i).rev \in Nat
  BY <1>8, <1>11
<1>13. /\ s.serverRevision = revision' /\ s.cursor = c.sync.cursor
       /\ s.conflicts = c.sync.conflicts \cup (DOMAIN plan \ applied)
       /\ \A i \in Items :
            /\ s.revisions[i] = IF i \in applied THEN said(i).rev ELSE c.sync.revisions[i]
            /\ s.timestamps[i] = IF i \in applied THEN plan[i].stamp
                                 ELSE c.sync.timestamps[i]
            /\ s.pending[i] = IF i \in applied THEN NoPending ELSE c.sync.pending[i]
       /\ s \in SyncState
  <2> DEFINE upserted == {i \in applied : plan[i].kind = "upsert"}
             revisions == [i \in Items |-> IF i \in upserted THEN said(i).rev
                             ELSE IF i \in applied THEN NoRevision ELSE c.sync.revisions[i]]
             timestamps == [i \in Items |-> IF i \in upserted THEN plan[i].stamp
                              ELSE IF i \in applied THEN 0 ELSE c.sync.timestamps[i]]
             pending == [i \in Items |-> IF i \in applied THEN NoPending
                                         ELSE c.sync.pending[i]]
             conflicts == c.sync.conflicts \cup (DOMAIN plan \ applied)
  <2>1. upserted = applied
    BY <1>10
  <2>2. s = [c.sync EXCEPT !.serverRevision = revision', !.revisions = revisions,
                           !.timestamps = timestamps, !.pending = pending,
                           !.conflicts = conflicts]
    BY <1>2, Typed DEF AfterPush, SyncState
  <2> HIDE DEF applied, s, upserted
  <2>3. applied \subseteq DOMAIN plan
    BY DEF applied
  <2>4. revisions \in [Items -> Nat \cup {NoRevision}]
    BY <1>2, <1>12, <2>1, Typed
  <2>5. timestamps \in [Items -> Nat]
    BY <1>2, <1>11, <2>1, <2>3, Typed
  <2>6. NoPending \in Pending
    BY DEF NoPending, Pending
  <2>7. pending \in [Items -> Pending]
    BY <1>2, <2>6, Typed
  <2>8. conflicts \subseteq Items
    BY <1>2, <1>3, Typed
  <2>9. \A i \in Items :
          /\ revisions[i] = IF i \in applied THEN said(i).rev ELSE c.sync.revisions[i]
          /\ timestamps[i] = IF i \in applied THEN plan[i].stamp ELSE c.sync.timestamps[i]
          /\ pending[i] = IF i \in applied THEN NoPending ELSE c.sync.pending[i]
    BY <2>1
  <2> HIDE DEF revisions, timestamps, pending, conflicts
  <2>10. /\ s.serverRevision = revision' /\ s.cursor = c.sync.cursor
         /\ s.revisions = revisions /\ s.timestamps = timestamps /\ s.pending = pending
         /\ s.conflicts = conflicts /\ s \in SyncState
    <3>1. c.sync \in SyncState
      BY <1>2, Typed
    <3> QED BY <1>11, <2>2, <2>4, <2>5, <2>7, <2>8, <3>1 DEF SyncState
  <2> QED BY <2>9, <2>10 DEF conflicts
<1> HIDE DEF s
<1>14. /\ d \in ExtType /\ d.vault = c.vault /\ d.sync = s /\ d.plan = <<>>
       /\ d.pc = "plan" /\ d.unlocked
  BY <1>2, <1>13, NoPlan DEF ExtType
<1> HIDE DEF d, said
<1>15. RunOK(d)
  BY <1>14 DEF RunOK
<1>16. ASSUME NEW i \in Items PROVE ItemOK(feed', clock', used', Standing', e, d, i)
  <2> DEFINE v == c.vault[i]
             rev == c.sync.revisions[i]
             ts == c.sync.timestamps[i]
             q == c.sync.pending[i]
             inConflict == i \in c.sync.conflicts
  <2>1. CASE i \notin DOMAIN plan
    <3>1. /\ KnownOK(feed', clock', used', e, i, v, rev, ts, q, inConflict)
          /\ OwnOK(Standing', v, ts, q, inConflict)
          /\ CoverOK(feed', c.sync.cursor, i, rev, inConflict)
      BY <1>7 DEF ExtOK, ItemOK
    <3>2. i \notin applied /\ (i \in s.conflicts <=> inConflict)
      BY <1>13, <2>1
    <3>3. /\ s.revisions[i] = rev /\ s.timestamps[i] = ts /\ s.pending[i] = q
          /\ s.cursor = c.sync.cursor
      BY <1>13, <3>2
    <3>4. d.vault = c.vault /\ d.sync = s /\ (i \in s.conflicts) = inConflict
      BY <1>14, <3>2
    <3> HIDE DEF c, v, rev, ts, q, inConflict
    <3>5. d.vault[i] = v
      BY ONLY <3>4 DEF v
    <3> QED BY ONLY <3>1, <3>3, <3>4, <3>5 DEF ItemOK
  <2>2. CASE i \in DOMAIN plan /\ i \notin applied
    <3>1. KnownOK(feed', clock', used', e, i, v, rev, ts, plan[i], TRUE)
      <4>1. v # 0 /\ ts # v
        BY <1>3, <1>9, <1>10, <2>2 DEF KnownOK
      <4> QED BY <1>9, <2>2, <4>1 DEF KnownOK
    <3>2. said(i) \in verdict' /\ said(i).op.mut = plan[i].mut /\ said(i).status # "applied"
      BY <1>8, <2>2
    <3>3. \A o \in Standing' : o.mut # plan[i].mut
      BY <3>2 DEF Standing, Refused
    <3>4. OwnOK(Standing', v, ts, plan[i], TRUE)
      BY <1>9, <2>2, <3>3 DEF OwnOK
    <3>5. CoverOK(feed', c.sync.cursor, i, rev, TRUE)
      BY DEF CoverOK
    <3>6. i \in s.conflicts /\ plan[i] = q
      BY <1>3, <1>13, <2>2
    <3> QED BY <1>13, <1>14, <2>2, <3>1, <3>4, <3>5, <3>6 DEF ItemOK
  <2>3. CASE i \in applied
    <3> DEFINE w == said(i)
    <3>1. /\ i \in DOMAIN plan /\ w \in verdict' /\ w.op.mut = plan[i].mut
          /\ w.op.item = i /\ w.op.kind = "upsert" /\ w.status = "applied"
          /\ w.rev \in (plan[i].base + 1)..revision'
      BY <1>8, <1>10, <2>3
    <3> HIDE DEF w, applied
    <3>2. \E k \in 1..Len(feed') : feed'[k] = ChangeOf(w.op, w.rev)
      BY <1>5, <3>1 DEF WorldOK, StoreInv, VerdictsStand
    <3>3. Stamp(w.op) = v /\ plan[i].stamp = v /\ v # 0
      BY <1>3, <1>10, <3>1 DEF Stamp
    <3>4. \E k \in 1..Len(feed') :
            feed'[k] = [item |-> i, kind |-> "upsert", rev |-> w.rev, stamp |-> v]
      BY <3>1, <3>2, <3>3 DEF ChangeOf
    <3>5. w.rev \in Nat /\ rev \in Nat \cup {NoRevision} /\ w.rev >= rev
      <4>1. rev \in Nat \cup {NoRevision}
        BY <1>2, Typed
      <4>2. plan[i].base \in Nat /\ plan[i].base = Base(rev)
        BY <1>10, <1>11, <3>1
      <4> QED BY <1>11, <3>1, <4>1, <4>2 DEF Base, NoRevision
    <3>6. KnownOK(feed', clock', used', e, i, v, w.rev, v, NoPending, FALSE)
      <4>1. v <= clock' /\ i \in used'
        BY <1>9, <3>1, <3>3 DEF KnownOK
      <4>2. w.rev # NoRevision
        BY <3>5 DEF NoRevision
      <4> QED BY <3>3, <3>4, <4>1, <4>2 DEF KnownOK, PendingOK
    <3>7. OwnOK(Standing', v, v, NoPending, FALSE)
      BY DEF OwnOK
    <3>8. CoverOK(feed', c.sync.cursor, i, w.rev, FALSE)
      <4> SUFFICES ASSUME NEW k \in 1..c.sync.cursor, feed'[k].item = i
                   PROVE  \/ w.rev >= feed'[k].rev
                          \/ \E l \in k..Len(feed') :
                               feed'[l].item = i /\ feed'[l].kind = "delete"
        BY DEF CoverOK
      <4>1. \/ rev >= feed'[k].rev
            \/ \E l \in k..Len(feed') : feed'[l].item = i /\ feed'[l].kind = "delete"
        BY <1>9, <3>1 DEF CoverOK
      <4>2. feed'[k].rev \in Nat
        <5>1. k \in 1..Len(feed')
          BY <1>2, <1>7, Typed DEF ExtOK, StoreGrows
        <5>2. feed' \in Seq(ChangeType)
          BY <1>5 DEF WorldOK, StoreInv, FeedInOrder
        <5>3. feed'[k] \in ChangeType
          BY <5>1, <5>2
        <5> QED BY <5>3 DEF ChangeType
      <4> QED BY <3>5, <4>1, <4>2 DEF NoRevision
    <3>9. (i \in s.conflicts) = FALSE
      BY <1>3, <1>13, <2>3, <3>1
    <3>10. s.revisions[i] = w.rev /\ s.timestamps[i] = v /\ s.pending[i] = NoPending
      BY <1>13, <2>3, <3>3 DEF w
    <3> QED BY <1>13, <1>14, <3>6, <3>7, <3>8, <3>9, <3>10, Zenon DEF ItemOK
  <2> QED BY <2>1, <2>2, <2>3
<1>17. ExtOK(feed', clock', used', Standing', e, d)
  BY <1>7, <1>13, <1>14, <1>15, <1>16 DEF ExtOK
<1>18. Moves(c, d, e)
  BY <1>3, <1>13, <1>14 DEF Moves, Unsynced
<1> QED BY <1>1, <1>5, <1>6, <1>17, <1>18, ExtMoves

----------------------------------------------------------------------------
(* A page.                                                                  *)

\* The replicas of a page: the first is what is stored, the last what is committed.
LEMMA ReplayIs ==
  ASSUME NEW vault, NEW s, NEW page, NEW N \in Nat, N = Len(page)
  PROVE  \E r : /\ r[0] = [vault |-> vault, sync |-> s]
                /\ \A k \in 0..N : k < N => r[k + 1] = ApplyChange(r[k], page[k + 1])
                /\ Replay(vault, s, page) = r[N]
<1> DEFINE start == [vault |-> vault, sync |-> s]
           Next1(r, k) == IF k = 0 THEN start ELSE ApplyChange(r[k - 1], page[k])
           IsReplay(r, n) == r = [k \in 0..n |-> Next1(r, k)]
           T == {n \in 0..N : \E r : IsReplay(r, n)}
<1>1. 0 \in T
  <2> DEFINE r == [k \in 0..0 |-> start]
  <2>1. IsReplay(r, 0)
    OBVIOUS
  <2> HIDE DEF r, IsReplay
  <2> QED BY <2>1
<1>2. ASSUME NEW n \in 0..N, n < N, n \in T PROVE n + 1 \in T
  <2>1. PICK f : IsReplay(f, n)
    BY <1>2
  <2> DEFINE r == [k \in 0..n + 1 |-> IF k = n + 1 THEN ApplyChange(f[n], page[n + 1]) ELSE f[k]]
  <2>2. \A k \in 0..n : r[k] = f[k] /\ f[k] = Next1(f, k)
    BY <2>1
  <2>3. ASSUME NEW k \in 0..n + 1 PROVE r[k] = Next1(r, k)
    <3>1. CASE k = 0
      <4>1. 0 \in 0..n
        BY <1>2
      <4> QED BY <2>2, <3>1, <4>1
    <3>2. CASE k = n + 1
      <4>1. r[k] = ApplyChange(f[n], page[n + 1]) /\ n \in 0..n /\ k - 1 = n /\ k # 0
        BY <3>2
      <4> QED BY <2>2, <3>2, <4>1
    <3>3. CASE k \in 1..n
      <4>1. k \in 0..n /\ k - 1 \in 0..n /\ k # 0
        BY <3>3
      <4>2. r[k] = f[k] /\ f[k] = Next1(f, k) /\ r[k - 1] = f[k - 1]
        BY <2>2, <4>1
      <4> HIDE DEF r
      <4> QED BY <4>1, <4>2
    <3>4. k = 0 \/ k = n + 1 \/ k \in 1..n
      BY <2>3
    <3> QED BY <3>1, <3>2, <3>3, <3>4
  <2>4. r = [k \in 0..n + 1 |-> r[k]]
    OBVIOUS
  <2>5. IsReplay(r, n + 1)
    <3> HIDE DEF r, Next1
    <3> QED BY <2>3, <2>4
  <2> HIDE DEF r, IsReplay
  <2> QED BY <1>2, <2>5
<1>3. \A n \in 0..N : n \in T
  <2> HIDE DEF T
  <2> QED BY <1>1, <1>2, UpToInduction
<1>4. \E r : IsReplay(r, N)
  BY <1>3
<1> DEFINE g == CHOOSE r : IsReplay(r, N)
<1>5. IsReplay(g, N)
  <2> HIDE DEF IsReplay
  <2> QED BY <1>4
<1>6. Replay(vault, s, page) = g[N]
  BY DEF Replay
<1> HIDE DEF g
<1>7. g[0] = start /\ \A k \in 0..N : k < N => g[k + 1] = ApplyChange(g[k], page[k + 1])
  <2>1. \A k \in 0..N : g[k] = Next1(g, k)
    BY <1>5
  <2>2. g[0] = start
    BY <2>1
  <2>3. ASSUME NEW k \in 0..N, k < N PROVE g[k + 1] = ApplyChange(g[k], page[k + 1])
    <3>1. k + 1 \in 0..N /\ k + 1 # 0 /\ (k + 1) - 1 = k
      BY <2>3
    <3>2. g[k + 1] = Next1(g, k + 1)
      BY <2>1, <3>1
    <3> QED BY <3>1, <3>2
  <2> QED BY <2>2, <2>3
<1> QED BY <1>6, <1>7

\* A replica r that has read n changes: items in conflict are as they were, the others
\* are synced and cover what was read.
Replicas == [vault: Vault, sync: SyncState]
ReadItemOK(e, n, r, i) ==
  LET s == ext[e].sync
      inConflict == i \in s.conflicts
      v == r.vault[i]
      rev == r.sync.revisions[i]
      ts == r.sync.timestamps[i]
  IN  /\ KnownOK(feed, clock, used, e, i, v, rev, ts, s.pending[i], inConflict)
      /\ inConflict => v = ext[e].vault[i] /\ ts = s.timestamps[i]
      /\ ~inConflict => v = 0 \/ v = ts
      /\ CoverOK(feed, n, i, rev, inConflict)
ReadOK(e, n, r) ==
  /\ r \in Replicas
  /\ r.sync.pending = ext[e].sync.pending /\ r.sync.conflicts = ext[e].sync.conflicts
  /\ \A i \in Items : ReadItemOK(e, n, r, i)

\* The version of a change was made.
LEMMA ChangeIs ==
  ASSUME WorldOK, NEW k \in 1..Len(feed)
  PROVE  /\ feed[k] \in ChangeType /\ feed[k].stamp <= clock /\ feed[k].item \in used
         /\ feed[k].kind = "upsert" <=> feed[k].stamp # 0
         /\ feed[k].rev \in 1..revision
<1>1. /\ feed[k] \in ChangeType /\ feed[k].item \in used
      /\ feed[k].kind = "upsert" <=> feed[k].stamp # 0
      /\ feed[k].rev <= revision
  BY DEF WorldOK, StoreInv, FeedInOrder
<1>2. PICK v \in verdict : feed[k] = ChangeOf(v.op, v.rev)
  BY DEF WorldOK, FeedIsDecided
<1>3. v.op \in Sent
  BY DEF Sent
<1>4. feed[k].stamp <= clock
  BY <1>2, <1>3 DEF WorldOK, ChangeOf
<1> QED BY <1>1, <1>4 DEF ChangeType, WorldOK, StoreInv

\* Reading one more change.
LEMMA ReadStep ==
  ASSUME ExtInv, NEW e \in Clients, ext[e].pc = "pull",
         NEW n \in 0..Len(feed), n < Len(feed), NEW r, ReadOK(e, n, r)
  PROVE  ReadOK(e, n + 1, ApplyChange(r, feed[n + 1]))
<1> DEFINE c == ext[e]
           m == n + 1
           change == feed[m]
           j == change.item
           stamp == change.stamp
           rev == IF change.kind = "upsert" THEN change.rev ELSE NoRevision
           skip == \/ r.sync.pending[j] # NoPending \/ j \in r.sync.conflicts
                   \/ r.sync.revisions[j] > change.rev
           after == ApplyChange(r, change)
<1>1. Len(feed) \in Nat /\ n \in Nat /\ m \in 1..Len(feed)
  BY Facts
<1>2. /\ change \in ChangeType /\ stamp <= clock /\ j \in used
      /\ change.kind = "upsert" <=> stamp # 0
  BY <1>1, ChangeIs DEF ExtInv
<1>3. /\ j \in Items /\ change.rev \in Nat \ {0} /\ stamp \in Nat
      /\ change.kind \in {"upsert", "delete"}
  BY <1>2 DEF ChangeType
<1>4. /\ r \in Replicas /\ r.sync.pending = c.sync.pending
      /\ r.sync.conflicts = c.sync.conflicts
      /\ \A i \in Items : ReadItemOK(e, n, r, i)
  BY DEF ReadOK
<1>5. ASSUME NEW i \in Items, i # j PROVE ReadItemOK(e, m, r, i)
  <2> DEFINE known == r.sync.revisions[i]
             inConflict == i \in c.sync.conflicts
  <2>1. CoverOK(feed, n, i, known, inConflict)
    BY <1>4 DEF ReadItemOK
  <2>2. CoverOK(feed, m, i, known, inConflict)
    <3> SUFFICES ASSUME ~inConflict, NEW k \in 1..m, feed[k].item = i
                 PROVE  \/ known >= feed[k].rev
                        \/ \E l \in k..Len(feed) : feed[l].item = i /\ feed[l].kind = "delete"
      BY DEF CoverOK
    <3>1. k \in 1..n
      BY <1>1, <1>5
    <3> QED BY <2>1, <3>1 DEF CoverOK
  <2>3. ReadItemOK(e, n, r, i)
    BY <1>4
  <2> QED BY <2>2, <2>3 DEF ReadItemOK
<1>6. CASE skip
  <2>1. after = r
    BY <1>6 DEF ApplyChange
  <2>2. ReadItemOK(e, m, r, j)
    <3> DEFINE known == r.sync.revisions[j]
               inConflict == j \in c.sync.conflicts
    <3>1. ReadItemOK(e, n, r, j)
      BY <1>3, <1>4
    <3>2. CoverOK(feed, m, j, known, inConflict)
      <4> SUFFICES ASSUME ~inConflict, NEW k \in 1..m, feed[k].item = j
                   PROVE  \/ known >= feed[k].rev
                          \/ \E l \in k..Len(feed) : feed[l].item = j /\ feed[l].kind = "delete"
        BY DEF CoverOK
      <4>1. CASE k \in 1..n
        BY <3>1, <4>1 DEF ReadItemOK, CoverOK
      <4>2. CASE k = m
        <5>1. c.sync.pending[j] = NoPending
          BY <1>3, Facts DEF RunOK
        <5>2. known > change.rev
          BY <1>4, <1>6, <5>1
        <5>3. known \in Nat \cup {NoRevision}
          BY <1>3, <1>4 DEF Replicas, SyncState
        <5> QED BY <1>3, <4>2, <5>2, <5>3 DEF NoRevision
      <4> QED BY <1>1, <4>1, <4>2
    <3> QED BY <3>1, <3>2 DEF ReadItemOK
  <2> HIDE DEF after
  <2>3. \A i \in Items : ReadItemOK(e, m, r, i)
    BY <1>5, <2>2
  <2> QED BY <1>4, <2>1, <2>3 DEF ReadOK, after
<1>7. CASE ~skip
  <2> DEFINE vault == [r.vault EXCEPT ![j] = stamp]
             revisions == [r.sync.revisions EXCEPT ![j] = rev]
             timestamps == [r.sync.timestamps EXCEPT ![j] = stamp]
             s == [r.sync EXCEPT !.revisions = revisions, !.timestamps = timestamps]
  <2>1. /\ r.vault \in Vault /\ r.sync \in SyncState
        /\ r.sync.revisions \in [Items -> Nat \cup {NoRevision}]
        /\ r.sync.timestamps \in [Items -> Nat]
    BY <1>4 DEF Replicas, SyncState
  <2>2. after = [r EXCEPT !.vault = vault, !.sync = s]
    BY <1>4, <1>7, <2>1 DEF ApplyChange, Replicas, SyncState
  <2>3. /\ vault \in Vault /\ revisions \in [Items -> Nat \cup {NoRevision}]
        /\ timestamps \in [Items -> Nat]
    BY <1>3, <2>1 DEF Vault
  <2>4. /\ vault[j] = stamp /\ revisions[j] = rev /\ timestamps[j] = stamp
        /\ \A i \in Items : i # j => /\ vault[i] = r.vault[i]
                                     /\ revisions[i] = r.sync.revisions[i]
                                     /\ timestamps[i] = r.sync.timestamps[i]
    BY <1>3, <2>1 DEF Vault
  <2> HIDE DEF vault, revisions, timestamps
  <2>5. /\ s \in SyncState /\ s.revisions = revisions /\ s.timestamps = timestamps
        /\ s.pending = c.sync.pending /\ s.conflicts = c.sync.conflicts
    BY <1>4, <2>1, <2>3 DEF SyncState
  <2> HIDE DEF s, after
  <2>6. after \in Replicas /\ after.vault = vault /\ after.sync = s
    BY <1>4, <2>2, <2>3, <2>5 DEF Replicas
  <2>7. ReadItemOK(e, m, after, j)
    <3>1. c.sync.pending[j] = NoPending /\ (j \in c.sync.conflicts) = FALSE
      BY <1>4, <1>7
    <3>2. KnownOK(feed, clock, used, e, j, stamp, rev, stamp, NoPending, FALSE)
      <4>1. stamp = 0 => rev = NoRevision
        BY <1>2
      <4>2. stamp # 0 =>
              /\ rev # NoRevision
              /\ \E k \in 1..Len(feed) :
                   feed[k] = [item |-> j, kind |-> "upsert", rev |-> rev, stamp |-> stamp]
        <5> SUFFICES ASSUME stamp # 0
                     PROVE  /\ rev # NoRevision
                            /\ \E k \in 1..Len(feed) :
                                 feed[k] = [item |-> j, kind |-> "upsert", rev |-> rev,
                                            stamp |-> stamp]
          OBVIOUS
        <5>1. change.kind = "upsert" /\ rev = change.rev /\ rev # NoRevision
          BY <1>2, <1>3 DEF NoRevision
        <5>2. change = [item |-> j, kind |-> "upsert", rev |-> rev, stamp |-> stamp]
          BY <1>2, <5>1 DEF ChangeType
        <5> HIDE DEF change, stamp, rev, j
        <5>3. feed[m] = [item |-> j, kind |-> "upsert", rev |-> rev, stamp |-> stamp]
          BY <5>2 DEF change
        <5> QED BY <1>1, <5>1, <5>3
      <4> QED BY <1>2, <4>1, <4>2 DEF KnownOK, PendingOK
    <3>3. CoverOK(feed, m, j, rev, FALSE)
      <4> SUFFICES ASSUME NEW k \in 1..m, feed[k].item = j
                   PROVE  \/ rev >= feed[k].rev
                          \/ \E l \in k..Len(feed) : feed[l].item = j /\ feed[l].kind = "delete"
        BY DEF CoverOK
      <4>1. CASE change.kind = "delete"
        <5>1. m \in k..Len(feed)
          BY <1>1
        <5> QED BY <4>1, <5>1
      <4>2. CASE change.kind = "upsert"
        <5>1. k \in 1..Len(feed) /\ (k < m \/ k = m)
          BY <1>1
        <5>2. feed[k].rev <= change.rev
          <6>1. CASE k = m
            BY <1>3, <6>1
          <6>2. CASE k < m
            BY <1>1, <5>1, <6>2 DEF ExtInv, WorldOK, StoreInv, FeedInOrder
          <6> QED BY <5>1, <6>1, <6>2
        <5>3. feed[k].rev \in Nat
          BY <5>1, ChangeIs DEF ExtInv, ChangeType
        <5> QED BY <1>3, <4>2, <5>2, <5>3
      <4> QED BY <1>3, <4>1, <4>2
    <3> HIDE DEF stamp, rev, j
    <3> QED BY <2>4, <2>5, <2>6, <3>1, <3>2, <3>3, Zenon DEF ReadItemOK
  <2>8. ASSUME NEW i \in Items, i # j PROVE ReadItemOK(e, m, after, i)
    <3>1. ReadItemOK(e, m, r, i)
      BY <1>5, <2>8
    <3>2. /\ after.vault[i] = r.vault[i] /\ after.sync.revisions[i] = r.sync.revisions[i]
          /\ after.sync.timestamps[i] = r.sync.timestamps[i]
      BY <2>4, <2>5, <2>6, <2>8
    <3> QED BY <3>1, <3>2 DEF ReadItemOK
  <2> QED BY <2>5, <2>6, <2>7, <2>8 DEF ReadOK, after
<1> QED BY <1>6, <1>7

\* Reading a page.
LEMMA ReadPage ==
  ASSUME ExtInv, NEW e \in Clients, ext[e].pc = "pull"
  PROVE  LET s == ext[e].sync
         IN  /\ PageEnd(feed, s.cursor) \in s.cursor..Len(feed)
             /\ ReadOK(e, PageEnd(feed, s.cursor),
                       Replay(ext[e].vault, s, Page(feed, s.cursor)))
<1> DEFINE c == ext[e]
           s == c.sync
           cursor == s.cursor
           end == PageEnd(feed, cursor)
           page == Page(feed, cursor)
           N == end - cursor
           start == [vault |-> c.vault, sync |-> s]
<1>1. /\ cursor \in 0..Len(feed) /\ c \in ExtType /\ RunOK(c) /\ Len(feed) \in Nat
      /\ \A i \in Items : ItemOK(feed, clock, used, Standing, e, c, i)
  BY Facts
<1>2. /\ end \in cursor..Len(feed) /\ Len(page) = N
      /\ \A k \in 1..N : page[k] = feed[cursor + k]
  BY <1>1, PageIsPart DEF ExtInv, WorldOK
<1> HIDE DEF end, page
<1>3. N \in Nat /\ N = end - cursor /\ Len(page) = N /\ \A k \in 1..N : page[k] = feed[cursor + k]
  BY <1>1, <1>2
<1> HIDE DEF N
<1>4. PICK r : /\ r[0] = start
               /\ \A k \in 0..N : k < N => r[k + 1] = ApplyChange(r[k], page[k + 1])
               /\ Replay(c.vault, s, page) = r[N]
  <2> HIDE DEF start
  <2>1. \E r : /\ r[0] = [vault |-> c.vault, sync |-> s]
               /\ \A k \in 0..N : k < N => r[k + 1] = ApplyChange(r[k], page[k + 1])
               /\ Replay(c.vault, s, page) = r[N]
    <3> HIDE DEF c, s
    <3> QED BY <1>3, ReplayIs
  <2> QED BY <2>1 DEF start
<1>5. ReadOK(e, cursor, start)
  <2>1. start \in Replicas /\ start.vault = c.vault /\ start.sync = s
    BY <1>1, Typed DEF Replicas, ExtType
  <2> HIDE DEF start
  <2>2. ASSUME NEW i \in Items PROVE ReadItemOK(e, cursor, start, i)
    <3>1. ItemOK(feed, clock, used, Standing, e, c, i)
      BY <1>1
    <3>2. i \notin s.conflicts => c.vault[i] = 0 \/ c.vault[i] = s.timestamps[i]
      BY <1>1 DEF RunOK
    <3> QED BY <2>1, <3>1, <3>2 DEF ItemOK, ReadItemOK
  <2> QED BY <2>1, <2>2 DEF ReadOK
<1> DEFINE T == {k \in 0..N : ReadOK(e, cursor + k, r[k])}
<1>6. 0 \in T
  <2>1. cursor + 0 = cursor /\ 0 \in 0..N
    BY <1>1, <1>3
  <2> QED BY <1>4, <1>5, <2>1
<1>7. ASSUME NEW k \in 0..N, k < N, k \in T PROVE k + 1 \in T
  <2>1. /\ k + 1 \in 1..N /\ k + 1 \in 0..N /\ cursor + k \in 0..Len(feed)
        /\ cursor + k < Len(feed) /\ cursor + (k + 1) = (cursor + k) + 1
    <3>1. cursor \in Nat /\ end \in Nat /\ Len(feed) \in Nat /\ end <= Len(feed)
      BY <1>1, <1>2
    <3>2. k \in Nat /\ k < N /\ N \in Nat /\ N = end - cursor
      BY <1>3, <1>7
    <3>3. k + 1 \in 0..N /\ k + 1 \in 1..N
      BY ONLY <3>2
    <3> HIDE DEF N
    <3>4. cursor + k \in Nat /\ cursor + k < end
      BY ONLY <3>1, <3>2
    <3>5. cursor + k \in 0..Len(feed) /\ cursor + k < Len(feed)
      BY ONLY <3>1, <3>4
    <3>6. cursor + (k + 1) = (cursor + k) + 1
      BY ONLY <3>1, <3>2
    <3> QED BY ONLY <3>3, <3>5, <3>6
  <2>2. ReadOK(e, cursor + k, r[k])
    BY <1>7
  <2>3. ReadOK(e, (cursor + k) + 1, ApplyChange(r[k], feed[(cursor + k) + 1]))
    BY <2>1, <2>2, ReadStep
  <2>4. r[k + 1] = ApplyChange(r[k], feed[(cursor + k) + 1])
    BY <1>3, <1>4, <1>7, <2>1
  <2> QED BY <2>1, <2>3, <2>4
<1>8. \A k \in 0..N : k \in T
  <2> HIDE DEF T, N
  <2> QED BY <1>3, <1>6, <1>7, UpToInduction
<1>9. ReadOK(e, cursor + N, r[N])
  BY <1>3, <1>8
<1>10. cursor + N = end
  BY <1>1, <1>2, <1>3
<1> QED BY <1>2, <1>4, <1>9, <1>10 DEF end, page

LEMMA PullOK ==
  ASSUME ExtInv, NEW e \in Clients, ExtPull(e)
  PROVE  ExtInv'
<1> DEFINE c == ext[e]
           end == PageEnd(feed, c.sync.cursor)
           r == Replay(c.vault, c.sync, Page(feed, c.sync.cursor))
           after == AfterPage(c.vault, c.sync, feed, revision)
           pc == IF HasMore(feed, c.sync.cursor) THEN "pull" ELSE "idle"
           d == [c EXCEPT !.vault = after.vault, !.sync = after.sync, !.pc = pc]
           s == [r.sync EXCEPT !.serverRevision = revision, !.cursor = end]
<1>1. c.pc = "pull" /\ UNCHANGED world /\ ext' = [ext EXCEPT ![e] = d]
  BY DEF ExtPull
<1>2. end \in c.sync.cursor..Len(feed) /\ ReadOK(e, end, r)
  BY <1>1, ReadPage
<1>3. /\ c \in ExtType /\ RunOK(c) /\ c.sync.cursor \in Nat /\ Len(feed) \in Nat
      /\ revision \in Nat /\ c.unlocked /\ c.plan = <<>>
  BY <1>1, Facts DEF ExtInv, WorldOK, StoreInv, RunOK
<1>4. /\ r \in Replicas /\ r.sync.pending = c.sync.pending
      /\ r.sync.conflicts = c.sync.conflicts
      /\ \A i \in Items : ReadItemOK(e, end, r, i)
  BY <1>2 DEF ReadOK
<1>5. after.vault = r.vault /\ after.sync = s
  <2> HIDE DEF end
  <2>1. after = [r EXCEPT !.sync.serverRevision = revision, !.sync.cursor = end]
    BY DEF AfterPage, end
  <2> HIDE DEF r, after
  <2> QED BY <1>4, <2>1 DEF Replicas
<1> HIDE DEF end, r, after
<1>6. end \in Nat /\ end <= Len(feed)
  BY <1>2, <1>3
<1>7. /\ s \in SyncState /\ s.cursor = end /\ s.pending = c.sync.pending
      /\ s.conflicts = c.sync.conflicts /\ s.revisions = r.sync.revisions
      /\ s.timestamps = r.sync.timestamps
  BY <1>3, <1>4, <1>6 DEF Replicas, SyncState
<1> HIDE DEF s
<1>8. /\ d \in ExtType /\ d.vault = r.vault /\ d.sync = s /\ d.plan = <<>>
      /\ d.pc = pc /\ d.unlocked
  BY <1>3, <1>4, <1>5, <1>7 DEF ExtType, Replicas
<1> HIDE DEF d
<1>9. \A i \in Items \ c.sync.conflicts :
        /\ c.sync.pending[i] = NoPending
        /\ r.vault[i] # 0 => r.vault[i] = r.sync.timestamps[i]
  BY <1>1, <1>3, <1>4 DEF RunOK, ReadItemOK
<1>10. RunOK(d)
  BY <1>7, <1>8, <1>9 DEF RunOK
<1>11. /\ WorldOK' /\ feed' = feed /\ Standing' = Standing
       /\ \A f \in Clients : ExtOK(feed', clock', used', Standing', f, ext[f])
  BY <1>1, WorldUnchanged
<1>12. clock' = clock /\ used' = used
  BY <1>1 DEF world
<1>13. ASSUME NEW i \in Items PROVE ItemOK(feed', clock', used', Standing', e, d, i)
  <2>1. ReadItemOK(e, end, r, i)
    BY <1>4
  <2>2. /\ KnownOK(feed', clock', used', e, i, d.vault[i], d.sync.revisions[i],
                   d.sync.timestamps[i], d.sync.pending[i], i \in d.sync.conflicts)
        /\ CoverOK(feed', d.sync.cursor, i, d.sync.revisions[i], i \in d.sync.conflicts)
    BY <1>7, <1>8, <1>11, <1>12, <2>1 DEF ReadItemOK
  <2>3. OwnOK(Standing', d.vault[i], d.sync.timestamps[i], d.sync.pending[i],
              i \in d.sync.conflicts)
    <3>1. CASE i \in c.sync.conflicts
      <4>1. /\ d.vault[i] = c.vault[i] /\ d.sync.timestamps[i] = c.sync.timestamps[i]
            /\ d.sync.pending[i] = c.sync.pending[i] /\ d.sync.conflicts = c.sync.conflicts
        BY <1>7, <1>8, <2>1, <3>1 DEF ReadItemOK
      <4>2. OwnOK(Standing, c.vault[i], c.sync.timestamps[i], c.sync.pending[i],
                  i \in c.sync.conflicts)
        BY Facts DEF ItemOK
      <4> QED BY <1>11, <4>1, <4>2
    <3>2. CASE i \notin c.sync.conflicts
      <4>1. d.vault[i] # 0 => d.vault[i] = d.sync.timestamps[i]
        BY <1>7, <1>8, <1>9, <3>2
      <4> QED BY <4>1 DEF OwnOK
    <3> QED BY <3>1, <3>2
  <2> QED BY <2>2, <2>3 DEF ItemOK
<1>14. ExtOK(feed', clock', used', Standing', e, d)
  BY <1>6, <1>7, <1>8, <1>10, <1>11, <1>13 DEF ExtOK
<1>15. Moves(c, d, e)
  <2>1. \A i \in Items : i \in c.sync.conflicts =>
          r.vault[i] = c.vault[i] /\ r.sync.timestamps[i] = c.sync.timestamps[i]
    BY <1>4 DEF ReadItemOK
  <2> QED BY <1>7, <1>8, <1>9, <2>1 DEF Moves, Unsynced
<1> QED BY <1>1, <1>11, <1>14, <1>15, ExtMoves

----------------------------------------------------------------------------
(* A conflict is settled.                                                   *)

\* The last change of an item.
LEMMA RemoteIs ==
  ASSUME WorldOK, NEW i, HasRemote(feed, i)
  PROVE  \E k \in 1..Len(feed) : /\ Remote(feed, i) = feed[k] /\ feed[k].item = i
                                 /\ \A l \in 1..Len(feed) : feed[l].item = i => l <= k
<1> DEFINE T == {k \in 1..Len(feed) : feed[k].item = i}
           IsLast(k) == feed[k].item = i /\ \A l \in DOMAIN feed : feed[l].item = i => l <= k
<1>1. Len(feed) \in Nat /\ DOMAIN feed = 1..Len(feed)
  BY DEF WorldOK, StoreInv, FeedInOrder
<1>2. T \in SUBSET Nat /\ T # {} /\ \A t \in T : t <= Len(feed)
  BY <1>1 DEF HasRemote
<1>3. \E k \in T : \A t \in T : t <= k
  <2> HIDE DEF T
  <2> QED BY <1>1, <1>2, MaximumExists
<1>4. \E k \in DOMAIN feed : IsLast(k)
  BY <1>1, <1>3
<1> DEFINE m == CHOOSE k \in DOMAIN feed : IsLast(k)
<1>5. m \in DOMAIN feed /\ IsLast(m)
  <2> HIDE DEF IsLast
  <2> QED BY <1>4
<1>6. Remote(feed, i) = feed[m]
  BY DEF Remote
<1> HIDE DEF m
<1> QED BY <1>1, <1>5, <1>6

\* A revision that is at least that of the last change, or the last is a deletion, covers
\* every cursor.
LEMMA LastCovers ==
  ASSUME WorldOK, NEW cursor \in 0..Len(feed), NEW i \in Items,
         NEW rev \in Nat \cup {NoRevision},
         HasRemote(feed, i) => Remote(feed, i).kind = "delete" \/ rev = Remote(feed, i).rev
  PROVE  CoverOK(feed, cursor, i, rev, FALSE)
<1> SUFFICES ASSUME NEW k \in 1..cursor, feed[k].item = i
             PROVE  \/ rev >= feed[k].rev
                    \/ \E l \in k..Len(feed) : feed[l].item = i /\ feed[l].kind = "delete"
  BY DEF CoverOK
<1>1. Len(feed) \in Nat /\ DOMAIN feed = 1..Len(feed)
  BY DEF WorldOK, StoreInv, FeedInOrder
<1>2. k \in 1..Len(feed) /\ HasRemote(feed, i)
  BY <1>1 DEF HasRemote
<1>3. PICK m \in 1..Len(feed) : /\ Remote(feed, i) = feed[m] /\ feed[m].item = i
                                /\ \A l \in 1..Len(feed) : feed[l].item = i => l <= m
  BY <1>2, RemoteIs
<1>4. k <= m
  BY <1>2, <1>3
<1>5. CASE feed[m].kind = "delete"
  <2>1. m \in k..Len(feed)
    BY <1>1, <1>2, <1>4
  <2> QED BY <1>3, <1>5, <2>1
<1>6. CASE feed[m].kind # "delete"
  <2>1. rev = feed[m].rev
    BY <1>2, <1>3, <1>6
  <2>2. feed[k].rev <= feed[m].rev
    <3>1. CASE k = m
      BY <1>2, <3>1, ChangeIs DEF ChangeType
    <3>2. CASE k < m
      BY <1>2, <3>2 DEF WorldOK, StoreInv, FeedInOrder
    <3> QED BY <1>1, <1>2, <1>4, <3>1, <3>2
  <2>3. feed[k].rev \in Nat /\ feed[m].rev \in Nat
    BY <1>2, <1>3, ChangeIs DEF ChangeType
  <2> QED BY <2>1, <2>2, <2>3
<1> QED BY <1>5, <1>6

\* What settling leaves of the sync state.
IsSettled(s, t, i, rev, stamp) ==
  /\ t \in SyncState /\ t.cursor = s.cursor /\ t.conflicts = s.conflicts \ {i}
  /\ t.revisions[i] = rev /\ t.timestamps[i] = stamp /\ t.pending[i] = NoPending
  /\ \A j \in Items : j # i =>
       /\ t.revisions[j] = s.revisions[j] /\ t.timestamps[j] = s.timestamps[j]
       /\ t.pending[j] = s.pending[j]

LEMMA SettledIs ==
  ASSUME NEW s \in SyncState, NEW i \in Items, NEW rev \in Nat \cup {NoRevision},
         NEW stamp \in Nat
  PROVE  IsSettled(s, Settled(s, i, rev, stamp), i, rev, stamp)
<1> DEFINE revisions == [s.revisions EXCEPT ![i] = rev]
           timestamps == [s.timestamps EXCEPT ![i] = stamp]
           pending == [s.pending EXCEPT ![i] = NoPending]
           t == Settled(s, i, rev, stamp)
<1>1. NoPending \in Pending
  BY DEF NoPending, Pending
<1>2. /\ s.revisions \in [Items -> Nat \cup {NoRevision}]
      /\ s.timestamps \in [Items -> Nat] /\ s.pending \in [Items -> Pending]
      /\ s.conflicts \subseteq Items
  BY DEF SyncState
<1>3. t = [s EXCEPT !.revisions = revisions, !.timestamps = timestamps, !.pending = pending,
                    !.conflicts = s.conflicts \ {i}]
  BY DEF Settled, SyncState
<1>4. /\ revisions \in [Items -> Nat \cup {NoRevision}]
      /\ timestamps \in [Items -> Nat] /\ pending \in [Items -> Pending]
      /\ s.conflicts \ {i} \subseteq Items
  BY <1>1, <1>2
<1>5. /\ revisions[i] = rev /\ timestamps[i] = stamp /\ pending[i] = NoPending
      /\ \A j \in Items : j # i =>
           /\ revisions[j] = s.revisions[j] /\ timestamps[j] = s.timestamps[j]
           /\ pending[j] = s.pending[j]
  BY <1>2
<1> HIDE DEF revisions, timestamps, pending, t
<1>6. /\ t \in SyncState /\ t.cursor = s.cursor /\ t.conflicts = s.conflicts \ {i}
      /\ t.revisions = revisions /\ t.timestamps = timestamps /\ t.pending = pending
  BY <1>3, <1>4 DEF SyncState
<1> QED BY <1>5, <1>6 DEF IsSettled, t

\* The ways to settle item i: on the local version, on no item, or on the version of
\* the server; with its revision rev and the version that is synced with it.
Settles(e, i, w, rev, stamp) ==
  /\ w \in Nat /\ rev \in Nat \cup {NoRevision} /\ stamp \in Nat
  /\ HasRemote(feed, i) => Remote(feed, i).kind = "delete" \/ rev = Remote(feed, i).rev
  /\ \/ w = ext[e].vault[i] /\ stamp = 0
     \/ w = 0 /\ stamp = 0 /\ rev = NoRevision
     \/ /\ RemoteIsLive(feed, i) /\ rev = Remote(feed, i).rev
        /\ w = Remote(feed, i).stamp /\ stamp = w

LEMMA SettleItem ==
  ASSUME ExtInv, NEW e \in Clients, NEW i \in ext[e].sync.conflicts,
         NEW w, NEW rev, NEW stamp, Settles(e, i, w, rev, stamp)
  PROVE  /\ i \in Items
         /\ KnownOK(feed, clock, used, e, i, w, rev, stamp, NoPending, FALSE)
         /\ OwnOK(Standing, w, stamp, NoPending, FALSE)
         /\ CoverOK(feed, ext[e].sync.cursor, i, rev, FALSE)
<1> DEFINE c == ext[e]
<1>1. i \in Items /\ (i \in c.sync.conflicts) = TRUE
  BY Facts, Typed
<1>2. /\ c.sync.cursor \in 0..Len(feed) /\ clock \in Nat
      /\ ItemOK(feed, clock, used, Standing, e, c, i)
  BY <1>1, Facts
<1>3. CoverOK(feed, c.sync.cursor, i, rev, FALSE)
  BY <1>1, <1>2, LastCovers DEF ExtInv, Settles
<1>4. /\ c.vault[i] # 0 /\ c.vault[i] # c.sync.timestamps[i] /\ c.vault[i] <= clock
      /\ i \in used /\ \A o \in Standing : Stamp(o) # c.vault[i]
  BY <1>1, <1>2 DEF ItemOK, KnownOK, OwnOK
<1>5. CASE w = c.vault[i] /\ stamp = 0
  <2>1. KnownOK(feed, clock, used, e, i, w, rev, stamp, NoPending, FALSE)
    BY <1>2, <1>4, <1>5 DEF KnownOK, PendingOK
  <2>2. OwnOK(Standing, w, stamp, NoPending, FALSE)
    BY <1>4, <1>5 DEF OwnOK
  <2> QED BY <1>1, <1>3, <2>1, <2>2
<1>6. CASE w = 0 /\ stamp = 0 /\ rev = NoRevision
  <2>1. KnownOK(feed, clock, used, e, i, w, rev, stamp, NoPending, FALSE)
    BY <1>2, <1>6 DEF KnownOK, PendingOK
  <2>2. OwnOK(Standing, w, stamp, NoPending, FALSE)
    BY <1>6 DEF OwnOK
  <2> QED BY <1>1, <1>3, <2>1, <2>2
<1>7. CASE /\ RemoteIsLive(feed, i) /\ rev = Remote(feed, i).rev
           /\ w = Remote(feed, i).stamp /\ stamp = w
  <2>1. PICK m \in 1..Len(feed) : Remote(feed, i) = feed[m] /\ feed[m].item = i
    BY <1>7, RemoteIs DEF RemoteIsLive, ExtInv
  <2>2. /\ feed[m] \in ChangeType /\ feed[m].stamp <= clock /\ feed[m].item \in used
        /\ feed[m].kind = "upsert" <=> feed[m].stamp # 0
    BY ChangeIs DEF ExtInv
  <2>3. feed[m].kind = "upsert" /\ feed[m].rev = rev /\ feed[m].stamp = w /\ w # 0
    BY <1>7, <2>1, <2>2 DEF RemoteIsLive
  <2>4. feed[m] = [item |-> i, kind |-> "upsert", rev |-> rev, stamp |-> stamp]
    BY <1>7, <2>1, <2>2, <2>3 DEF ChangeType
  <2>5. rev # NoRevision
    BY <2>2, <2>3 DEF ChangeType, NoRevision
  <2>6. KnownOK(feed, clock, used, e, i, w, rev, stamp, NoPending, FALSE)
    BY <1>7, <2>1, <2>2, <2>3, <2>4, <2>5 DEF KnownOK, PendingOK
  <2>7. OwnOK(Standing, w, stamp, NoPending, FALSE)
    BY <1>7 DEF OwnOK
  <2> QED BY <1>1, <1>3, <2>6, <2>7
<1> QED BY <1>5, <1>6, <1>7 DEF Settles

\* A change that is taken is of its type.
LEMMA RemoteTyped ==
  ASSUME WorldOK, NEW i, HasRemote(feed, i)
  PROVE  Remote(feed, i).rev \in Nat /\ Remote(feed, i).stamp \in Nat
         /\ Remote(feed, i).kind \in {"upsert", "delete"}
<1>1. PICK k \in 1..Len(feed) : Remote(feed, i) = feed[k]
  BY RemoteIs
<1>2. feed[k] \in ChangeType
  BY ChangeIs
<1> QED BY <1>1, <1>2 DEF ChangeType

\* The extension d that has settled item i, with a copy as item j or none (J).
HasSettled(e, d, i, w, rev, stamp, j, J) ==
  /\ ext[e].pc = "idle" /\ ext[e].unlocked /\ i \in ext[e].sync.conflicts
  /\ Settles(e, i, w, rev, stamp)
  /\ d \in ExtType /\ ext' = [ext EXCEPT ![e] = d]
  /\ d.pc = "plan" /\ d.plan = ext[e].plan /\ d.unlocked = ext[e].unlocked
  /\ d.sync = Settled(ext[e].sync, i, rev, stamp)
  /\ J \subseteq {j} /\ J \subseteq Items /\ i \notin J /\ J \cap used = {}
  /\ d.vault[i] = w
  /\ j \in J => d.vault[j] = clock + 1 /\ clock' = clock + 1 /\ j \in used'
  /\ \A k \in Items \ J : k # i => d.vault[k] = ext[e].vault[k]

LEMMA SettleOK ==
  ASSUME ExtInv, WorldOK', feed' = feed, Standing' = Standing, clock' \in Nat,
         clock <= clock', used \subseteq used',
         \A f \in Clients : ExtOK(feed', clock', used', Standing', f, ext[f]),
         NEW e \in Clients, NEW d, NEW i, NEW w, NEW rev, NEW stamp, NEW j, NEW J,
         HasSettled(e, d, i, w, rev, stamp, j, J)
  PROVE  ExtInv'
<1>0. /\ ext[e].pc = "idle" /\ ext[e].unlocked /\ i \in ext[e].sync.conflicts
      /\ Settles(e, i, w, rev, stamp)
      /\ d \in ExtType /\ ext' = [ext EXCEPT ![e] = d]
      /\ d.pc = "plan" /\ d.plan = ext[e].plan /\ d.unlocked = ext[e].unlocked
      /\ d.sync = Settled(ext[e].sync, i, rev, stamp)
      /\ J \subseteq {j} /\ J \subseteq Items /\ i \notin J /\ J \cap used = {}
      /\ d.vault[i] = w
      /\ j \in J => d.vault[j] = clock + 1 /\ clock' = clock + 1 /\ j \in used'
      /\ \A k \in Items \ J : k # i => d.vault[k] = ext[e].vault[k]
  BY DEF HasSettled
<1> USE <1>0
<1> DEFINE c == ext[e]
           s == Settled(c.sync, i, rev, stamp)
<1>1. /\ c \in ExtType /\ c.sync \in SyncState /\ i \in Items /\ RunOK(c)
      /\ c.plan = <<>> /\ c.sync.cursor \in 0..Len(feed) /\ clock \in Nat
  BY Facts, Typed DEF RunOK
<1>2. /\ s \in SyncState /\ s.cursor = c.sync.cursor /\ s.conflicts = c.sync.conflicts \ {i}
      /\ s.revisions[i] = rev /\ s.timestamps[i] = stamp /\ s.pending[i] = NoPending
      /\ \A k \in Items : k # i =>
           /\ s.revisions[k] = c.sync.revisions[k] /\ s.timestamps[k] = c.sync.timestamps[k]
           /\ s.pending[k] = c.sync.pending[k]
  <2>1. rev \in Nat \cup {NoRevision} /\ stamp \in Nat
    BY DEF Settles
  <2>2. IsSettled(c.sync, s, i, rev, stamp)
    BY <1>1, <2>1, SettledIs
  <2> HIDE DEF s
  <2> QED BY <2>2 DEF IsSettled
<1>3. d.sync = s
  OBVIOUS
<1> HIDE DEF s
<1>4. RunOK(d)
  BY <1>1 DEF RunOK
<1>5. ExtOK(feed', clock', used', Standing', e, c)
  OBVIOUS
<1>6. ItemOK(feed', clock', used', Standing', e, d, i)
  <2>1. /\ KnownOK(feed, clock, used, e, i, w, rev, stamp, NoPending, FALSE)
        /\ OwnOK(Standing, w, stamp, NoPending, FALSE)
        /\ CoverOK(feed, c.sync.cursor, i, rev, FALSE)
    BY SettleItem
  <2>2. KnownOK(feed', clock', used', e, i, w, rev, stamp, NoPending, FALSE)
    <3>1. w <= clock' /\ stamp <= clock'
      BY <1>1, <2>1 DEF KnownOK, Settles
    <3> QED BY <2>1, <3>1 DEF KnownOK
  <2>3. (i \in s.conflicts) = FALSE
    BY <1>2
  <2> QED BY <1>2, <1>3, <2>1, <2>2, <2>3, Zenon DEF ItemOK
<1>7. ASSUME NEW k \in Items \ J, k # i
      PROVE  ItemOK(feed', clock', used', Standing', e, d, k)
  <2>1. ItemOK(feed', clock', used', Standing', e, c, k)
    BY <1>5 DEF ExtOK
  <2>2. (k \in s.conflicts) = (k \in c.sync.conflicts)
    BY <1>2, <1>7
  <2>3. d.vault[k] = c.vault[k]
    BY <1>7
  <2> QED BY <1>2, <1>3, <1>7, <2>1, <2>2, <2>3, Zenon DEF ItemOK
<1>8. ASSUME j \in J PROVE ItemOK(feed', clock', used', Standing', e, d, j)
  <2> DEFINE ts == c.sync.timestamps[j]
             known == c.sync.revisions[j]
             q == c.sync.pending[j]
  <2>1. ItemOK(feed, clock, used, Standing, e, c, j) /\ j \notin used
    <3>1. j \in Items /\ j \notin used
      BY <1>8
    <3> QED BY <3>1, Facts
  <2>2. c.vault[j] = 0 /\ known = NoRevision /\ q = NoPending /\ j \notin c.sync.conflicts
    BY <2>1 DEF ItemOK, KnownOK
  <2>3. ts = 0
    BY <2>1, <2>2 DEF ItemOK, KnownOK
  <2>4. clock' = clock + 1 /\ clock' # 0 /\ j \in used' /\ d.vault[j] = clock'
    BY <1>1, <1>8
  <2>5. KnownOK(feed', clock', used', e, j, clock', NoRevision, 0, NoPending, FALSE)
    BY <2>4 DEF KnownOK, PendingOK
  <2>6. OwnOK(Standing', clock', 0, NoPending, FALSE)
    <3>1. \A o \in Standing : Stamp(o) <= clock
      BY DEF ExtInv, WorldOK, Standing
    <3>2. \A o \in Standing' : Stamp(o) # clock'
      BY <1>1, <2>4, <3>1
    <3> QED BY <3>2 DEF OwnOK
  <2>7. CoverOK(feed', c.sync.cursor, j, NoRevision, FALSE)
    <3>1. \A k \in 1..c.sync.cursor : feed[k].item # j
      <4>1. \A k \in 1..c.sync.cursor : k \in 1..Len(feed)
        BY <1>1, Facts
      <4> QED BY <2>1, <4>1, ChangeIs DEF ExtInv
    <3> QED BY <3>1 DEF CoverOK
  <2>8. (j \in s.conflicts) = FALSE
    BY <1>2, <2>2
  <2>9. /\ s.revisions[j] = NoRevision /\ s.timestamps[j] = 0 /\ s.pending[j] = NoPending
    BY <1>2, <1>8, <2>2, <2>3
  <2> QED BY <1>2, <1>3, <2>4, <2>5, <2>6, <2>7, <2>8, <2>9, Zenon DEF ItemOK
<1>9. ExtOK(feed', clock', used', Standing', e, d)
  <2>1. ASSUME NEW k \in Items PROVE ItemOK(feed', clock', used', Standing', e, d, k)
    <3>1. k = i \/ (k = j /\ j \in J) \/ (k \in Items \ J /\ k # i)
      OBVIOUS
    <3> QED BY <1>6, <1>7, <1>8, <3>1
  <2> QED BY <1>2, <1>3, <1>4, <1>5, <2>1 DEF ExtOK
<1>10. Moves(c, d, j)
  <2> SUFFICES ASSUME NEW k \in Items, Unsynced(d, k)
               PROVE  \/ Unsynced(c, k) /\ d.vault[k] = c.vault[k]
                      \/ k = j /\ d.vault[k] = clock + 1
    BY DEF Moves
  <2>1. CASE k = i
    <3>1. w # 0 /\ w # stamp
      BY <1>2, <1>3, <2>1 DEF Unsynced
    <3>2. w = c.vault[i]
      BY <3>1 DEF Settles
    <3>3. ItemOK(feed, clock, used, Standing, e, c, i) /\ (i \in c.sync.conflicts) = TRUE
      BY <1>1, Facts
    <3>4. c.sync.timestamps[i] # c.vault[i]
      BY <3>3 DEF ItemOK, KnownOK
    <3> QED BY <2>1, <3>1, <3>2, <3>4 DEF Unsynced
  <2>2. CASE k \in J
    BY <2>2
  <2>3. CASE k # i /\ k \notin J
    BY <1>2, <1>3, <2>3 DEF Unsynced
  <2> QED BY <2>1, <2>2, <2>3
<1> QED BY <1>9, <1>10, ExtMoves

\* The user keeps the local version.
LEMMA KeepLocalOK ==
  ASSUME ExtInv, NEW e \in Clients, NEW i \in Items, ExtKeepLocal(e, i)
  PROVE  ExtInv'
<1> DEFINE c == ext[e]
           rev == IF HasRemote(feed, i) THEN Remote(feed, i).rev ELSE NoRevision
           s == Settled(c.sync, i, rev, 0)
           d == [c EXCEPT !.pc = "plan", !.sync = s]
<1>1. /\ c.pc = "idle" /\ c.unlocked /\ i \in c.sync.conflicts
      /\ ext' = [ext EXCEPT ![e] = d] /\ UNCHANGED world
  BY DEF ExtKeepLocal
<1>2. c \in ExtType /\ c.sync \in SyncState /\ c.vault[i] \in Nat
  BY Facts, Typed
<1>3. rev \in Nat \cup {NoRevision}
  BY RemoteTyped DEF ExtInv
<1>4. Settles(e, i, c.vault[i], rev, 0)
  BY <1>2, <1>3 DEF Settles
<1> HIDE DEF rev
<1>5. s \in SyncState
  BY <1>2, <1>3, SettledIs DEF IsSettled
<1> HIDE DEF s
<1>6. /\ d \in ExtType /\ d.vault = c.vault /\ d.sync = s /\ d.plan = c.plan
      /\ d.pc = "plan" /\ d.unlocked = c.unlocked
  BY <1>2, <1>5 DEF ExtType
<1> HIDE DEF d
<1>7. /\ WorldOK' /\ feed' = feed /\ Standing' = Standing
      /\ \A f \in Clients : ExtOK(feed', clock', used', Standing', f, ext[f])
  BY <1>1, WorldUnchanged
<1>8. clock' \in Nat /\ clock <= clock' /\ used \subseteq used'
  BY <1>1, Facts DEF world
<1>9. /\ {} \in SUBSET {e} /\ {} \subseteq Items /\ i \notin {} /\ {} \cap used = {}
      /\ e \notin {} /\ \A k \in Items \ {} : k # i => d.vault[k] = c.vault[k]
  BY <1>6
<1>10. d.vault[i] = c.vault[i] /\ d.sync = Settled(c.sync, i, rev, 0)
  BY <1>6 DEF s
<1>11. HasSettled(e, d, i, c.vault[i], rev, 0, e, {})
  BY <1>1, <1>4, <1>6, <1>9, <1>10 DEF HasSettled
<1> QED BY <1>7, <1>8, <1>11, SettleOK

\* The user takes what the server has, and keeps a copy of the local version or not.
LEMMA TakeRemoteOK ==
  ASSUME ExtInv, NEW e \in Clients, NEW i \in Items,
         NEW copyTo \in {{}, Items}, ExtTakeRemote(e, i, copyTo)
  PROVE  ExtInv'
<1> DEFINE c == ext[e]
           live == RemoteIsLive(feed, i)
           w == IF live THEN Remote(feed, i).stamp ELSE 0
           rev == IF live THEN Remote(feed, i).rev ELSE NoRevision
           s == Settled(c.sync, i, rev, w)
           vault == [c.vault EXCEPT ![i] = w]
           taken == TakeRemote(c.vault, c.sync, feed, i)
<1>1. /\ c.pc = "idle" /\ c.unlocked /\ i \in c.sync.conflicts /\ UNCHANGED store
      /\ \/ /\ ext' = [ext EXCEPT ![e].pc = "plan", ![e].vault = taken.vault,
                                  ![e].sync = taken.sync]
            /\ UNCHANGED <<clock, used>>
         \/ \E j \in Items \ used :
              /\ MakeVersion(c.vault, j)
              /\ ext' = [ext EXCEPT ![e].pc = "plan", ![e].sync = taken.sync,
                                    ![e].vault = [taken.vault EXCEPT ![j] = clock + 1]]
  BY DEF ExtTakeRemote
<1>2. taken.vault = vault /\ taken.sync = s
  BY DEF TakeRemote
<1>3. /\ c \in ExtType /\ c.sync \in SyncState /\ c.vault \in Vault
      /\ clock \in Nat /\ used \subseteq Items
  BY Facts, Typed DEF Vault
<1>4. w \in Nat /\ rev \in Nat \cup {NoRevision}
  BY RemoteTyped DEF RemoteIsLive, ExtInv
<1>5. Settles(e, i, w, rev, w)
  BY <1>4, RemoteTyped DEF Settles, RemoteIsLive, ExtInv
<1> HIDE DEF w, rev, live, taken
<1>6. /\ vault \in Vault /\ vault[i] = w
      /\ \A k \in Items : k # i => vault[k] = c.vault[k]
  BY <1>3, <1>4 DEF Vault
<1>7. s \in SyncState
  BY <1>3, <1>4, SettledIs DEF IsSettled
<1> HIDE DEF s, vault
<1>8. CASE /\ ext' = [ext EXCEPT ![e].pc = "plan", ![e].vault = taken.vault,
                                 ![e].sync = taken.sync]
           /\ UNCHANGED <<clock, used>>
  <2> DEFINE d == [c EXCEPT !.pc = "plan", !.vault = vault, !.sync = s]
  <2>1. ext' = [ext EXCEPT ![e] = d] /\ UNCHANGED world
    <3>1. ext' = [ext EXCEPT ![e].pc = "plan", ![e].vault = vault, ![e].sync = s]
      BY ONLY <1>2, <1>8
    <3>2. UNCHANGED <<clock, used>> /\ UNCHANGED store
      BY <1>1, <1>8, Zenon
    <3>3. ext' = [ext EXCEPT ![e] = d]
      BY ONLY <3>1
    <3> QED BY ONLY <3>2, <3>3 DEF world
  <2>2. /\ d \in ExtType /\ d.vault = vault /\ d.sync = s /\ d.plan = c.plan
        /\ d.pc = "plan" /\ d.unlocked = c.unlocked
    BY <1>3, <1>6, <1>7 DEF ExtType
  <2> HIDE DEF d
  <2>3. /\ WorldOK' /\ feed' = feed /\ Standing' = Standing
        /\ \A f \in Clients : ExtOK(feed', clock', used', Standing', f, ext[f])
    BY <2>1, WorldUnchanged
  <2>4. clock' \in Nat /\ clock <= clock' /\ used \subseteq used'
    BY <1>3, <1>8
  <2>5. /\ {} \in SUBSET {e} /\ {} \subseteq Items /\ i \notin {} /\ {} \cap used = {}
        /\ e \notin {} /\ \A k \in Items \ {} : k # i => d.vault[k] = c.vault[k]
    BY <1>6, <2>2
  <2>6. d.vault[i] = w /\ d.sync = Settled(c.sync, i, rev, w)
    BY <1>6, <2>2 DEF s
  <2>7. HasSettled(e, d, i, w, rev, w, e, {})
    BY <1>1, <1>5, <2>1, <2>2, <2>5, <2>6 DEF HasSettled
  <2> QED BY <2>3, <2>4, <2>7, SettleOK
<1>9. ASSUME NEW j \in Items \ used, MakeVersion(c.vault, j),
             ext' = [ext EXCEPT ![e].pc = "plan", ![e].sync = taken.sync,
                                ![e].vault = [taken.vault EXCEPT ![j] = clock + 1]]
      PROVE  ExtInv'
  <2> DEFINE copied == [vault EXCEPT ![j] = clock + 1]
             d == [c EXCEPT !.pc = "plan", !.sync = s, !.vault = copied]
  <2>1. /\ ext' = [ext EXCEPT ![e] = d] /\ UNCHANGED store
        /\ clock < MaxEdits /\ clock' = clock + 1 /\ used' = used \cup {j}
    <3>1. ext' = [ext EXCEPT ![e].pc = "plan", ![e].sync = s, ![e].vault = copied]
      <4> HIDE DEF copied
      <4>1. copied = [taken.vault EXCEPT ![j] = clock + 1]
        BY ONLY <1>2 DEF copied
      <4> QED BY ONLY <1>2, <1>9, <4>1
    <3>2. clock < MaxEdits /\ clock' = clock + 1 /\ used' = used \cup {j}
      BY <1>9 DEF MakeVersion
    <3> HIDE DEF copied
    <3>3. ext' = [ext EXCEPT ![e] = d]
      BY ONLY <3>1
    <3>4. UNCHANGED store
      BY <1>1, Zenon
    <3> QED BY ONLY <3>2, <3>3, <3>4, Zenon
  <2>2. i \in used
    <3>1. ItemOK(feed, clock, used, Standing, e, c, i) /\ (i \in c.sync.conflicts) = TRUE
      BY <1>1, Facts
    <3> QED BY <3>1 DEF ItemOK, KnownOK
  <2>3. /\ copied \in Vault /\ copied[j] = clock + 1
        /\ \A k \in Items : k # j => copied[k] = vault[k]
    BY <1>3, <1>6 DEF Vault
  <2> HIDE DEF copied
  <2>4. /\ d \in ExtType /\ d.vault = copied /\ d.sync = s /\ d.plan = c.plan
        /\ d.pc = "plan" /\ d.unlocked = c.unlocked
    BY <1>3, <1>7, <2>3 DEF ExtType
  <2> HIDE DEF d
  <2>5. /\ clock' \in Nat /\ clock <= clock' /\ clock' <= MaxEdits
        /\ used \subseteq used' /\ used' \subseteq Items
    BY <1>3, <2>1, ClientAssumption
  <2>6. /\ WorldOK' /\ feed' = feed /\ Standing' = Standing
        /\ \A f \in Clients : ExtOK(feed', clock', used', Standing', f, ext[f])
    BY <2>1, <2>5, UserStep
  <2>7. /\ {j} \in SUBSET {j} /\ {j} \subseteq Items /\ i \notin {j} /\ {j} \cap used = {}
        /\ d.vault[j] = clock + 1 /\ clock' = clock + 1 /\ j \in used'
        /\ \A k \in Items \ {j} : k # i => d.vault[k] = c.vault[k]
    BY <1>6, <2>1, <2>2, <2>3, <2>4
  <2>8. d.vault[i] = w /\ d.sync = Settled(c.sync, i, rev, w)
    BY <1>6, <2>2, <2>3, <2>4 DEF s
  <2>9. HasSettled(e, d, i, w, rev, w, j, {j})
    BY <1>1, <1>5, <2>1, <2>4, <2>7, <2>8 DEF HasSettled
  <2> QED BY <2>5, <2>6, <2>9, SettleOK
<1> QED BY <1>1, <1>8, <1>9

----------------------------------------------------------------------------
(* The environment.                                                         *)

\* A request of another client is of its form.
LEMMA OthersRequest ==
  ASSUME ExtInv, NEW i \in Items, NEW kind \in {"upsert", "delete"}, OthersWrite(i, kind)
  PROVE  \E op : /\ RequestOK({op}) /\ Serve({op}) /\ op.mut[1] = Others /\ op.item = i
                 /\ Stamp(op) = 0 \/ Stamp(op) = clock + 1
                 /\ clock < MaxEdits /\ clock' = clock + 1 /\ used' = used \cup {i}
<1> DEFINE stamp == IF kind = "upsert" THEN clock + 1 ELSE 0
           op == [mut |-> <<Others, clock, i, stamp>>, item |-> i, kind |-> kind,
                  base |-> item[i].rev]
<1>1. /\ Serve({op}) /\ clock < MaxEdits /\ clock' = clock + 1 /\ used' = used \cup {i}
  BY DEF OthersWrite
<1>2. clock \in Nat /\ item[i].rev \in Nat
  BY DEF ExtInv, WorldOK, StoreInv, ItemsAreInFeed
<1>3. OpOK(op)
  BY <1>2 DEF OpOK, OpType, Authors, Stamp
<1>4. op.mut[1] = Others /\ op.item = i /\ (Stamp(op) = 0 \/ Stamp(op) = clock + 1)
  BY DEF Stamp
<1> HIDE DEF op
<1>5. RequestOK({op})
  BY <1>3, FS_Singleton DEF RequestOK
<1> QED BY <1>1, <1>4, <1>5

\* A version of another client is new, and one that arrives late was sent before.
LEMMA EnvironmentServes ==
  ASSUME ExtInv, Environment
  PROVE  \E ops : /\ RequestOK(ops) /\ Serve(ops) /\ MaySend(ops, clock')
                  /\ \A o \in ops : o.item \in used'
                  /\ \A o \in ops : o \in Sent \/
                       (o.mut[1] = Others /\ (Stamp(o) = 0 \/ Stamp(o) = clock + 1))
                  /\ clock' \in Nat /\ clock <= clock' /\ clock' <= MaxEdits
                  /\ used \subseteq used' /\ used' \subseteq Items
<1>1. clock \in Nat /\ clock <= MaxEdits /\ used \subseteq Items /\ MaxEdits \in Nat
  BY ClientAssumption DEF ExtInv, WorldOK, StoreInv
<1>2. /\ \A o \in Sent : Stamp(o) <= clock /\ (o.mut[1] \in Clients => o.kind = "upsert")
      /\ \A o, q \in Standing : Stamp(o) # 0 /\ Stamp(o) = Stamp(q) => o.mut = q.mut
  BY DEF ExtInv, WorldOK
<1>3. CASE Arrive
  <2>1. PICK ops \in late : Serve(ops) /\ UNCHANGED <<clock, used>>
    BY <1>3 DEF Arrive
  <2>2. RequestOK(ops) /\ \A o \in ops : o.item \in used
    BY DEF ExtInv, WorldOK, StoreInv
  <2>3. ops \subseteq Sent
    BY DEF Sent
  <2>4. \A q \in Standing \cup ops : ~Refused(q) => q \in Standing
    BY <2>3 DEF Standing
  <2>5. MaySend(ops, clock')
    <3>1. \A o \in ops : Stamp(o) <= clock' /\ (o.mut[1] \in Clients => o.kind = "upsert")
      BY <1>2, <2>1, <2>3
    <3>2. \A o \in ops, q \in Standing \cup ops :
            Stamp(o) # 0 /\ Stamp(o) = Stamp(q) /\ ~Refused(o) /\ ~Refused(q) => o.mut = q.mut
      BY <1>2, <2>4
    <3> QED BY <3>1, <3>2 DEF MaySend
  <2>6. /\ clock' \in Nat /\ clock <= clock' /\ clock' <= MaxEdits
        /\ used \subseteq used' /\ used' \subseteq Items /\ \A o \in ops : o.item \in used'
    BY <1>1, <2>1, <2>2
  <2>7. \A o \in ops : o \in Sent \/
          (o.mut[1] = Others /\ (Stamp(o) = 0 \/ Stamp(o) = clock + 1))
    BY <2>3
  <2> QED BY <2>1, <2>2, <2>5, <2>6, <2>7
<1>4. ASSUME NEW i \in Items, NEW kind \in {"upsert", "delete"}, OthersWrite(i, kind)
      PROVE  \E ops : /\ RequestOK(ops) /\ Serve(ops) /\ MaySend(ops, clock')
                      /\ \A o \in ops : o.item \in used'
                      /\ \A o \in ops : o \in Sent \/
                           (o.mut[1] = Others /\ (Stamp(o) = 0 \/ Stamp(o) = clock + 1))
                      /\ clock' \in Nat /\ clock <= clock' /\ clock' <= MaxEdits
                      /\ used \subseteq used' /\ used' \subseteq Items
  <2>1. PICK op : /\ RequestOK({op}) /\ Serve({op}) /\ op.mut[1] = Others /\ op.item = i
                  /\ Stamp(op) = 0 \/ Stamp(op) = clock + 1
                  /\ clock < MaxEdits /\ clock' = clock + 1 /\ used' = used \cup {i}
    BY <1>4, OthersRequest
  <2>2. /\ clock' \in Nat /\ clock <= clock' /\ clock' <= MaxEdits
        /\ used \subseteq used' /\ used' \subseteq Items /\ \A o \in {op} : o.item \in used'
    BY <1>1, <2>1
  <2>3. MaySend({op}, clock')
    <3>1. \A o \in {op} : Stamp(o) <= clock' /\ (o.mut[1] \in Clients => o.kind = "upsert")
      BY <1>1, <2>1, ClientAssumption
    <3>2. \A q \in Standing : Stamp(q) <= clock
      BY <1>2 DEF Standing
    <3>3. ASSUME NEW q \in Standing \cup {op}, Stamp(op) # 0, Stamp(op) = Stamp(q)
          PROVE  op.mut = q.mut
      <4>1. q \notin Standing
        BY <1>1, <2>1, <3>2, <3>3
      <4> QED BY <4>1
    <3> QED BY <3>1, <3>3 DEF MaySend
  <2>4. \A o \in {op} : o \in Sent \/
          (o.mut[1] = Others /\ (Stamp(o) = 0 \/ Stamp(o) = clock + 1))
    BY <2>1
  <2> QED BY <2>1, <2>2, <2>3, <2>4
<1> QED BY <1>3, <1>4 DEF Environment

LEMMA EnvironmentOK ==
  ASSUME ExtInv, Environment, UNCHANGED ext
  PROVE  ExtInv'
<1>1. PICK ops : /\ RequestOK(ops) /\ Serve(ops) /\ MaySend(ops, clock')
                 /\ \A o \in ops : o.item \in used'
                 /\ \A o \in ops : o \in Sent \/
                      (o.mut[1] = Others /\ (Stamp(o) = 0 \/ Stamp(o) = clock + 1))
                 /\ clock' \in Nat /\ clock <= clock' /\ clock' <= MaxEdits
                 /\ used \subseteq used' /\ used' \subseteq Items
  BY EnvironmentServes
<1>2. /\ WorldOK' /\ StoreGrows
      /\ \A o \in Standing' : o \in Standing \/ (o \in ops /\ ~Refused(o))
  BY <1>1, ServeWorld DEF ExtInv
<1>3. \A o \in Standing' : o \in Standing \/ Stamp(o) = 0 \/ Stamp(o) = clock + 1
  BY <1>1, <1>2 DEF Standing
<1>4. ASSUME NEW e \in Clients PROVE ExtOK(feed', clock', used', Standing', e, ext[e])
  <2>1. \A o \in Standing' : o \in Standing \/
          \A i \in Items : Unsynced(ext[e], i) /\ Stamp(o) = ext[e].vault[i] =>
            /\ i \notin ext[e].sync.conflicts /\ ext[e].sync.pending[i] # NoPending
            /\ o.mut = ext[e].sync.pending[i].mut
    <3> SUFFICES ASSUME NEW o \in Standing', o \notin Standing, NEW i \in Items,
                        Unsynced(ext[e], i), Stamp(o) = ext[e].vault[i]
                 PROVE  FALSE
      OBVIOUS
    <3>1. ext[e].vault[i] \in Nat /\ ext[e].vault[i] <= clock /\ clock \in Nat
      BY Facts
    <3> QED BY <1>3, <3>1 DEF Unsynced
  <2>2. StoreInv /\ ExtOK(feed, clock, used, Standing, e, ext[e])
    BY DEF ExtInv, WorldOK
  <2> QED BY <1>1, <1>2, <2>1, <2>2, ExtKeeps
<1>5. ext' = ext
  OBVIOUS
<1> QED BY <1>2, <1>4, <1>5 DEF ExtInv

----------------------------------------------------------------------------
(* The invariant holds.                                                     *)

LEMMA InitOK == Init => ExtInv
<1> SUFFICES ASSUME Init PROVE ExtInv
  OBVIOUS
<1>1. StoreInit /\ StoreInv
  BY InitStore DEF Init
<1>2. /\ feed = <<>> /\ verdict = {} /\ late = {} /\ clock = 0 /\ used = {}
      /\ Len(feed) = 0
  BY <1>1 DEF StoreInit, Store!Init
<1>3. Sent = {} /\ Standing = {}
  BY <1>2 DEF Sent, Standing
<1>4. WorldOK
  BY <1>1, <1>2, <1>3, ClientAssumption DEF WorldOK, FeedIsDecided
<1>5. DOMAIN ext = Clients
  BY DEF Init
<1> DEFINE start == [unlocked |-> TRUE, pc |-> "idle", vault |-> EmptyVault,
                     sync |-> EmptySyncState, plan |-> <<>>, n |-> 0]
<1>6. \A e \in Clients : ext[e] = start
  BY DEF Init
<1>7. EmptyVault \in Vault /\ NoPending \in Pending
  BY DEF EmptyVault, Vault, NoPending, Pending
<1>8. EmptySyncState \in SyncState
  BY <1>7 DEF EmptySyncState, SyncState
<1>9. /\ start \in ExtType /\ start.sync = EmptySyncState /\ start.vault = EmptyVault
      /\ start.plan = <<>> /\ start.pc = "idle"
  BY <1>7, <1>8, NoPlan DEF ExtType
<1> HIDE DEF start
<1>10. RunOK(start)
  BY <1>9 DEF RunOK
<1>11. ASSUME NEW e \in Clients, NEW i \in Items
       PROVE  ItemOK(feed, clock, used, Standing, e, start, i)
  <2>1. /\ start.vault[i] = 0 /\ start.sync.revisions[i] = NoRevision
        /\ start.sync.timestamps[i] = 0 /\ start.sync.pending[i] = NoPending
        /\ start.sync.conflicts = {} /\ start.sync.cursor = 0
    BY <1>9 DEF EmptyVault, EmptySyncState
  <2>2. KnownOK(feed, clock, used, e, i, 0, NoRevision, 0, NoPending, FALSE)
    BY <1>2 DEF KnownOK, PendingOK
  <2>3. OwnOK(Standing, 0, 0, NoPending, FALSE)
    BY DEF OwnOK
  <2>4. CoverOK(feed, 0, i, NoRevision, FALSE)
    BY DEF CoverOK
  <2>5. (i \in start.sync.conflicts) = FALSE
    BY <2>1
  <2> QED BY <2>1, <2>2, <2>3, <2>4, <2>5, Zenon DEF ItemOK
<1>12. start.sync.cursor <= Len(feed)
  BY <1>2, <1>9 DEF EmptySyncState
<1>13. \A e \in Clients : ExtOK(feed, clock, used, Standing, e, start)
  BY <1>9, <1>10, <1>11, <1>12 DEF ExtOK
<1>14. \A i \in Items : ~Unsynced(start, i)
  BY <1>9 DEF Unsynced, EmptyVault
<1>15. ApartOnce(start) /\ Apart(start, start)
  BY <1>14 DEF ApartOnce, Apart
<1> QED BY <1>4, <1>5, <1>6, <1>13, <1>15 DEF ExtInv

LEMMA NextOK ==
  ASSUME IsFiniteSet(Items), ExtInv, [Next]_vars
  PROVE  ExtInv'
<1>1. CASE Environment /\ UNCHANGED ext
  BY <1>1, EnvironmentOK
<1>2. ASSUME NEW e \in Clients, ExtNext(e) PROVE ExtInv'
  <2>1. CASE ExtStart(e)
    BY <2>1, StartOK
  <2>2. CASE ExtPlan(e)
    BY <2>2, PlanOK
  <2>3. CASE ExtPush(e)
    BY <2>3, PushOK
  <2>4. CASE ExtPull(e)
    BY <2>4, PullOK
  <2>5. CASE ExtFail(e)
    BY <2>5, FailOK
  <2>6. CASE ExtLock(e)
    BY <2>6, LockOK
  <2>7. CASE ExtUnlock(e)
    BY <2>7, UnlockOK
  <2>8. CASE \E i \in Items : ExtSave(e, i)
    BY <2>8, SaveOK
  <2>9. CASE \E i \in Items : ExtKeepLocal(e, i)
    BY <2>9, KeepLocalOK
  <2>10. CASE \E i \in Items : ExtTakeRemote(e, i, {}) \/ ExtTakeRemote(e, i, Items)
    BY <2>10, TakeRemoteOK
  <2> QED BY <1>2, <2>1, <2>2, <2>3, <2>4, <2>5, <2>6, <2>7, <2>8, <2>9, <2>10 DEF ExtNext
<1>3. CASE UNCHANGED vars
  <2>1. WorldOK' /\ feed' = feed /\ Standing' = Standing /\ UNCHANGED world /\ ext' = ext
    BY <1>3, WorldUnchanged DEF vars
  <2>2. clock' = clock /\ used' = used
    BY <2>1 DEF world
  <2> QED BY <2>1, <2>2 DEF ExtInv
<1> QED BY <1>1, <1>2, <1>3 DEF Next

LEMMA Invariant ==
  ASSUME IsFiniteSet(Items) PROVE Spec => []ExtInv
<1>1. ExtInv /\ [Next]_vars => ExtInv'
  BY NextOK
<1> QED BY InitOK, <1>1, PTL DEF Spec

----------------------------------------------------------------------------
(* The theorems.                                                            *)

\* The state is of its type, and a plan is on its way exactly while it is awaited.
THEOREM StateIsTyped ==
  ASSUME IsFiniteSet(Items) PROVE Spec => []TypeOK
<1>1. ASSUME ExtInv PROVE TypeOK
  <2>1. WorldOK /\ StoreInv
    BY <1>1 DEF ExtInv, WorldOK
  <2>2. \A k \in DOMAIN feed : feed[k].item \in Items /\ feed[k].rev \in 1..revision
    <3>1. DOMAIN feed = 1..Len(feed)
      BY <2>1 DEF StoreInv, FeedInOrder
    <3> QED BY <2>1, <3>1, ChangeIs DEF ChangeType
  <2>3. StoreTypeOK
    BY <2>1, <2>2, ClientAssumption DEF StoreTypeOK, WorldOK, StoreInv
  <2>4. \A e \in Clients : ext[e] \in ExtType /\ RunOK(ext[e])
    BY <1>1, Facts
  <2>5. ASSUME NEW e \in Clients
        PROVE  /\ ext[e].vault \in Vault /\ ext[e].sync \in SyncState
               /\ ext[e].pc \in {"idle", "plan", "push", "pull"}
               /\ ext[e].pc = "push" <=> ext[e].plan # <<>>
    BY <2>4 DEF ExtType, RunOK
  <2> QED BY <2>3, <2>5 DEF TypeOK
<1> QED BY Invariant, <1>1, PTL

\* The revision and the version that are synced of an item are those of one change.
THEOREM SyncedRowsAreServed ==
  ASSUME IsFiniteSet(Items) PROVE Spec => []BaselineIsServed
<1>1. ASSUME ExtInv PROVE BaselineIsServed
  <2>1. DOMAIN feed = 1..Len(feed)
    BY <1>1 DEF ExtInv, WorldOK, StoreInv, FeedInOrder
  <2>2. ASSUME NEW e \in Clients, NEW i \in Items, ext[e].sync.timestamps[i] # 0
        PROVE  \E k \in DOMAIN feed :
                 feed[k] = [item |-> i, kind |-> "upsert", rev |-> ext[e].sync.revisions[i],
                            stamp |-> ext[e].sync.timestamps[i]]
    <3>1. ItemOK(feed, clock, used, Standing, e, ext[e], i)
      BY <1>1, Facts
    <3> QED BY <2>1, <2>2, <3>1 DEF ItemOK, KnownOK
  <2> QED BY <2>2 DEF BaselineIsServed
<1> QED BY Invariant, <1>1, PTL

\* The stored cursor covers the stored vault.
THEOREM CursorIsCovered ==
  ASSUME IsFiniteSet(Items) PROVE Spec => []CursorCoversVault
<1>1. ASSUME ExtInv PROVE CursorCoversVault
  <2> SUFFICES ASSUME NEW e \in Clients, NEW k \in DOMAIN feed,
                      k <= ext[e].sync.cursor, feed[k].item \notin ext[e].sync.conflicts
               PROVE  \/ ext[e].sync.revisions[feed[k].item] >= feed[k].rev
                      \/ \E l \in k..Len(feed) :
                           feed[l].item = feed[k].item /\ feed[l].kind = "delete"
    BY DEF CursorCoversVault
  <2> DEFINE i == feed[k].item
             rev == ext[e].sync.revisions[i]
  <2>1. DOMAIN feed = 1..Len(feed) /\ WorldOK
    BY <1>1 DEF ExtInv, WorldOK, StoreInv, FeedInOrder
  <2>2. i \in Items
    BY <2>1, ChangeIs DEF ChangeType
  <2>3. ext[e].sync.cursor \in 0..Len(feed) /\ ItemOK(feed, clock, used, Standing, e, ext[e], i)
    BY <1>1, <2>2, Facts
  <2>4. CoverOK(feed, ext[e].sync.cursor, i, rev, i \in ext[e].sync.conflicts)
    BY <2>3 DEF ItemOK
  <2>5. k \in 1..ext[e].sync.cursor
    BY <2>1, <2>3
  <2> QED BY <2>4, <2>5 DEF CoverOK
<1> QED BY Invariant, <1>1, PTL

\* No extension ever sends a deletion.
THEOREM NothingIsDeleted ==
  ASSUME IsFiniteSet(Items) PROVE Spec => []ExtensionDeletesNothing
<1>1. ASSUME ExtInv PROVE ExtensionDeletesNothing
  <2>1. \A v \in verdict : v.op \in Sent
    BY DEF Sent
  <2> QED BY <1>1, <2>1 DEF ExtInv, WorldOK, ExtensionDeletesNothing
<1> QED BY Invariant, <1>1, PTL

\* An operation that was applied stands: its mutation id has no other verdict.
LEMMA AppliedStands ==
  ASSUME WorldOK, NEW v \in verdict, v.status = "applied"
  PROVE  v.op \in Standing /\ ~Refused(v.op)
<1>1. \A w \in verdict : v.op.mut = w.op.mut => v = w
  BY DEF WorldOK, StoreInv, VerdictsStand
<1>2. ~Refused(v.op)
  BY <1>1 DEF Refused
<1> QED BY <1>2 DEF Standing, Sent

\* A version enters the feed once, however often it is sent and under whatever ids.
THEOREM AppliedOnce ==
  ASSUME IsFiniteSet(Items) PROVE Spec => []EditIsAppliedOnce
<1>1. ASSUME ExtInv PROVE EditIsAppliedOnce
  <2> SUFFICES ASSUME NEW k \in DOMAIN feed, NEW l \in DOMAIN feed,
                      feed[k].kind = "upsert", feed[k].stamp = feed[l].stamp
               PROVE  k = l
    BY DEF EditIsAppliedOnce
  <2>1. WorldOK /\ DOMAIN feed = 1..Len(feed) /\ Len(feed) \in Nat
    BY <1>1 DEF ExtInv, WorldOK, StoreInv, FeedInOrder
  <2>2. PICK v \in verdict : v.status = "applied" /\ feed[k] = ChangeOf(v.op, v.rev)
    BY <2>1 DEF WorldOK, FeedIsDecided
  <2>3. PICK w \in verdict : w.status = "applied" /\ feed[l] = ChangeOf(w.op, w.rev)
    BY <2>1 DEF WorldOK, FeedIsDecided
  <2>4. Stamp(v.op) # 0 /\ Stamp(v.op) = Stamp(w.op)
    BY <2>1, <2>2, <2>3, ChangeIs DEF ChangeOf
  <2>5. v.op.mut = w.op.mut
    BY <2>1, <2>2, <2>3, <2>4, AppliedStands DEF WorldOK
  <2>6. v = w
    BY <2>1, <2>5 DEF WorldOK, StoreInv, VerdictsStand
  <2>7. feed[k].item = feed[l].item /\ feed[k].rev = feed[l].rev /\ feed[k].rev \in Nat
    BY <2>1, <2>2, <2>3, <2>6, ChangeIs DEF ChangeType
  <2>8. ~(k < l) /\ ~(l < k)
    BY <2>1, <2>7 DEF WorldOK, StoreInv, FeedInOrder
  <2> QED BY <2>1, <2>8
<1> QED BY Invariant, <1>1, PTL

\* A pull replaces only what the server has had, or has it as the same version.
THEOREM NoEditIsErased ==
  ASSUME IsFiniteSet(Items) PROVE Spec => PullErasesNoEdit
<1> DEFINE Erased(e, i) ==
             LET kept == ext[e].vault[i]
             IN  ExtPull(e) /\ ext'[e].vault[i] # kept =>
                   kept = 0 \/ \E k \in DOMAIN feed : feed[k].stamp = kept
<1>1. ASSUME ExtInv, NEW e \in Clients, NEW i \in Items PROVE Erased(e, i)
  <2> DEFINE c == ext[e]
             kept == c.vault[i]
             end == PageEnd(feed, c.sync.cursor)
             r == Replay(c.vault, c.sync, Page(feed, c.sync.cursor))
  <2> SUFFICES ASSUME ExtPull(e), ext'[e].vault[i] # kept, kept # 0
               PROVE  \E k \in DOMAIN feed : feed[k].stamp = kept
    OBVIOUS
  <2>1. c.pc = "pull" /\ ext'[e].vault = AfterPage(c.vault, c.sync, feed, revision).vault
    <3>1. DOMAIN ext = Clients /\ c \in ExtType
      BY <1>1, Facts DEF ExtInv
    <3> QED BY <3>1 DEF ExtPull, ExtType
  <2>2. ReadOK(e, end, r)
    BY <1>1, <2>1, ReadPage
  <2> HIDE DEF end, r
  <2>3. ext'[e].vault = r.vault
    <3>1. AfterPage(c.vault, c.sync, feed, revision)
            = [r EXCEPT !.sync.serverRevision = revision, !.sync.cursor = end]
      BY DEF AfterPage, r, end
    <3>2. r \in Replicas
      BY <2>2 DEF ReadOK
    <3> QED BY <2>1, <3>1, <3>2 DEF Replicas
  <2>4. i \notin c.sync.conflicts
    BY <2>2, <2>3 DEF ReadOK, ReadItemOK
  <2>5. kept = c.sync.timestamps[i]
    BY <1>1, <2>1, <2>4, Facts DEF RunOK
  <2>6. ItemOK(feed, clock, used, Standing, e, c, i)
    BY <1>1, Facts
  <2>7. DOMAIN feed = 1..Len(feed)
    BY <1>1 DEF ExtInv, WorldOK, StoreInv, FeedInOrder
  <2>8. c.sync.timestamps[i] # 0 =>
          \E k \in 1..Len(feed) :
            feed[k] = [item |-> i, kind |-> "upsert", rev |-> c.sync.revisions[i],
                       stamp |-> c.sync.timestamps[i]]
    BY <2>6 DEF ItemOK, KnownOK
  <2> HIDE DEF kept
  <2> QED BY <2>5, <2>7, <2>8
<1> DEFINE A == \A e \in Clients, i \in Items : Erased(e, i)
<1>2. ASSUME ExtInv PROVE A
  BY <1>1, <1>2
<1>3. Spec => [][A]_vars
  <2> HIDE DEF A
  <2> QED BY Invariant, <1>2, PTL DEF Spec
<1> QED BY <1>3 DEF PullErasesNoEdit

\* What is refused of a request is another version than the server has.
LEMMA RefusedIsAnother ==
  ASSUME WorldOK, NEW ops, RequestOK(ops), Serve(ops), MaySend(ops, clock'),
         clock' \in Nat, used \subseteq used', used' \subseteq Items,
         \A o \in ops : o.item \in used',
         NEW v \in verdict' \ verdict, v.op.kind = "upsert",
         item[v.op.item] # Store!Missing
  PROVE  Stamp(item[v.op.item]) # Stamp(v.op)
<1> DEFINE i == v.op.item
<1>1. StoreGrows /\ v.op \in ops /\ OpOK(v.op)
  <2>1. StoreGrows /\ (v \in verdict \/ v.op \in ops)
    BY ServeKeeps DEF WorldOK
  <2> QED BY <2>1 DEF RequestOK
<1>2. i \in Items /\ Stamp(v.op) # 0
  BY <1>1 DEF OpOK, OpType
<1>3. ~Refused(v.op) /\ \A w \in verdict : w.op.mut # v.op.mut
  <2>1. \A w \in verdict : w.op.mut # v.op.mut
    BY <1>1 DEF StoreGrows
  <2> QED BY <2>1 DEF Refused
<1> HIDE DEF i
<1>4. item[i].rev # 0
  BY <1>2 DEF i, WorldOK, StoreInv, ItemsAreInFeed
<1>5. PICK k \in 1..Len(feed) :
        feed[k] = [item |-> i, kind |-> IF item[i].deleted THEN "delete" ELSE "upsert",
                   rev |-> item[i].rev, stamp |-> Stamp(item[i])]
  BY <1>2, <1>4 DEF WorldOK, StoreInv, ItemsAreInFeed
<1>6. PICK w \in verdict : w.status = "applied" /\ feed[k] = ChangeOf(w.op, w.rev)
  BY DEF WorldOK, FeedIsDecided
<1>7. Stamp(w.op) = Stamp(item[i])
  BY <1>5, <1>6 DEF ChangeOf
<1>8. w.op \in Standing /\ ~Refused(w.op)
  BY <1>6, AppliedStands
<1>9. v.op.mut # w.op.mut
  BY <1>3
<1>10. Stamp(v.op) # Stamp(w.op)
  BY <1>1, <1>2, <1>3, <1>8, <1>9 DEF MaySend
<1> QED BY <1>7, <1>10 DEF i

\* A version that the server has is never refused as if it were another one: whatever
\* was sent twice, late or after a restart.
THEOREM NoVersionRefusesItself ==
  ASSUME IsFiniteSet(Items) PROVE Spec => NoConflictWithItself
<1> DEFINE Refuses(v) ==
             v.op.kind = "upsert" /\ v.status = "conflict" /\ v.op.mut[1] \in Clients =>
               item[v.op.item] = Store!Missing \/ Stamp(item[v.op.item]) # Stamp(v.op)
           A == \A v \in verdict' \ verdict : Refuses(v)
<1>1. ASSUME ExtInv, [Next]_vars PROVE A
  <2>1. /\ WorldOK /\ clock \in Nat /\ used \subseteq Items
    BY <1>1 DEF ExtInv, WorldOK, StoreInv
  <2>2. CASE verdict' = verdict
    BY <2>2
  <2>3. CASE Environment
    <3>1. PICK ops : /\ RequestOK(ops) /\ Serve(ops) /\ MaySend(ops, clock')
                     /\ \A o \in ops : o.item \in used'
                     /\ clock' \in Nat /\ used \subseteq used' /\ used' \subseteq Items
      BY <1>1, <2>3, EnvironmentServes
    <3> QED BY <2>1, <3>1, RefusedIsAnother
  <2>4. ASSUME NEW e \in Clients, ExtPush(e) PROVE A
    <3> DEFINE ops == Operations(ext[e].plan)
    <3>1. /\ RequestOK(ops) /\ MaySend(ops, clock) /\ \A o \in ops : o.item \in used
      BY <1>1, PlanRequest
    <3>2. Serve(ops) /\ clock' = clock /\ used' = used
      BY <2>4 DEF ExtPush
    <3> HIDE DEF ops
    <3> QED BY <2>1, <3>1, <3>2, RefusedIsAnother
  <2>5. ASSUME NEW e \in Clients, ExtNext(e), ~ExtPush(e) PROVE verdict' = verdict
    <3>1. ExtStop(e) => verdict' = verdict
      BY DEF ExtStop, GiveUp, store
    <3>2. UNCHANGED store \/ UNCHANGED world \/ ExtStop(e)
      BY <2>5 DEF ExtNext, ExtStart, ExtPlan, ExtPull, ExtFail, ExtLock, ExtUnlock, ExtSave,
                  ExtKeepLocal, ExtTakeRemote
    <3> QED BY <3>1, <3>2 DEF store, world
  <2>6. CASE UNCHANGED vars
    BY <2>6 DEF vars, world, store
  <2> QED BY <1>1, <2>2, <2>3, <2>4, <2>5, <2>6 DEF Next
<1>2. Spec => [][A]_vars
  <2> HIDE DEF A
  <2> QED BY Invariant, <1>1, PTL DEF Spec
<1> QED BY <1>2 DEF NoConflictWithItself

=============================================================================
