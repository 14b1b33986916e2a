------------------------- MODULE SharedStoreProofs -------------------------
(***************************************************************************)
(* What every client can rely on when it talks to SharedStore: the feed    *)
(* only grows, in the order of the revisions; the last change of an item   *)
(* is what the store holds of it; an applied operation has its change in   *)
(* the feed, and a mutation id has one verdict.  The proofs about the      *)
(* clients start from these facts.                                         *)
(***************************************************************************)
EXTENDS SharedStore, FiniteSetTheorems, FunctionTheorems, SequenceTheorems,
        WellFoundedInduction, TLAPS

----------------------------------------------------------------------------
(* The sequence of a finite set.                                            *)

LEMMA SeqOfSet ==
  ASSUME NEW S, IsFiniteSet(S)
  PROVE  /\ SetToSeq(S) \in Seq(S)
         /\ \A x \in S : \E k \in 1..Len(SetToSeq(S)) : SetToSeq(S)[k] = x
         /\ \A k, l \in 1..Len(SetToSeq(S)) : SetToSeq(S)[k] = SetToSeq(S)[l] => k = l
<1> DEFINE n == Cardinality(S)
           s == SetToSeq(S)
<1>1. n \in Nat /\ ExistsBijection(1..n, S)
  BY FS_CardinalityType
<1>2. PICK b \in [1..n -> S] : IsInjective(b)
  BY <1>1 DEF ExistsBijection, Bijection, Injection
<1>3. s \in [1..n -> S] /\ IsInjective(s)
  BY <1>2 DEF SetToSeq
<1>4. IsFiniteSet(1..n) /\ Cardinality(1..n) = n
  <2>1. Cardinality(1..n) = IF 1 > n THEN 0 ELSE n - 1 + 1
    BY <1>1, FS_Interval
  <2>2. IsFiniteSet(1..n)
    BY <1>1, FS_Interval
  <2> HIDE DEF n
  <2>3. (IF 1 > n THEN 0 ELSE n - 1 + 1) = n
    BY ONLY <1>1
  <2> QED BY ONLY <2>1, <2>2, <2>3
<1> HIDE DEF n, s
<1>5. s \in Injection(1..n, S)
  BY <1>3 DEF Injection
<1>6. s \in Surjection(1..n, S)
  BY <1>4, <1>5, FS_Injection DEF n
<1>7. Len(s) = n /\ s \in Seq(S)
  BY <1>1, <1>3
<1>8. \A x \in S : \E k \in 1..n : s[k] = x
  BY <1>6 DEF Surjection
<1>9. \A k, l \in 1..n : s[k] = s[l] => k = l
  BY <1>3 DEF IsInjective
<1> QED BY <1>7, <1>8, <1>9 DEF s

LEMMA Appended ==
  ASSUME NEW S, NEW s \in Seq(S), NEW t \in Seq(S)
  PROVE  /\ s \o t \in Seq(S)
         /\ Len(s \o t) = Len(s) + Len(t)
         /\ \A k \in 1..Len(s) : (s \o t)[k] = s[k]
         /\ \A k \in 1..Len(t) : (s \o t)[Len(s) + k] = t[k]
  BY ConcatProperties

\* A bounded set of places in the feed has a last one.
LEMMA MaximumExists ==
  ASSUME NEW N \in Nat, NEW T \in SUBSET Nat, T # {}, \A t \in T : t <= N
  PROVE  \E m \in T : \A t \in T : t <= m
<1> DEFINE R == {ss \in Nat \X Nat : ss[1] < ss[2]}
           U == {N - t : t \in T}
<1>1. IsWellFoundedOn(R, Nat)
  BY NatLessThanWellFounded DEF OpToRel
<1>2. U \subseteq Nat /\ U # {}
  <2>1. \A t \in T : N - t \in Nat
    OBVIOUS
  <2>2. PICK t \in T : TRUE
    OBVIOUS
  <2>3. N - t \in U
    BY <2>2
  <2> QED BY <2>1, <2>3
<1>3. \E x \in U : \A y \in U : ~(<<y, x>> \in R)
  <2> HIDE DEF R, U
  <2> QED BY <1>1, <1>2, WFMin
<1>4. PICK x \in U : \A y \in U : ~(<<y, x>> \in R)
  BY <1>3
<1>5. PICK m \in T : x = N - m
  OBVIOUS
<1>6. ASSUME NEW t \in T PROVE t <= m
  <2>1. N - t \in U
    OBVIOUS
  <2>2. ~(<<N - t, x>> \in R)
    BY <1>4, <2>1
  <2>3. N - t \in Nat /\ x \in Nat /\ t \in Nat /\ m \in Nat
    BY <1>2, <2>1
  <2>4. ~(N - t < x)
    BY <2>2, <2>3
  <2> QED BY <1>5, <2>3, <2>4
<1> QED BY <1>6

\* The image of a finite set under an operator that is given by a function.
LEMMA FiniteImage ==
  ASSUME NEW S, IsFiniteSet(S), NEW f, DOMAIN f = S
  PROVE  IsFiniteSet({f[x] : x \in S})
<1> DEFINE T == {f[x] : x \in S}
<1>1. \E g \in Surjection(S, T) : TRUE
  <2>1. [x \in S |-> f[x]] \in Surjection(S, T)
    BY DEF Surjection
  <2> QED BY <2>1
<1> QED BY <1>1, FS_Surjection

----------------------------------------------------------------------------
(* The invariant of the store.                                              *)

\* An operation of a client: its mutation id names the item and the version.
Authors == Clients \cup {Others}
OpType == [mut: Authors \X Nat \X Items \X Nat, item: Items,
           kind: {"upsert", "delete"}, base: Nat]
OpOK(o) ==
  /\ o \in OpType
  /\ o.mut[3] = o.item
  /\ o.kind = "upsert" <=> Stamp(o) # 0

\* A request: finitely many operations, at most one on an item.
RequestOK(ops) ==
  /\ IsFiniteSet(ops)
  /\ \A o \in ops : OpOK(o)
  /\ \A o, q \in ops : o.item = q.item => o = q

\* The change an applied operation makes.
ChangeOf(o, rev) == [item |-> o.item, kind |-> o.kind, rev |-> rev, stamp |-> Stamp(o)]
ChangeType == [item: Items, kind: {"upsert", "delete"}, rev: Nat \ {0}, stamp: Nat]

\* The changes come in the order of their revisions, at most one of an item in each.
FeedInOrder ==
  /\ feed \in Seq(ChangeType)
  /\ \A k \in 1..Len(feed) : /\ feed[k].rev <= revision
                             /\ feed[k].kind = "upsert" <=> feed[k].stamp # 0
                             /\ feed[k].item \in used
  /\ \A k, l \in 1..Len(feed) : k < l =>
       /\ feed[k].rev <= feed[l].rev
       /\ feed[k].item = feed[l].item => feed[k].rev < feed[l].rev

\* What the store holds of an item is its last change.
ItemsAreInFeed ==
  /\ DOMAIN item = Items
  /\ \A i \in Items :
       /\ item[i].rev \in Nat /\ item[i].rev <= revision
       /\ item[i].rev = 0 => item[i] = Store!Missing
       /\ item[i].rev # 0 =>
            \E k \in 1..Len(feed) :
              feed[k] = [item |-> i, kind |-> IF item[i].deleted THEN "delete" ELSE "upsert",
                         rev |-> item[i].rev, stamp |-> Stamp(item[i])]
  /\ \A k \in 1..Len(feed) : feed[k].rev <= item[feed[k].item].rev

\* A mutation id has one verdict, and an applied operation its change.
VerdictsStand ==
  /\ \A v \in verdict :
       /\ OpOK(v.op)
       /\ v.status \in {"applied", "conflict"}
       /\ v.rev \in Nat
       /\ v.status = "applied" =>
            /\ v.rev > v.op.base /\ v.rev <= revision
            /\ \E k \in 1..Len(feed) : feed[k] = ChangeOf(v.op, v.rev)
  /\ \A v, w \in verdict : v.op.mut = w.op.mut => v = w

StoreInv ==
  /\ revision \in Nat /\ clock \in Nat /\ used \subseteq Items
  /\ FeedInOrder
  /\ ItemsAreInFeed
  /\ VerdictsStand
  /\ \A ops \in late : RequestOK(ops) /\ \A o \in ops : o.item \in used

\* What a step adds to the store: nothing is taken back, and what is new is
\* behind everything that was there.
StoreGrows ==
  /\ revision' \in Nat /\ revision <= revision'
  /\ Len(feed') \in Nat /\ Len(feed) <= Len(feed')
  /\ \A k \in 1..Len(feed) : feed'[k] = feed[k]
  /\ \A k \in 1..Len(feed') : k > Len(feed) => feed'[k].rev = revision + 1
  /\ verdict \subseteq verdict'
  /\ \A v \in verdict' : v \notin verdict =>
       /\ \A w \in verdict : w.op.mut # v.op.mut
       /\ v.status = "applied" => v.rev = revision + 1
       /\ v.status = "conflict" => ~Store!Current(v.op)

LEMMA InitStore == StoreInit => StoreInv
<1> SUFFICES ASSUME StoreInit PROVE StoreInv
  OBVIOUS
<1>1. /\ revision = 0 /\ item = [i \in Items |-> Store!Missing] /\ verdict = {}
      /\ feed = <<>> /\ late = {} /\ clock = 0 /\ used = {}
  BY DEF StoreInit, Store!Init
<1>2. Store!Missing.rev = 0
  BY DEF Store!Missing
<1>3. Len(feed) = 0 /\ feed \in Seq(ChangeType)
  BY <1>1
<1>4. FeedInOrder
  BY <1>3 DEF FeedInOrder
<1>5. ItemsAreInFeed
  BY <1>1, <1>2, <1>3 DEF ItemsAreInFeed
<1>6. VerdictsStand
  BY <1>1 DEF VerdictsStand
<1> QED BY <1>1, <1>4, <1>5, <1>6 DEF StoreInv

----------------------------------------------------------------------------
(* A request is served.                                                     *)

\* What is undecided of a request is a request.
LEMMA PartOfRequest ==
  ASSUME NEW ops, RequestOK(ops), NEW S \in SUBSET ops PROVE RequestOK(S)
  BY FS_Subset DEF RequestOK

\* The changes of the applied operations are appended in some order.
LEMMA FeedAppend ==
  ASSUME StoreInv, used \subseteq used', NEW won, RequestOK(won),
         \A o \in won : o.item \in used',
         revision' = IF won = {} THEN revision ELSE revision + 1,
         feed' = feed \o SetToSeq({ChangeOf(o, revision + 1) : o \in won})
  PROVE  /\ FeedInOrder'
         /\ Len(feed') \in Nat /\ Len(feed) <= Len(feed')
         /\ \A k \in 1..Len(feed) : feed'[k] = feed[k]
         /\ \A k \in 1..Len(feed') : k > Len(feed) =>
              \E o \in won : feed'[k] = ChangeOf(o, revision + 1)
         /\ \A o \in won : \E k \in 1..Len(feed') :
              k > Len(feed) /\ feed'[k] = ChangeOf(o, revision + 1)
<1> DEFINE rev == revision + 1
           change == [o \in won |-> ChangeOf(o, rev)]
           T == {ChangeOf(o, rev) : o \in won}
           tail == SetToSeq(T)
           n == Len(feed)
           m == Len(tail)
<1>1. revision \in Nat /\ rev \in Nat \ {0} /\ feed \in Seq(ChangeType) /\ n \in Nat
  BY DEF StoreInv, FeedInOrder
<1>2. \A o \in won : ChangeOf(o, rev) \in ChangeType
  BY <1>1 DEF RequestOK, OpOK, OpType, ChangeOf, ChangeType, Stamp
<1>3. T = {change[o] : o \in won}
  OBVIOUS
<1>4. IsFiniteSet(T)
  <2>1. IsFiniteSet(won) /\ DOMAIN change = won
    BY DEF RequestOK
  <2> HIDE DEF change, T
  <2> QED BY <1>3, <2>1, FiniteImage
<1>5. /\ tail \in Seq(T) /\ tail \in Seq(ChangeType) /\ m \in Nat
      /\ \A x \in T : \E k \in 1..m : tail[k] = x
      /\ \A k, l \in 1..m : tail[k] = tail[l] => k = l
      /\ \A k \in 1..m : tail[k] \in T
  <2>1. T \subseteq ChangeType
    BY <1>2
  <2> HIDE DEF T
  <2>2. tail \in Seq(T)
    BY <1>4, SeqOfSet
  <2>3. tail \in Seq(ChangeType) /\ m \in Nat /\ \A k \in 1..m : tail[k] \in T
    BY <2>1, <2>2
  <2> QED BY <1>4, <2>2, <2>3, SeqOfSet
<1>6. feed' = feed \o tail
  OBVIOUS
<1>7. \A k \in 1..m : \E o \in won : tail[k] = ChangeOf(o, rev)
  BY <1>5
<1>8. \A o \in won : \E k \in 1..m : tail[k] = ChangeOf(o, rev)
  BY <1>5
<1>9. \A k, l \in 1..m : tail[k].item = tail[l].item => k = l
  <2> SUFFICES ASSUME NEW k \in 1..m, NEW l \in 1..m, tail[k].item = tail[l].item
               PROVE  tail[k] = tail[l]
    BY <1>5
  <2>1. PICK o \in won : tail[k] = ChangeOf(o, rev)
    BY <1>7
  <2>2. PICK q \in won : tail[l] = ChangeOf(q, rev)
    BY <1>7
  <2>3. o.item = q.item
    BY <2>1, <2>2 DEF ChangeOf
  <2> QED BY <2>1, <2>2, <2>3 DEF RequestOK
<1>10. won = {} => m = 0
  BY <1>7, <1>5
<1> HIDE DEF tail, T, change
<1>11. /\ feed' \in Seq(ChangeType)
       /\ Len(feed') = n + m
       /\ \A k \in 1..n : feed'[k] = feed[k]
       /\ \A k \in 1..m : feed'[n + k] = tail[k]
  BY ONLY <1>1, <1>5, <1>6, Appended
<1>12. \A k \in 1..Len(feed') : k > n => k - n \in 1..m /\ feed'[k] = tail[k - n]
  <2> SUFFICES ASSUME NEW k \in 1..Len(feed'), k > n
               PROVE  k - n \in 1..m /\ feed'[k] = tail[k - n]
    OBVIOUS
  <2> HIDE DEF n, m
  <2>1. k - n \in 1..m /\ n + (k - n) = k
    BY ONLY <1>1, <1>5, <1>11, <2>1, k \in 1..Len(feed'), k > n
  <2> QED BY ONLY <1>11, <2>1
<1>13. \A k \in 1..Len(feed') : k > n => \E o \in won : feed'[k] = ChangeOf(o, rev)
  BY <1>7, <1>12
<1>14. \A o \in won : \E k \in 1..Len(feed') : k > n /\ feed'[k] = ChangeOf(o, rev)
  <2> SUFFICES ASSUME NEW o \in won
               PROVE  \E k \in 1..Len(feed') : k > n /\ feed'[k] = ChangeOf(o, rev)
    OBVIOUS
  <2>1. PICK j \in 1..m : tail[j] = ChangeOf(o, rev)
    BY <1>8
  <2> HIDE DEF n, m, rev
  <2>2. n + j \in 1..Len(feed') /\ n + j > n
    BY ONLY <1>1, <1>5, <1>11, <2>1
  <2>3. feed'[n + j] = tail[j]
    BY ONLY <1>11, <2>1
  <2> QED BY ONLY <2>1, <2>2, <2>3
<1>15. \A k \in 1..Len(feed') : k > n =>
         /\ feed'[k].rev = rev
         /\ feed'[k].kind = "upsert" <=> feed'[k].stamp # 0
         /\ feed'[k].item \in used'
  <2> SUFFICES ASSUME NEW k \in 1..Len(feed'), k > n
               PROVE  /\ feed'[k].rev = rev
                      /\ feed'[k].kind = "upsert" <=> feed'[k].stamp # 0
                      /\ feed'[k].item \in used'
    OBVIOUS
  <2>1. PICK o \in won : feed'[k] = ChangeOf(o, rev)
    BY <1>13
  <2>2. o.kind = "upsert" <=> Stamp(o) # 0
    BY DEF RequestOK, OpOK
  <2> QED BY <2>1, <2>2 DEF ChangeOf
<1>16. \A k \in 1..Len(feed') : k > n => revision' = rev
  BY <1>13
<1>17. \A k \in 1..n : /\ feed[k].rev <= revision /\ feed[k].rev \in Nat
                       /\ feed[k].kind = "upsert" <=> feed[k].stamp # 0
                       /\ feed[k].item \in used
  <2>1. \A k \in 1..n : feed[k] \in ChangeType
    BY <1>1
  <2> QED BY <2>1 DEF StoreInv, FeedInOrder, ChangeType
<1>18. revision <= revision' /\ revision' \in Nat
  BY <1>1
<1>19. \A k \in 1..Len(feed') : /\ feed'[k].rev <= revision'
                                /\ feed'[k].kind = "upsert" <=> feed'[k].stamp # 0
                                /\ feed'[k].item \in used'
  <2> SUFFICES ASSUME NEW k \in 1..Len(feed')
               PROVE  /\ feed'[k].rev <= revision'
                      /\ feed'[k].kind = "upsert" <=> feed'[k].stamp # 0
                      /\ feed'[k].item \in used'
    OBVIOUS
  <2>1. CASE k > n
    <3>1. feed'[k].rev = rev /\ revision' = rev
      BY <1>15, <1>16, <2>1
    <3>2. feed'[k].rev <= revision'
      BY ONLY <1>1, <3>1
    <3> QED BY <1>15, <2>1, <3>2
  <2>2. CASE ~(k > n)
    <3>1. k \in 1..n
      BY <1>1, <2>2
    <3>2. feed'[k] = feed[k] /\ feed[k].rev <= revision /\ feed[k].rev \in Nat
      BY <1>11, <1>17, <3>1
    <3>3. feed'[k].rev <= revision'
      BY ONLY <1>1, <1>18, <3>2
    <3> QED BY <1>17, <3>1, <3>2, <3>3
  <2> QED BY <2>1, <2>2
<1>20. \A k, l \in 1..Len(feed') : k < l =>
         /\ feed'[k].rev <= feed'[l].rev
         /\ feed'[k].item = feed'[l].item => feed'[k].rev < feed'[l].rev
  <2> SUFFICES ASSUME NEW k \in 1..Len(feed'), NEW l \in 1..Len(feed'), k < l
               PROVE  /\ feed'[k].rev <= feed'[l].rev
                      /\ feed'[k].item = feed'[l].item => feed'[k].rev < feed'[l].rev
    OBVIOUS
  <2>1. CASE l > n /\ k > n
    <3>1. feed'[k].rev = rev /\ feed'[l].rev = rev
      BY <1>15, <2>1
    <3> HIDE DEF n, m, rev
    <3>2. k - n # l - n
      BY ONLY <1>1, <2>1, k \in 1..Len(feed'), l \in 1..Len(feed'), k < l
    <3>3. /\ k - n \in 1..m /\ feed'[k] = tail[k - n]
          /\ l - n \in 1..m /\ feed'[l] = tail[l - n]
      BY <1>12, <2>1
    <3>4. feed'[k].item # feed'[l].item
      BY ONLY <1>9, <3>2, <3>3
    <3> QED BY ONLY <1>1, <3>1, <3>4
  <2>2. CASE l > n /\ ~(k > n)
    <3>1. k \in 1..n
      BY <1>1, <2>2
    <3>2. feed'[k] = feed[k] /\ feed[k].rev <= revision /\ feed[k].rev \in Nat
      BY <1>11, <1>17, <3>1
    <3>3. feed'[l].rev = revision + 1
      BY <1>15, <2>2
    <3> QED BY ONLY <1>1, <3>2, <3>3
  <2>3. CASE ~(l > n)
    <3>1. k \in 1..n /\ l \in 1..n
      BY <1>1, <2>3
    <3> QED BY <1>11, <3>1 DEF StoreInv, FeedInOrder
  <2> QED BY <2>1, <2>2, <2>3
<1>21. FeedInOrder'
  BY <1>11, <1>19, <1>20 DEF FeedInOrder
<1>22. Len(feed') \in Nat /\ Len(feed) <= Len(feed')
  BY <1>1, <1>5, <1>11
<1> QED BY <1>11, <1>13, <1>14, <1>21, <1>22

\* A step that decides nothing.
LEMMA NothingDecided ==
  ASSUME StoreInv, UNCHANGED <<revision, item, verdict, feed>>,
         used \subseteq used', used' \subseteq Items, clock' \in Nat,
         \A ops \in late' : RequestOK(ops) /\ \A o \in ops : o.item \in used'
  PROVE  StoreInv'
<1>1. FeedInOrder'
  BY DEF StoreInv, FeedInOrder
<1>2. ItemsAreInFeed'
  BY DEF StoreInv, ItemsAreInFeed
<1>3. VerdictsStand'
  BY DEF StoreInv, VerdictsStand
<1> QED BY <1>1, <1>2, <1>3 DEF StoreInv

\* What the store decides of a request, in the terms of this module.
LEMMA DecideWrites ==
  ASSUME StoreInv, NEW new, RequestOK(new), Store!Decide(new)
  PROVE  LET won == {o \in new : Store!Current(o)}
         IN  /\ \A o \in new, v \in verdict : v.op.mut # o.mut
             /\ revision' = IF won = {} THEN revision ELSE revision + 1
             /\ DOMAIN item' = Items
             /\ \A o \in won : item'[o.item] = [rev |-> revision + 1,
                                                deleted |-> o.kind = "delete", mut |-> o.mut]
             /\ \A i \in Items : (\A o \in won : o.item # i) => item'[i] = item[i]
             /\ \A v \in verdict' : v \in verdict \/ \E o \in new :
                  v = IF o \in won
                      THEN [op |-> o, status |-> "applied", rev |-> revision + 1]
                      ELSE [op |-> o, status |-> "conflict", rev |-> 0]
             /\ verdict \subseteq verdict'
             /\ \A o \in new : \E v \in verdict' : v.op = o
<1> DEFINE won == {o \in new : Store!Current(o)}
<1>1. \A o \in new, v \in verdict : v.op.mut # o.mut
  BY DEF Store!Decide, Store!Fresh
<1>2. Store!Write(won)
  BY DEF Store!Decide
<1>3. \A o, q \in won : o.item = q.item => o = q
  BY DEF RequestOK
<1>4. \A o \in won : o.item \in Items
  BY DEF RequestOK, OpOK, OpType
<1>5. revision' = IF won = {} THEN revision ELSE revision + 1
  BY <1>2 DEF Store!Write
<1>6. CASE won = {}
  <2>1. item' = item
    BY <1>2, <1>6 DEF Store!Write
  <2>2. DOMAIN item = Items
    BY DEF StoreInv, ItemsAreInFeed
  <2>3. verdict' = verdict \cup {[op |-> o, status |-> "conflict", rev |-> 0] : o \in new}
    BY <1>6 DEF Store!Decide, Store!Applied, Store!Unapplied
  <2> HIDE DEF won
  <2>4. \A v \in verdict' : v \in verdict \/ \E o \in new :
          v = IF o \in won THEN [op |-> o, status |-> "applied", rev |-> revision + 1]
              ELSE [op |-> o, status |-> "conflict", rev |-> 0]
    BY <1>6, <2>3
  <2>5. \A o \in new : \E v \in verdict' : v.op = o
    <3> SUFFICES ASSUME NEW o \in new PROVE \E v \in verdict' : v.op = o
      OBVIOUS
    <3>1. [op |-> o, status |-> "conflict", rev |-> 0] \in verdict'
      BY <2>3
    <3> QED BY <3>1
  <2> QED BY <1>1, <1>5, <1>6, <2>1, <2>2, <2>3, <2>4, <2>5 DEF won
<1>7. CASE won # {}
  <2> DEFINE written(o) == [rev |-> revision + 1, deleted |-> o.kind = "delete",
                            mut |-> o.mut]
  <2>1. item' = [i \in Items |-> IF \E o \in won : o.item = i
                                 THEN written(CHOOSE o \in won : o.item = i) ELSE item[i]]
    BY <1>2, <1>7 DEF Store!Write
  <2>2. verdict' = verdict
          \cup {[op |-> o, status |-> "applied", rev |-> revision + 1] : o \in won}
          \cup {[op |-> o, status |-> "conflict", rev |-> 0] : o \in new \ won}
    BY DEF Store!Decide, Store!Applied, Store!Unapplied
  <2>3. won \subseteq new
    OBVIOUS
  <2> HIDE DEF won
  <2>4. ASSUME NEW o \in won PROVE item'[o.item] = written(o)
    <3>1. (CHOOSE q \in won : q.item = o.item) = o
      BY <1>3
    <3> HIDE DEF written
    <3> QED BY <1>4, <2>1, <3>1
  <2>5. \A v \in verdict' : v \in verdict \/ \E o \in new :
          v = IF o \in won THEN [op |-> o, status |-> "applied", rev |-> revision + 1]
              ELSE [op |-> o, status |-> "conflict", rev |-> 0]
    BY <2>2, <2>3
  <2>6. \A o \in new : \E v \in verdict' : v.op = o
    <3> SUFFICES ASSUME NEW o \in new PROVE \E v \in verdict' : v.op = o
      OBVIOUS
    <3>1. \/ [op |-> o, status |-> "applied", rev |-> revision + 1] \in verdict'
          \/ [op |-> o, status |-> "conflict", rev |-> 0] \in verdict'
      BY <2>2
    <3> QED BY <3>1
  <2>7. DOMAIN item' = Items /\ \A i \in Items : (\A o \in won : o.item # i) => item'[i] = item[i]
    <3> HIDE DEF written
    <3> QED BY <2>1
  <2>8. verdict \subseteq verdict'
    BY <2>2
  <2> QED BY <1>1, <1>5, <2>4, <2>5, <2>6, <2>7, <2>8 DEF won
<1> QED BY <1>6, <1>7

\* Serving a request keeps the invariant, decides what was undecided and nothing
\* else, and takes nothing back.
LEMMA ServeKeeps ==
  ASSUME StoreInv, NEW ops, RequestOK(ops), Serve(ops),
         used \subseteq used', used' \subseteq Items, clock' \in Nat,
         \A o \in ops : o.item \in used'
  PROVE  /\ StoreInv'
         /\ StoreGrows
         /\ late' \subseteq late
         /\ \A v \in verdict' : v \in verdict \/ v.op \in ops
         /\ \A o \in ops : \E v \in verdict' : v.op.mut = o.mut
<1> DEFINE new == Undecided(ops)
           won == {o \in new : Store!Current(o)}
           rev == revision + 1
           n == Len(feed)
<1>1. late' \subseteq late
  BY DEF Serve
<1>2. revision \in Nat /\ n \in Nat
  BY DEF StoreInv, FeedInOrder
<1>3. \A o \in late' : RequestOK(o) /\ \A q \in o : q.item \in used'
  BY <1>1 DEF StoreInv
<1>4. CASE new = {}
  <2>1. UNCHANGED <<revision, item, verdict, feed>>
    BY <1>4 DEF Serve
  <2>2. StoreInv'
    BY <1>3, <2>1, NothingDecided
  <2>3. StoreGrows
    BY <1>2, <2>1 DEF StoreGrows
  <2>4. \A o \in ops : \E v \in verdict' : v.op.mut = o.mut
    BY <1>4, <2>1 DEF Undecided
  <2> QED BY <1>1, <2>1, <2>2, <2>3, <2>4
<1>5. CASE new # {}
  <2>1. Store!Decide(new) /\ RequestOK(new) /\ new \subseteq ops
    BY <1>5, PartOfRequest DEF Serve, Undecided
  <2>2. feed' = feed \o SetToSeq({ChangeOf(o, rev) : o \in won})
    BY <1>5 DEF Serve, ChangeOf
  <2>3. won \subseteq new /\ RequestOK(won)
    BY <2>1, PartOfRequest
  <2>4. \A o \in won : o.base = item[o.item].rev
    BY DEF Store!Current
  <2>5. \A o \in new : o \notin won => ~Store!Current(o)
    OBVIOUS
  <2>6. \A o \in ops : o \notin new => \E v \in verdict : v.op.mut = o.mut
    BY DEF Undecided
  <2>7. /\ \A o \in new, v \in verdict : v.op.mut # o.mut
        /\ revision' = IF won = {} THEN revision ELSE rev
        /\ DOMAIN item' = Items
        /\ \A o \in won : item'[o.item] = [rev |-> rev, deleted |-> o.kind = "delete",
                                           mut |-> o.mut]
        /\ \A i \in Items : (\A o \in won : o.item # i) => item'[i] = item[i]
        /\ \A v \in verdict' : v \in verdict \/ \E o \in new :
             v = IF o \in won THEN [op |-> o, status |-> "applied", rev |-> rev]
                 ELSE [op |-> o, status |-> "conflict", rev |-> 0]
        /\ verdict \subseteq verdict'
        /\ \A o \in new : \E v \in verdict' : v.op = o
    BY <2>1, DecideWrites
  <2>8. \A o \in new : OpOK(o)
    BY <2>1 DEF RequestOK
  <2> HIDE DEF new, won
  <2>9. /\ FeedInOrder'
        /\ Len(feed') \in Nat /\ n <= Len(feed')
        /\ \A k \in 1..n : feed'[k] = feed[k]
        /\ \A k \in 1..Len(feed') : k > n => \E o \in won : feed'[k] = ChangeOf(o, rev)
        /\ \A o \in won : \E k \in 1..Len(feed') : k > n /\ feed'[k] = ChangeOf(o, rev)
    BY <2>1, <2>2, <2>3, <2>7, FeedAppend
  <2>10. /\ revision' \in Nat /\ revision <= revision'
         /\ \A o \in won : revision' = rev
    BY <1>2, <2>7
  <2>11. \A k \in 1..n : k \in 1..Len(feed') /\ feed'[k] = feed[k]
    BY <1>2, <2>9
  <2>12. ItemsAreInFeed'
    <3>1. ASSUME NEW o \in won
          PROVE  /\ item'[o.item].rev = rev /\ o.item \in Items
                 /\ \E k \in 1..Len(feed') : feed'[k] =
                      [item |-> o.item,
                       kind |-> IF item'[o.item].deleted THEN "delete" ELSE "upsert",
                       rev |-> item'[o.item].rev, stamp |-> Stamp(item'[o.item])]
      <4>1. OpOK(o) /\ o \in OpType
        BY <2>3, <2>8 DEF OpOK
      <4>0. item'[o.item] = [rev |-> rev, deleted |-> o.kind = "delete", mut |-> o.mut]
        BY <2>7
      <4>2. /\ item'[o.item].rev = rev
            /\ item'[o.item].deleted = (o.kind = "delete")
            /\ item'[o.item].mut = o.mut
        BY <4>0
      <4>3. Stamp(item'[o.item]) = Stamp(o)
        BY <4>2 DEF Stamp
      <4>4. (IF item'[o.item].deleted THEN "delete" ELSE "upsert") = o.kind
        BY <4>1, <4>2 DEF OpType
      <4>5. ChangeOf(o, rev) =
              [item |-> o.item,
               kind |-> IF item'[o.item].deleted THEN "delete" ELSE "upsert",
               rev |-> item'[o.item].rev, stamp |-> Stamp(item'[o.item])]
        BY <4>2, <4>3, <4>4 DEF ChangeOf
      <4>6. o.item \in Items
        BY <4>1 DEF OpType
      <4> QED BY <2>9, <4>2, <4>5, <4>6
    <3>2. ASSUME NEW i \in Items
          PROVE  /\ item'[i].rev \in Nat /\ item'[i].rev <= revision'
                 /\ item[i].rev <= item'[i].rev
                 /\ item'[i].rev = 0 => item'[i] = Store!Missing
                 /\ item'[i].rev # 0 => \E k \in 1..Len(feed') : feed'[k] =
                      [item |-> i, kind |-> IF item'[i].deleted THEN "delete" ELSE "upsert",
                       rev |-> item'[i].rev, stamp |-> Stamp(item'[i])]
      <4>1. item[i].rev \in Nat /\ item[i].rev <= revision
        BY DEF StoreInv, ItemsAreInFeed
      <4>2. CASE \E o \in won : o.item = i
        BY <1>2, <2>10, <3>1, <4>1, <4>2
      <4>3. CASE \A o \in won : o.item # i
        <5>1. item'[i] = item[i]
          BY <2>7, <4>3
        <5>2. item[i].rev = 0 => item[i] = Store!Missing
          BY DEF StoreInv, ItemsAreInFeed
        <5>3. item[i].rev # 0 => \E k \in 1..n : feed[k] =
                [item |-> i, kind |-> IF item[i].deleted THEN "delete" ELSE "upsert",
                 rev |-> item[i].rev, stamp |-> Stamp(item[i])]
          BY DEF StoreInv, ItemsAreInFeed
        <5>4. item[i].rev # 0 => \E k \in 1..Len(feed') : feed'[k] =
                [item |-> i, kind |-> IF item[i].deleted THEN "delete" ELSE "upsert",
                 rev |-> item[i].rev, stamp |-> Stamp(item[i])]
          BY <2>11, <5>3
        <5>5. item'[i].rev <= revision'
          BY <1>2, <2>10, <4>1, <5>1
        <5> QED BY <4>1, <5>1, <5>2, <5>4, <5>5
      <4> QED BY <4>2, <4>3
    <3>3. \A k \in 1..Len(feed') : feed'[k].rev <= item'[feed'[k].item].rev
      <4> SUFFICES ASSUME NEW k \in 1..Len(feed')
                   PROVE  feed'[k].rev <= item'[feed'[k].item].rev
        OBVIOUS
      <4>1. CASE k > n
        <5>1. PICK o \in won : feed'[k] = ChangeOf(o, rev)
          BY <2>9, <4>1
        <5>2. feed'[k].rev = rev /\ feed'[k].item = o.item
          BY <5>1 DEF ChangeOf
        <5>3. item'[o.item].rev = rev
          BY <3>1
        <5>4. feed'[k].rev <= item'[o.item].rev
          BY <1>2, <5>2, <5>3
        <5> QED BY <5>2, <5>4
      <4>2. CASE ~(k > n)
        <5>1. k \in 1..n /\ feed'[k] = feed[k]
          BY <1>2, <2>11, <4>2
        <5>2. /\ feed[k].rev <= item[feed[k].item].rev
              /\ feed[k].item \in Items /\ feed[k].rev \in Nat
          <6>1. feed[k] \in ChangeType
            BY <5>1 DEF StoreInv, FeedInOrder
          <6> QED BY <5>1, <6>1 DEF StoreInv, ItemsAreInFeed, ChangeType
        <5>3. /\ item[feed[k].item].rev <= item'[feed[k].item].rev
              /\ item'[feed[k].item].rev \in Nat /\ item[feed[k].item].rev \in Nat
          BY <3>2, <5>2 DEF StoreInv, ItemsAreInFeed
        <5> QED BY <5>1, <5>2, <5>3
      <4> QED BY <4>1, <4>2
    <3> QED BY <2>7, <3>2, <3>3 DEF ItemsAreInFeed
  <2>13. ASSUME NEW v \in verdict', v \notin verdict
         PROVE  /\ v.op \in new
                /\ v.op \in won => v = [op |-> v.op, status |-> "applied", rev |-> rev]
                /\ v.op \notin won => v = [op |-> v.op, status |-> "conflict", rev |-> 0]
    BY <2>7, <2>13
  <2>14. ASSUME NEW v \in verdict', v \notin verdict
         PROVE  /\ v.status \in {"applied", "conflict"} /\ v.rev \in Nat
                /\ v.status = "applied" => v.op \in won /\ v.rev = rev
                /\ v.status = "conflict" => v.op \notin won
    BY <1>2, <2>13, <2>14
  <2>15. VerdictsStand'
    <3>1. ASSUME NEW v \in verdict'
          PROVE  /\ OpOK(v.op)
                 /\ v.status \in {"applied", "conflict"}
                 /\ v.rev \in Nat
                 /\ v.status = "applied" =>
                      /\ v.rev > v.op.base /\ v.rev <= revision'
                      /\ \E k \in 1..Len(feed') : feed'[k] = ChangeOf(v.op, v.rev)
      <4>1. CASE v \in verdict
        <5>1. /\ OpOK(v.op) /\ v.status \in {"applied", "conflict"} /\ v.rev \in Nat
              /\ v.status = "applied" =>
                   /\ v.rev > v.op.base /\ v.rev <= revision
                   /\ \E k \in 1..n : feed[k] = ChangeOf(v.op, v.rev)
          BY <4>1 DEF StoreInv, VerdictsStand
        <5> QED BY <1>2, <2>10, <2>11, <5>1
      <4>2. CASE v \notin verdict
        <5>1. OpOK(v.op)
          BY <2>8, <2>13, <4>2
        <5>2. ASSUME v.status = "applied"
              PROVE  /\ v.rev > v.op.base /\ v.rev <= revision'
                     /\ \E k \in 1..Len(feed') : feed'[k] = ChangeOf(v.op, v.rev)
          <6>1. v.op \in won /\ v.rev = rev
            BY <2>14, <4>2, <5>2
          <6>2. v.op.item \in Items
            BY <5>1 DEF OpOK, OpType
          <6>3. v.op.base <= revision /\ v.op.base \in Nat
            BY <2>4, <6>1, <6>2 DEF StoreInv, ItemsAreInFeed
          <6> QED BY <1>2, <2>9, <2>10, <6>1, <6>3
        <5> QED BY <2>14, <4>2, <5>1, <5>2
      <4> QED BY <4>1, <4>2
    <3>2. ASSUME NEW v \in verdict', NEW w \in verdict', v.op.mut = w.op.mut PROVE v = w
      <4>1. CASE v \in verdict /\ w \in verdict
        BY <3>2, <4>1 DEF StoreInv, VerdictsStand
      <4>2. CASE v \notin verdict /\ w \notin verdict
        <5>1. v.op \in new /\ w.op \in new /\ v.op.mut[3] = v.op.item /\ w.op.mut[3] = w.op.item
          BY <2>8, <2>13, <4>2 DEF OpOK
        <5>2. v.op = w.op
          BY <2>1, <3>2, <5>1 DEF RequestOK
        <5> QED BY <2>13, <4>2, <5>2
      <4>3. CASE v \in verdict /\ w \notin verdict
        BY <2>7, <2>13, <3>2, <4>3
      <4>4. CASE v \notin verdict /\ w \in verdict
        BY <2>7, <2>13, <3>2, <4>4
      <4> QED BY <4>1, <4>2, <4>3, <4>4
    <3> QED BY <3>1, <3>2 DEF VerdictsStand
  <2>16. StoreInv'
    BY <1>3, <2>9, <2>10, <2>12, <2>15 DEF StoreInv
  <2>17. StoreGrows
    <3>1. \A k \in 1..Len(feed') : k > n => feed'[k].rev = rev
      <4> SUFFICES ASSUME NEW k \in 1..Len(feed'), k > n PROVE feed'[k].rev = rev
        OBVIOUS
      <4>1. PICK o \in won : feed'[k] = ChangeOf(o, rev)
        BY <2>9
      <4> QED BY <4>1 DEF ChangeOf
    <3>2. \A v \in verdict' : v \notin verdict =>
            /\ \A w \in verdict : w.op.mut # v.op.mut
            /\ v.status = "applied" => v.rev = rev
            /\ v.status = "conflict" => ~Store!Current(v.op)
      BY <2>5, <2>7, <2>13, <2>14
    <3> QED BY <2>7, <2>9, <2>10, <3>1, <3>2 DEF StoreGrows
  <2>18. \A v \in verdict' : v \in verdict \/ v.op \in ops
    BY <2>1, <2>13
  <2>19. \A o \in ops : \E v \in verdict' : v.op.mut = o.mut
    BY <2>6, <2>7
  <2> QED BY <1>1, <2>16, <2>17, <2>18, <2>19
<1> QED BY <1>4, <1>5

----------------------------------------------------------------------------
(* The other steps of the world.                                            *)

\* A step that leaves the store alone.
LEMMA StoreUnchanged ==
  ASSUME StoreInv, UNCHANGED store, used \subseteq used', used' \subseteq Items,
         clock' \in Nat
  PROVE  StoreInv' /\ StoreGrows
<1>1. UNCHANGED <<revision, item, verdict, feed>> /\ late' = late
  BY DEF store
<1>2. \A ops \in late' : RequestOK(ops) /\ \A o \in ops : o.item \in used'
  BY <1>1 DEF StoreInv
<1>3. StoreInv'
  BY <1>1, <1>2, NothingDecided
<1>4. StoreGrows
  BY <1>1 DEF StoreGrows, StoreInv, FeedInOrder
<1> QED BY <1>3, <1>4

\* A request that nobody waits for any more.
LEMMA GiveUpKeeps ==
  ASSUME StoreInv, NEW ops, RequestOK(ops), \A o \in ops : o.item \in used,
         GiveUp(ops), UNCHANGED <<clock, used>>
  PROVE  StoreInv' /\ StoreGrows /\ late' \subseteq late \cup {ops}
<1>1. UNCHANGED <<revision, item, verdict, feed>> /\ late' \subseteq late \cup {ops}
  BY DEF GiveUp
<1>2. \A r \in late' : RequestOK(r) /\ \A o \in r : o.item \in used'
  BY <1>1 DEF StoreInv
<1>3. used \subseteq used' /\ used' \subseteq Items /\ clock' \in Nat
  BY DEF StoreInv
<1>4. StoreInv'
  BY <1>1, <1>2, <1>3, NothingDecided
<1>5. StoreGrows
  BY <1>1 DEF StoreGrows, StoreInv, FeedInOrder
<1> QED BY <1>1, <1>4, <1>5

\* The operation of another client is applied: it is on the item's revision.
LEMMA OthersWriteKeeps ==
  ASSUME StoreInv, NEW i \in Items, NEW kind \in {"upsert", "delete"}, OthersWrite(i, kind)
  PROVE  /\ StoreInv'
         /\ StoreGrows
         /\ late' \subseteq late
         /\ clock < MaxEdits /\ clock' = clock + 1 /\ used \subseteq used'
         /\ \A v \in verdict' : v \notin verdict =>
              v.status = "applied" /\ v.op.mut[2] = clock
<1> DEFINE stamp == IF kind = "upsert" THEN clock + 1 ELSE 0
           op == [mut |-> <<Others, clock, i, stamp>>, item |-> i, kind |-> kind,
                  base |-> item[i].rev]
<1>1. /\ Serve({op}) /\ clock < MaxEdits /\ clock' = clock + 1 /\ used' = used \cup {i}
      /\ kind = "delete" => item[i].rev > 0
  BY DEF OthersWrite
<1>2. clock \in Nat /\ item[i].rev \in Nat /\ used \subseteq Items
  BY DEF StoreInv, ItemsAreInFeed
<1>3. OpOK(op)
  BY <1>2 DEF OpOK, OpType, Authors, Stamp
<1>4. Store!Current(op)
  BY <1>1, <1>2 DEF Store!Current, Store!Missing
<1>5. op.item = i /\ op.mut[2] = clock
  OBVIOUS
<1> HIDE DEF op
<1>6. RequestOK({op})
  BY <1>3, FS_Singleton DEF RequestOK
<1>7. used \subseteq used' /\ used' \subseteq Items /\ clock' \in Nat
  BY <1>1, <1>2
<1>8. \A o \in {op} : o.item \in used'
  BY <1>1, <1>5
<1>9. /\ StoreInv' /\ StoreGrows /\ late' \subseteq late
      /\ \A v \in verdict' : v \in verdict \/ v.op \in {op}
  BY <1>1, <1>6, <1>7, <1>8, ServeKeeps
<1>10. ASSUME NEW v \in verdict', v \notin verdict
       PROVE  v.status = "applied" /\ v.op.mut[2] = clock
  <2>1. v.op = op
    BY <1>9, <1>10
  <2>2. v.status \in {"applied", "conflict"}
    BY <1>9 DEF StoreInv, VerdictsStand
  <2>3. v.status # "conflict"
    BY <1>4, <1>9, <1>10, <2>1 DEF StoreGrows
  <2> QED BY <1>5, <2>1, <2>2, <2>3
<1> QED BY <1>1, <1>7, <1>9, <1>10

----------------------------------------------------------------------------
(* Where the changes of the feed come from, and how a client reads them.    *)

\* Every change is that of an applied operation.
FeedIsDecided ==
  \A k \in 1..Len(feed) :
    \E v \in verdict : v.status = "applied" /\ feed[k] = ChangeOf(v.op, v.rev)

LEMMA FeedStaysDecided ==
  ASSUME StoreInv, StoreGrows, FeedIsDecided, NEW ops, RequestOK(ops), Serve(ops),
         used \subseteq used', \A o \in ops : o.item \in used'
  PROVE  FeedIsDecided'
<1> DEFINE new == Undecided(ops)
           won == {o \in new : Store!Current(o)}
           rev == revision + 1
           n == Len(feed)
<1>1. n \in Nat /\ Len(feed') \in Nat /\ n <= Len(feed')
  BY DEF StoreInv, FeedInOrder, StoreGrows
<1>2. \A k \in 1..n :
        \E v \in verdict' : v.status = "applied" /\ feed'[k] = ChangeOf(v.op, v.rev)
  BY DEF FeedIsDecided, StoreGrows
<1>3. CASE new = {}
  <2>1. feed' = feed
    BY <1>3 DEF Serve
  <2> QED BY <1>2, <2>1 DEF FeedIsDecided
<1>4. CASE new # {}
  <2>1. Store!Decide(new) /\ RequestOK(new) /\ new \subseteq ops
    BY <1>4, PartOfRequest DEF Serve, Undecided
  <2>2. feed' = feed \o SetToSeq({ChangeOf(o, rev) : o \in won})
    BY <1>4 DEF Serve, ChangeOf
  <2>3. won \subseteq new /\ RequestOK(won) /\ \A o \in won : o.item \in used'
    BY <2>1, PartOfRequest
  <2>4. /\ \A o \in new, v \in verdict : v.op.mut # o.mut
        /\ revision' = IF won = {} THEN revision ELSE rev
        /\ \A v \in verdict' : v \in verdict \/ \E o \in new :
             v = IF o \in won THEN [op |-> o, status |-> "applied", rev |-> rev]
                 ELSE [op |-> o, status |-> "conflict", rev |-> 0]
        /\ \A o \in new : \E v \in verdict' : v.op = o
    BY <2>1, DecideWrites
  <2> HIDE DEF new, won
  <2>5. \A k \in 1..Len(feed') : k > n => \E o \in won : feed'[k] = ChangeOf(o, rev)
    BY <2>2, <2>3, <2>4, FeedAppend
  <2>6. ASSUME NEW o \in won
        PROVE  \E v \in verdict' : v.status = "applied" /\ v.op = o /\ v.rev = rev
    <3>1. PICK v \in verdict' : v.op = o
      BY <2>3, <2>4
    <3>2. v \notin verdict
      BY <2>3, <2>4, <3>1
    <3>3. PICK q \in new : v = IF q \in won THEN [op |-> q, status |-> "applied", rev |-> rev]
                               ELSE [op |-> q, status |-> "conflict", rev |-> 0]
      BY <2>4, <3>2
    <3>4. q = o
      BY <3>1, <3>3
    <3> QED BY <3>1, <3>3, <3>4
  <2>7. ASSUME NEW k \in 1..Len(feed'), k > n
        PROVE  \E v \in verdict' : v.status = "applied" /\ feed'[k] = ChangeOf(v.op, v.rev)
    <3>1. PICK o \in won : feed'[k] = ChangeOf(o, rev)
      BY <2>5, <2>7
    <3> QED BY <2>6, <3>1
  <2>8. \A k \in 1..Len(feed') : k \in 1..n \/ k > n
    BY <1>1
  <2> QED BY <1>2, <2>7, <2>8 DEF FeedIsDecided
<1> QED BY <1>3, <1>4

\* A page is the part of the feed behind the cursor.
LEMMA PageIsPart ==
  ASSUME StoreInv, NEW cursor \in 0..Len(feed)
  PROVE  LET e == PageEnd(feed, cursor)
             page == Page(feed, cursor)
         IN  /\ e \in cursor..Len(feed)
             /\ Len(page) = e - cursor /\ DOMAIN page = 1..e - cursor
             /\ \A k \in 1..e - cursor : page[k] = feed[cursor + k]
<1> DEFINE e == PageEnd(feed, cursor)
           page == Page(feed, cursor)
<1>1. Len(feed) \in Nat /\ cursor \in Nat /\ cursor <= Len(feed) /\ feed \in Seq(ChangeType)
  BY DEF StoreInv, FeedInOrder
<1>2. e \in cursor..Len(feed)
  BY <1>1, EngineAssumption DEF PageEnd
<1> HIDE DEF e
<1>3. cursor + 1 \in Int /\ e \in Int /\ \A k \in cursor + 1..e : feed[k] \in ChangeType
  BY <1>1, <1>2
<1>4. /\ page \in Seq(ChangeType)
      /\ Len(page) = IF cursor + 1 <= e THEN e - (cursor + 1) + 1 ELSE 0
      /\ \A k \in 1..e - (cursor + 1) + 1 : page[k] = feed[cursor + 1 + k - 1]
  BY <1>3, SubSeqProperties DEF Page, e
<1>5. DOMAIN page = 1..Len(page)
  BY <1>4
<1>6. Len(page) = e - cursor
  BY <1>1, <1>2, <1>4
<1>7. ASSUME NEW k \in 1..e - cursor PROVE page[k] = feed[cursor + k]
  <2>1. k \in 1..e - (cursor + 1) + 1 /\ cursor + 1 + k - 1 = cursor + k
    BY <1>1, <1>2
  <2> QED BY <1>4, <2>1
<1> QED BY <1>2, <1>5, <1>6, <1>7 DEF e

\* Induction up to a bound, over a set.
LEMMA UpToInduction ==
  ASSUME NEW N \in Nat, NEW T, 0 \in T, \A k \in 0..N : k < N /\ k \in T => k + 1 \in T
  PROVE  \A k \in 0..N : k \in T
<1> DEFINE S == {k \in 0..N : \A j \in 0..k : j \in T}
<1>1. S \in SUBSET Nat /\ 0 \in S /\ \A k \in S : k <= N
  OBVIOUS
<1>2. PICK m \in S : \A k \in S : k <= m
  <2> HIDE DEF S
  <2> QED BY <1>1, MaximumExists
<1>3. m \in 0..N /\ \A j \in 0..m : j \in T
  OBVIOUS
<1>4. ~(m < N)
  <2> SUFFICES ASSUME m < N PROVE FALSE
    OBVIOUS
  <2>1. m + 1 \in 0..N /\ m + 1 \in T
    BY <1>3
  <2>2. \A j \in 0..m + 1 : j \in 0..m \/ j = m + 1
    BY <1>3
  <2>3. m + 1 \in S
    BY <1>3, <2>1, <2>2
  <2> QED BY <1>2, <1>3, <2>3
<1> QED BY <1>3, <1>4

=============================================================================
