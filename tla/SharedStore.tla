----------------------------- MODULE SharedStore -----------------------------
(***************************************************************************)
(* The item-sync store as a client of the account meets it: the atomic     *)
(* compare-and-set of ItemSyncAtomic, which ItemSyncStore is shown to      *)
(* implement, its feed, the network, and the account's other clients.      *)
(*                                                                         *)
(* A client reacts to an answer or a page without waiting for anyone else, *)
(* so that the arrival of a request, the answer and the commit that        *)
(* follows are one step of a client.  A request that its client gave up on *)
(* stays in "late": it may arrive at any time, or never.                   *)
(***************************************************************************)
EXTENDS SyncEngine

CONSTANTS
  Clients,   \* the clients that a module models in detail
  Others,    \* all the other clients
  MaxEdits   \* bound of the model: what users ever do to items, in number

ASSUME ClientAssumption == Others \notin Clients /\ MaxEdits \in Nat

VARIABLES
  revision, item, verdict,  \* the store: see ItemSyncAtomic
  feed,                     \* item_sync_changes: the changes in cursor order
  late,                     \* the requests on their way that nobody waits for
  clock, used               \* what users have done so far, the items ever made

store == <<revision, item, verdict, feed, late>>
world == <<store, clock, used>>

Store == INSTANCE ItemSyncAtomic WITH OpSets <- {}

StoreInit == Store!Init /\ feed = <<>> /\ late = {} /\ clock = 0 /\ used = {}

Stamp(o) == o.mut[4]
Undecided(ops) == {o \in ops : \A v \in verdict : v.op.mut # o.mut}

\* A request arrives: what is new in it is decided at once, what was decided
\* before is answered as it was.  A late request with nothing new in it is
\* forgotten: it changes nothing when it arrives.
Serve(ops) ==
  LET new == Undecided(ops)
      Change(o) == [item |-> o.item, kind |-> o.kind, rev |-> revision + 1, stamp |-> Stamp(o)]
  IN  /\ IF new = {} THEN UNCHANGED <<revision, item, verdict, feed>>
         ELSE /\ Store!Decide(new)
              /\ feed' = feed \o SetToSeq({Change(o) : o \in {x \in new : Store!Current(x)}})
      /\ late' = {r \in late : ~ Undecided(r) \subseteq new}

\* The client gives up on a request that is on its way.
GiveUp(ops) ==
  /\ late' = IF Undecided(ops) = {} THEN late ELSE late \cup {ops}
  /\ UNCHANGED <<revision, item, verdict, feed>>

Arrive == \E ops \in late : Serve(ops) /\ UNCHANGED <<clock, used>>

----------------------------------------------------------------------------
(* What users do to items.                                                  *)

\* A version for item i: of an item that is there, or of a new one.
MakeVersion(vault, i) ==
  /\ clock < MaxEdits
  /\ vault[i] # 0 \/ i \notin used
  /\ clock' = clock + 1
  /\ used' = used \cup {i}

\* Another client edits or deletes an item.  It pushes on the item's revision:
\* if not, it is told of a conflict and the store is as it was.
OthersWrite(i, kind) ==
  LET stamp == IF kind = "upsert" THEN clock + 1 ELSE 0
      op == [mut |-> <<Others, clock, i, stamp>>, item |-> i, kind |-> kind,
             base |-> item[i].rev]
      live == item[i].rev > 0 /\ ~item[i].deleted
  IN  /\ clock < MaxEdits
      /\ live \/ (kind = "upsert" /\ i \notin used)
      /\ Serve({op})
      /\ clock' = clock + 1
      /\ used' = used \cup {i}

Environment ==
  \/ Arrive
  \/ \E i \in Items, kind \in {"upsert", "delete"} : OthersWrite(i, kind)

----------------------------------------------------------------------------
(* The states of a client.                                                  *)

Pending == [kind: {"none", "upsert", "delete"}, stamp: Nat, base: Nat,
            mut: (Clients \X Nat \X Items \X Nat) \cup {NoMutation}]
SyncState ==
  [cursor: Nat, serverRevision: Nat, revisions: [Items -> Nat \cup {NoRevision}],
   timestamps: [Items -> Nat], pending: [Items -> Pending], conflicts: SUBSET Items]
Vault == [Items -> Nat]

StoreTypeOK ==
  /\ revision \in Nat /\ clock \in 0..MaxEdits /\ used \subseteq Items
  /\ \A k \in DOMAIN feed : feed[k].item \in Items /\ feed[k].rev \in 1..revision

\* The number after plan, n if none of its mutation ids is fresh.
NextNumber(n, plan) == IF \E i \in DOMAIN plan : plan[i].mut[2] = n THEN n + 1 ELSE n

\* What the server holds of item i: the version of its last change.
Latest(i) == IF RemoteIsLive(feed, i) THEN Remote(feed, i).stamp ELSE 0

=============================================================================
