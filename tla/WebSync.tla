------------------------------- MODULE WebSync -------------------------------
(***************************************************************************)
(* The web client as a host of the sync engine, in one tab.  The page      *)
(* keeps the vault in memory (unlockedVault) and as it was last sealed     *)
(* (encryptedVault); localStorage keeps the sealed vault and the sync      *)
(* state.  A run works on the page's vault as it was when the run began    *)
(* and, if it ends well, puts its result in its place.                     *)
(*                                                                         *)
(* A save takes two steps, before and after the vault is sealed.  Forms    *)
(* are disabled while "loading" is set; the timers that start a run do not *)
(* look at it, and whatever ends first clears it.                          *)
(***************************************************************************)
EXTENDS SharedStore

CONSTANT MaxPlans  \* bound of the model: conflicts a user settles by pushing

VARIABLES
  tab,   \* per client: its page, what it stores, its save and its run
  asked  \* the deletions of users: client and item

vars == <<world, tab, asked>>

----------------------------------------------------------------------------
(* Saves: submitItem, confirmDelete and their batch forms.                  *)

BeginSave(t, vault) ==
  /\ tab[t].unlocked /\ ~tab[t].loading
  /\ tab' = [tab EXCEPT ![t].saving = TRUE, ![t].save = vault, ![t].loading = TRUE]
  /\ UNCHANGED store

SubmitItem(t, i) ==
  /\ MakeVersion(tab[t].page, i)
  /\ BeginSave(t, [tab[t].page EXCEPT ![i] = clock + 1])
  /\ UNCHANGED asked

ConfirmDelete(t, i) ==
  /\ tab[t].page[i] # 0
  /\ BeginSave(t, [tab[t].page EXCEPT ![i] = 0])
  /\ asked' = asked \cup {<<t, i>>}
  /\ UNCHANGED <<clock, used>>

\* persistUnlockedVault stores a sealed vault; the page takes both.
Persisted(client, vault) ==
  [client EXCEPT !.stored = vault, !.sealed = vault, !.page = vault, !.unlocked = TRUE]

EndSave(t) ==
  /\ tab[t].saving
  /\ tab' = [tab EXCEPT ![t] =
       [Persisted(@, @.save) EXCEPT !.saving = FALSE, !.save = EmptyVault, !.loading = FALSE]]
  /\ UNCHANGED <<world, asked>>

----------------------------------------------------------------------------
(* syncNow, performIncrementalSync.                                         *)

Start(t) ==
  /\ tab[t].pc = "idle" /\ tab[t].unlocked
  /\ tab' = [tab EXCEPT ![t].pc = "plan", ![t].loading = TRUE,
                        ![t].vault = tab[t].page, ![t].state = tab[t].sync]
  /\ UNCHANGED <<world, asked>>

\* commit(state): the sync state is stored; the run goes on with it.
Committed(client, s) == [client EXCEPT !.state = s, !.sync = s]

Plan(t) ==
  /\ tab[t].pc = "plan"
  /\ \E plan \in Plans(tab[t].vault, tab[t].state, t, tab[t].n) :
       tab' = [tab EXCEPT ![t] =
         [Committed(@, WithPending(@.state, plan)) EXCEPT
            !.plan = plan, !.n = NextNumber(@, plan),
            !.pc = IF plan = <<>> THEN "pull" ELSE "push"]]
  /\ UNCHANGED <<world, asked>>

Push(t) ==
  /\ tab[t].pc = "push"
  /\ Serve(Operations(tab[t].plan))
  /\ ValidAnswer(tab[t].state, tab[t].plan, verdict', revision')
  /\ tab' = [tab EXCEPT ![t] =
       [Committed(@, AfterPush(@.state, @.plan, verdict', revision')) EXCEPT
          !.plan = <<>>, !.pc = "plan"]]
  /\ UNCHANGED <<clock, used, asked>>

\* The run is over, and so is the loading.
Over(client) ==
  [client EXCEPT !.pc = "idle", !.plan = <<>>, !.vault = EmptyVault,
                 !.state = EmptySyncState, !.loading = FALSE]

\* Every page is committed, the vault first; after the last one the result
\* replaces the page's vault.
Pull(t) ==
  /\ tab[t].pc = "pull"
  /\ LET after == AfterPage(tab[t].vault, tab[t].state, feed, revision)
         committed == [Committed(tab[t], after.sync) EXCEPT !.stored = after.vault,
                                                            !.vault = after.vault]
     IN  tab' = [tab EXCEPT ![t] = IF HasMore(feed, tab[t].state.cursor) THEN committed
                                   ELSE Over(Persisted(committed, after.vault))]
  /\ UNCHANGED <<world, asked>>

\* A request that was in flight may have arrived, or may still.
Abandon(t) ==
  /\ IF tab[t].pc = "push" THEN GiveUp(Operations(tab[t].plan)) ELSE UNCHANGED store
  /\ UNCHANGED <<clock, used, asked>>

\* performSync returns an error: the page stays as it is.
Fail(t) ==
  /\ tab[t].pc # "idle"
  /\ Abandon(t)
  /\ tab' = [tab EXCEPT ![t] = Over(@)]

----------------------------------------------------------------------------
(* Locking and leaving.                                                     *)

Lock(t) ==
  /\ tab[t].unlocked
  /\ tab' = [tab EXCEPT ![t].unlocked = FALSE, ![t].page = EmptyVault]
  /\ UNCHANGED <<world, asked>>

Unlock(t) ==
  /\ ~tab[t].unlocked
  /\ tab' = [tab EXCEPT ![t].unlocked = TRUE, ![t].page = tab[t].sealed]
  /\ UNCHANGED <<world, asked>>

\* The page is reloaded: what is stored is what is left.
Reload(t) ==
  /\ Abandon(t)
  /\ tab' = [tab EXCEPT ![t] =
       [Over(@) EXCEPT !.unlocked = FALSE, !.page = EmptyVault, !.sealed = tab[t].stored,
                       !.saving = FALSE, !.save = EmptyVault]]

----------------------------------------------------------------------------
(* Conflicts.                                                               *)

MaySettle(t, i) == tab[t].unlocked /\ ~tab[t].loading /\ i \in tab[t].sync.conflicts

\* handleResolveAcceptRemote
AcceptRemote(t, i) ==
  LET taken == TakeRemote(tab[t].page, tab[t].sync, feed, i)
  IN  /\ MaySettle(t, i)
      /\ tab' = [tab EXCEPT ![t] = [Persisted(@, taken.vault) EXCEPT !.sync = taken.sync]]
      /\ UNCHANGED <<world, asked>>

\* handleResolveCreateCopy: the same, and the local version lives on as item j.
CreateCopy(t, i, j) ==
  LET taken == TakeRemote(tab[t].page, tab[t].sync, feed, i)
  IN  /\ MaySettle(t, i) /\ tab[t].page[i] # 0 /\ j \notin used
      /\ MakeVersion(tab[t].page, j)
      /\ tab' = [tab EXCEPT ![t] =
           [Persisted(@, [taken.vault EXCEPT ![j] = clock + 1]) EXCEPT !.sync = taken.sync]]
      /\ UNCHANGED <<store, asked>>

\* handleResolveKeepLocal: the local version, or deletion, is pushed on the
\* revision the feed ends with, under a new mutation id.
KeptLocal(t, i) ==
  [kind |-> IF tab[t].page[i] # 0 THEN "upsert" ELSE "delete",
   mut |-> <<t, tab[t].n, i, tab[t].page[i]>>, stamp |-> tab[t].page[i],
   base |-> IF HasRemote(feed, i) THEN Remote(feed, i).rev ELSE 0]

KeepLocal(t, i) ==
  LET plan == [j \in {i} |-> KeptLocal(t, i)]
      pending == WithPending(tab[t].sync, plan)
      answered == AfterPush(pending, plan, verdict', revision')
      Remember(s) == tab' = [tab EXCEPT ![t].n = @ + 1, ![t].sync = s]
  IN  /\ MaySettle(t, i) /\ tab[t].n < MaxPlans
      /\ tab[t].page[i] # 0 \/ tab[t].sync.pending[i].kind = "delete"
      /\ \/ /\ Serve(Operations(plan))
            /\ IF answered.pending[i] = NoPending
               THEN Remember([answered EXCEPT !.conflicts = @ \ {i}])
               ELSE Remember(pending)
         \/ GiveUp(Operations(plan)) /\ Remember(pending)
      /\ UNCHANGED <<clock, used, asked>>

----------------------------------------------------------------------------
(* Specification.                                                           *)

Init ==
  /\ StoreInit
  /\ asked = {}
  /\ tab = [t \in Clients |->
       [unlocked |-> TRUE, loading |-> FALSE, page |-> EmptyVault, sealed |-> EmptyVault,
        stored |-> EmptyVault, sync |-> EmptySyncState, saving |-> FALSE, save |-> EmptyVault,
        pc |-> "idle", vault |-> EmptyVault, state |-> EmptySyncState, plan |-> <<>>, n |-> 0]]

TabNext(t) ==
  \/ Start(t) \/ Plan(t) \/ Push(t) \/ Pull(t) \/ Fail(t)
  \/ EndSave(t) \/ Lock(t) \/ Unlock(t) \/ Reload(t)
  \/ \E i \in Items :
       \/ SubmitItem(t, i) \/ ConfirmDelete(t, i)
       \/ KeepLocal(t, i) \/ AcceptRemote(t, i) \/ \E j \in Items : CreateCopy(t, i, j)

Next ==
  \/ Environment /\ UNCHANGED <<tab, asked>>
  \/ \E t \in Clients : TabNext(t)

Spec == Init /\ [][Next]_vars

----------------------------------------------------------------------------
(* Properties.                                                              *)

\* "Web pushes local edits/deletions before pulling" (docs/sync-protocol.md): a
\* deletion that the web client sends is a deletion its user made in it.
PushedDeletionsAreLocal ==
  \A v \in verdict : v.op.mut[1] \in Clients /\ v.op.kind = "delete" =>
    <<v.op.mut[1], v.op.item>> \in asked

=============================================================================
