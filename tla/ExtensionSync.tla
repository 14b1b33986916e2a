---------------------------- MODULE ExtensionSync ----------------------------
(***************************************************************************)
(* The browser extension as a host of the sync engine.  One record in      *)
(* storage.local holds the sealed vault and the sync state; every commit   *)
(* rewrites it; all messages but LOCK_VAULT wait for each other in one     *)
(* queue.  So what a run works on is what is stored, and a run can end     *)
(* between any two commits: a request or an answer is lost, the vault is   *)
(* locked, the service worker is stopped.                                  *)
(***************************************************************************)
EXTENDS SharedStore

VARIABLES ext  \* per extension: the record, whether it is unlocked, and its run

vars == <<world, ext>>

----------------------------------------------------------------------------
(* A run.                                                                   *)

ExtStart(e) ==
  /\ ext[e].pc = "idle" /\ ext[e].unlocked
  /\ ext' = [ext EXCEPT ![e].pc = "plan"]
  /\ UNCHANGED world

\* The user saves a login; the run follows in the same message.
ExtSave(e, i) ==
  /\ ext[e].pc = "idle" /\ ext[e].unlocked
  /\ MakeVersion(ext[e].vault, i)
  /\ ext' = [ext EXCEPT ![e].pc = "plan", ![e].vault[i] = clock + 1]
  /\ UNCHANGED store

\* Mutant: the plan is sent before it is committed.
PlannedStateLater(s, plan) == s

\* The plan is committed before it is sent.
PlannedState(s, plan) == WithPending(s, plan)

ExtPlan(e) ==
  /\ ext[e].pc = "plan"
  /\ \E plan \in Plans(ext[e].vault, ext[e].sync, e, ext[e].n) :
       ext' = [ext EXCEPT ![e].sync = PlannedState(@, plan), ![e].plan = plan,
                          ![e].pc = IF plan = <<>> THEN "pull" ELSE "push",
                          ![e].n = NextNumber(@, plan)]
  /\ UNCHANGED world

ExtPush(e) ==
  /\ ext[e].pc = "push"
  /\ Serve(Operations(ext[e].plan))
  /\ ValidAnswer(ext[e].sync, ext[e].plan, verdict', revision')
  /\ ext' = [ext EXCEPT ![e].sync = AfterPush(@, ext[e].plan, verdict', revision'),
                        ![e].plan = <<>>, ![e].pc = "plan"]
  /\ UNCHANGED <<clock, used>>

\* The vault and the cursor are committed in one write.
ExtPull(e) ==
  /\ ext[e].pc = "pull"
  /\ LET after == AfterPage(ext[e].vault, ext[e].sync, feed, revision)
     IN  ext' = [ext EXCEPT ![e].vault = after.vault, ![e].sync = after.sync,
                            ![e].pc = IF HasMore(feed, ext[e].sync.cursor)
                                      THEN "pull" ELSE "idle"]
  /\ UNCHANGED world

\* The run ends early, with or without the vault being locked.  A request in
\* flight may have been served, may still be, or never.
ExtStop(e) ==
  IF ext[e].pc = "push" THEN GiveUp(Operations(ext[e].plan)) ELSE UNCHANGED store

ExtFail(e) ==
  /\ ext[e].pc # "idle"
  /\ ExtStop(e)
  /\ ext' = [ext EXCEPT ![e].pc = "idle", ![e].plan = <<>>]
  /\ UNCHANGED <<clock, used>>

ExtLock(e) ==
  /\ ext[e].unlocked
  /\ ExtStop(e)
  /\ ext' = [ext EXCEPT ![e].pc = "idle", ![e].plan = <<>>, ![e].unlocked = FALSE]
  /\ UNCHANGED <<clock, used>>

\* Unlocking synchronizes.
ExtUnlock(e) ==
  /\ ~ext[e].unlocked
  /\ ext' = [ext EXCEPT ![e].pc = "plan", ![e].unlocked = TRUE]
  /\ UNCHANGED world

\* resolveConflict reads the whole feed, settles the item and synchronizes.
ExtKeepLocal(e, i) ==
  LET revisionOfRemote == IF HasRemote(feed, i) THEN Remote(feed, i).rev ELSE NoRevision
  IN  /\ ext[e].pc = "idle" /\ ext[e].unlocked
      /\ i \in ext[e].sync.conflicts
      /\ ext' = [ext EXCEPT ![e].pc = "plan",
                            ![e].sync = Settled(@, i, revisionOfRemote, 0)]
      /\ UNCHANGED world

\* copyTo: the local version lives on as item j.
ExtTakeRemote(e, i, copyTo) ==
  LET taken == TakeRemote(ext[e].vault, ext[e].sync, feed, i)
  IN  /\ ext[e].pc = "idle" /\ ext[e].unlocked
      /\ i \in ext[e].sync.conflicts
      /\ IF copyTo = {}
         THEN /\ ext' = [ext EXCEPT ![e].pc = "plan", ![e].vault = taken.vault,
                                    ![e].sync = taken.sync]
              /\ UNCHANGED <<clock, used>>
         ELSE \E j \in copyTo \ used :
                /\ MakeVersion(ext[e].vault, j)
                /\ ext' = [ext EXCEPT ![e].pc = "plan", ![e].sync = taken.sync,
                                      ![e].vault = [taken.vault EXCEPT ![j] = clock + 1]]
      /\ UNCHANGED store

ExtNext(e) ==
  \/ ExtStart(e) \/ ExtPlan(e) \/ ExtPush(e) \/ ExtPull(e)
  \/ ExtFail(e) \/ ExtLock(e) \/ ExtUnlock(e)
  \/ \E i \in Items :
       \/ ExtSave(e, i) \/ ExtKeepLocal(e, i)
       \/ ExtTakeRemote(e, i, {}) \/ ExtTakeRemote(e, i, Items)

----------------------------------------------------------------------------
(* Specification.  Every extension has just been connected.                 *)

Init ==
  /\ StoreInit
  /\ ext = [e \in Clients |->
       [unlocked |-> TRUE, pc |-> "idle", vault |-> EmptyVault, sync |-> EmptySyncState,
        plan |-> <<>>, n |-> 0]]

Next ==
  \/ Environment /\ UNCHANGED ext
  \/ \E e \in Clients : ExtNext(e)

Spec == Init /\ [][Next]_vars

\* The alarm rings every minute and the queue serves it; a step that is tried
\* again and again gets through in the end.
Fairness(e) ==
  SF_vars(ExtStart(e)) /\ SF_vars(ExtPlan(e)) /\ SF_vars(ExtPush(e)) /\ SF_vars(ExtPull(e))

FairSpec == Spec /\ \A e \in Clients : Fairness(e)

----------------------------------------------------------------------------
(* Properties.                                                              *)

\* The state is of its type, and a plan is on its way exactly while it is awaited.
TypeOK ==
  /\ StoreTypeOK
  /\ \A e \in Clients :
       /\ ext[e].vault \in Vault /\ ext[e].sync \in SyncState
       /\ ext[e].pc \in {"idle", "plan", "push", "pull"}
       /\ ext[e].pc = "push" <=> ext[e].plan # <<>>

\* What a client takes for synced is what the server stored: the revision it
\* has for an item and the version it has synced come from one change.
BaselineIsServed ==
  \A e \in Clients, i \in Items :
    LET s == ext[e].sync
    IN  s.revisions[i] # NoRevision /\ s.timestamps[i] # 0 =>
          \E k \in DOMAIN feed :
            feed[k] = [item |-> i, kind |-> "upsert",
                       rev |-> s.revisions[i], stamp |-> s.timestamps[i]]

\* A cursor that is stored covers the vault stored with it: of a change behind
\* it the extension holds that version or one as new, unless its user settles a
\* conflict about the item or has an edit of it on the way.
CursorCoversVault ==
  \A e \in Clients, k \in DOMAIN feed :
    LET s == ext[e].sync
        i == feed[k].item
    IN  k <= s.cursor /\ i \notin s.conflicts =>
          \/ s.revisions[i] >= feed[k].rev
          \/ \E l \in k..Len(feed) : feed[l].item = i /\ feed[l].kind = "delete"

\* The extension has no way to delete an item: what it sends never deletes one,
\* whatever was pulled, in part or twice, in conflict or taken from the server.
ExtensionDeletesNothing ==
  \A v \in verdict : v.op.mut[1] \in Clients => v.op.kind = "upsert"

\* An edit the extension saved is not replaced by what it pulls before the
\* server has it: only the user gives up a version that nobody else holds.
PullErasesNoEdit ==
  [][\A e \in Clients, i \in Items :
       LET kept == ext[e].vault[i]
       IN  ExtPull(e) /\ ext'[e].vault[i] # kept =>
             kept = 0 \/ \E k \in DOMAIN feed : feed[k].stamp = kept]_vars

\* No version is in conflict with itself: a request that is sent again after a
\* lost answer, a restart or a late arrival is told what it was told before.
NoConflictWithItself ==
  [][\A v \in verdict' \ verdict :
       v.op.kind = "upsert" /\ v.status = "conflict" /\ v.op.mut[1] \in Clients =>
         item[v.op.item] = Store!Missing \/ Stamp(item[v.op.item]) # Stamp(v.op)]_vars

\* An edit is applied once, however often it is sent.
EditIsAppliedOnce ==
  \A k, l \in DOMAIN feed :
    feed[k].kind = "upsert" /\ feed[l].kind = "upsert" /\ feed[k].stamp = feed[l].stamp => k = l

\* Once edits stop, an extension that is unlocked again and again ends up with
\* what the server has of every item that is not in conflict, and nothing to send.
Converges ==
  (\A e \in Clients : []<>ext[e].unlocked) =>
    <>[](\A e \in Clients, i \in Items :
           i \notin ext[e].sync.conflicts =>
             ext[e].vault[i] = Latest(i) /\ ext[e].sync.pending[i] = NoPending)

=============================================================================
