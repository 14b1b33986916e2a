------------------------- MODULE ItemSyncRefinement -------------------------
(***************************************************************************)
(* The store implements the atomic compare-and-set: what the three tables  *)
(* mean to a client, and the abstract store that they stand for.           *)
(***************************************************************************)
EXTENDS ItemSyncStore

\* The sets of operations that a request may send.
OpSets == UNION {SUBSET {p.ops[k] : k \in DOMAIN p.ops} : p \in Plans}

\* What a client sees of an item, and the decisions it can be told.
ItemStates ==
  [i \in Items |-> [rev |-> rows[i].rev, deleted |-> rows[i].deleted, mut |-> rows[i].mut]]
VerdictOf(x) ==
  [op |-> x.op, rev |-> x.rev,
   status |-> IF x.reason = "invalid_server_revision" THEN "refused" ELSE x.status]
Verdicts == {VerdictOf(x) : x \in receipts}

Atomic == INSTANCE ItemSyncAtomic WITH
  revision <- serverRevision, item <- ItemStates, verdict <- Verdicts

\* Every step of the store is one atomic decision on the items as they are, or
\* is invisible: the reads made before the transaction never show.
ImplementsAtomicStore == Atomic!Spec

=============================================================================
