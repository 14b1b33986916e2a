--------------------------- MODULE ItemSyncAtomic ---------------------------
(***************************************************************************)
(* What the item-sync store promises, as one atomic compare-and-set: a set *)
(* of operations is decided against the items as they are at that instant, *)
(* the ones whose base is the item's revision are written together under   *)
(* the account's next revision, the others are recorded as conflicts, and  *)
(* a mutation id is decided at most once.                                  *)
(***************************************************************************)
EXTENDS Naturals

CONSTANTS Items, NoMutation, OpSets  \* OpSets: the sets of operations

VARIABLES
  revision,  \* the account's revision
  item,      \* the state of every item
  verdict    \* the decisions taken, one per mutation id

Missing == [rev |-> 0, deleted |-> FALSE, mut |-> NoMutation]

Fresh(S) == \A o \in S, v \in verdict : v.op.mut # o.mut

Current(o) == /\ o.base = item[o.item].rev
              /\ o.kind = "delete" => item[o.item] # Missing

Write(S) ==
  IF S = {} THEN UNCHANGED <<revision, item>>
  ELSE /\ revision' = revision + 1
       /\ item' = [i \in Items |->
            IF \E o \in S : o.item = i
            THEN LET o == CHOOSE o \in S : o.item = i
                 IN  [rev |-> revision + 1, deleted |-> o.kind = "delete", mut |-> o.mut]
            ELSE item[i]]

Applied(S) == {[op |-> o, status |-> "applied", rev |-> revision + 1] : o \in S}
Unapplied(S, status) == {[op |-> o, status |-> status, rev |-> 0] : o \in S}

\* Compare and set.
Decide(S) ==
  /\ Fresh(S)
  /\ LET applied == {o \in S : Current(o)}
     IN  /\ Write(applied)
         /\ verdict' = verdict \cup Applied(applied)
                              \cup Unapplied(S \ applied, "conflict")

\* A client that is ahead of the server is refused as a whole.
Refuse(S) ==
  /\ Fresh(S)
  /\ verdict' = verdict \cup Unapplied(S, "refused")
  /\ UNCHANGED <<revision, item>>

\* The whole-envelope path: an upsert, or a delete of an item that exists, or
\* nothing but a new revision.
Overwrite(S) ==
  /\ revision' = revision + 1
  /\ LET written == {o \in S : o.kind = "delete" => item[o.item] # Missing}
     IN  IF written = {} THEN UNCHANGED item ELSE Write(written)
  /\ UNCHANGED verdict

Init ==
  /\ revision = 0
  /\ item = [i \in Items |-> Missing]
  /\ verdict = {}

Next ==
  \E S \in OpSets :
    \/ /\ \A o \in S : o.mut # NoMutation
       /\ Decide(S) \/ Refuse(S)
    \/ /\ \A o \in S : o.mut = NoMutation
       /\ Overwrite(S)

Spec == Init /\ [][Next]_<<revision, item, verdict>>

=============================================================================
