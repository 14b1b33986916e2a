----------------------------- MODULE MCItemSync -----------------------------
(***************************************************************************)
(* Small instances of ItemSyncStore and of the abstraction it implements.  *)
(***************************************************************************)
EXTENDS ItemSyncRefinement, TLC

CONSTANTS i1, i2, m1, m2, m3, r1, r2, d1  \* model values

Symmetry == Permutations(Requests)

\* The operation on item i under mutation id m, for every base in bs.
Drafts(m, i, kind, bs) ==
  {[mut |-> m, item |-> i, kind |-> kind, base |-> b, strict |-> TRUE] : b \in bs}

\* Plans of one operation, and of two on different items.
Single(n, ops) == {[legacy |-> FALSE, baseRevision |-> n, ops |-> <<o>>] : o \in ops}
Pair(n, ops1, ops2) ==
  {[legacy |-> FALSE, baseRevision |-> n, ops |-> <<o[1], o[2]>>] : o \in ops1 \X ops2}
\* The web client pushes its envelope as one item, which need not be strict.
EnvelopeOf(n, i, kind, strict) ==
  {[legacy |-> TRUE, baseRevision |-> n,
    ops |-> <<[mut |-> NoMutation, item |-> i, kind |-> kind, base |-> 0,
               strict |-> strict]>>]}
Envelope(n, i, kind) == EnvelopeOf(n, i, kind, TRUE)
Malformed(n, i) == EnvelopeOf(n, i, "upsert", FALSE)

\* Two devices edit and delete one item, one of them along with another item;
\* they retry, reuse a mutation id, or are ahead of the server; and the envelope
\* is pushed and deleted beside them.
PushPlans ==
  Single(0, Drafts(m1, i1, "upsert", {0}) \cup Drafts(m1, i2, "upsert", {0})
              \cup Drafts(m2, i1, "delete", {1, 2}))
    \cup Single(9, Drafts(m3, i2, "upsert", {0}))
    \cup Pair(0, Drafts(m1, i1, "upsert", {0}), Drafts(m3, i2, "upsert", {0}))
    \cup UNION {Envelope(n, i1, "upsert") : n \in 0..2} \cup Envelope(1, i1, "delete")

\* Plans of one and of two operations, and the envelope, strict or not, for
\* readers to see.
PullPlans ==
  Single(0, Drafts(m2, i1, "delete", {1, 2}))
    \cup Pair(0, Drafts(m1, i1, "upsert", {0}), Drafts(m3, i2, "upsert", {0}))
    \cup UNION {Envelope(n, i1, kind) : n \in 0..2, kind \in {"upsert", "delete"}}
    \cup UNION {Malformed(n, i1) : n \in 0..2}

\* An edit and a delete of an id another account may take in the meantime.
SharedPlans ==
  Single(0, Drafts(m1, i1, "upsert", {0}) \cup Drafts(m2, i1, "delete", {1}))
    \cup Envelope(0, i1, "upsert") \cup Envelope(0, i1, "delete")

=============================================================================
