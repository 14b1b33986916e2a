SPECIFICATION Spec
SYMMETRY Symmetry
\* At MaxRevision no request is submitted: the system may rest.
CHECK_DEADLOCK FALSE
CONSTANTS
  i1 = i1
  i2 = i2
  m1 = m1
  m2 = m2
  m3 = m3
  r1 = r1
  r2 = r2
  d1 = d1
  NoMutation = NoMutation
  Items = {i1, i2}
  Mutations = {m1, m2, m3}
  Requests = {r1, r2}
  Readers = {}
  SharedIds = {}
  MaxAttempts = 3
  PageLimit = 1
  MaxRevision = 3
  Plans <- PushPlans
INVARIANTS
  TypeOK
  RevisionsInOrder
  NoLostUpdate
  MutationDecidedOnce
  FeedDescribesRows
  AnswersAreDurable
  ConflictStaysConflict
PROPERTIES
  NothingIsTakenBack
  ImplementsAtomicStore
