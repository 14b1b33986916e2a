SPECIFICATION FairSpec
CONSTANTS
  i1 = i1
  i2 = i2
  p1 = p1
  NoMutation = NoMutation
  Others = Others
  Items = {i1, i2}
  Clients = {p1}
  MaxMutations = 1
  PageLimit = 1
  MaxEdits = 3
INVARIANTS
  TypeOK
  QueueMatchesRows
  RowsAreServed
  KnowsWhatItPulled
PROPERTIES
  PullErasesNoEdit
  Converges
