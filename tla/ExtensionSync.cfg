SPECIFICATION FairSpec
CONSTANTS
  i1 = i1
  i2 = i2
  e1 = e1
  NoMutation = NoMutation
  Others = Others
  Items = {i1, i2}
  Clients = {e1}
  MaxMutations = 1
  PageLimit = 1
  MaxEdits = 3
INVARIANTS
  TypeOK
  BaselineIsServed
  CursorCoversVault
  ExtensionDeletesNothing
  EditIsAppliedOnce
PROPERTIES
  PullErasesNoEdit
  NoConflictWithItself
  Converges
