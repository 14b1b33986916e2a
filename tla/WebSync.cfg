SPECIFICATION Spec
CONSTANTS
  i1 = i1
  i2 = i2
  t1 = t1
  NoMutation = NoMutation
  Others = Others
  Items = {i1, i2}
  Clients = {t1}
  MaxMutations = 2
  PageLimit = 1
  MaxEdits = 3
  MaxPlans = 4
INVARIANT PushedDeletionsAreLocal
