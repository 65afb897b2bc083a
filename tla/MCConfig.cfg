SPECIFICATION Spec
CHECK_DEADLOCK FALSE
CONSTANTS
  Importers = {i1, i2, i3}
  Editors = {e1}
  Clients = {c1}
  Pools = {p1, p2}
  ProviderOf <- MCProviderOf
  Configured = {p1}
  Keys = {k1, k2}
  Asked <- MCAsked
  NoJob = NoJob
SYMMETRY MCSymmetry
INVARIANTS
  TypeOK
  Restartable
  AnsweredChangesStay
  LimitersHaveImports
