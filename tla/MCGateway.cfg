SPECIFICATION Spec
CONSTANTS
  ClientIds = {"c1", "admin-bypass"}
  Signers = {"s1", "s2"}
  AccessKeys = {"k1", "k2"}
  NoKey = "no key"
  FallbackKey = "k2"
  NumPools = 4
  Providers = {1, 2, 3}
  ProviderOf <- MCProviderOf
  Priority <- MCPriority
  Speaks <- MCSpeaks
  AtStart = {1, 2, 3}
  Guess = {1}
  NoProvider = NoProvider
  NoPool = NoPool
CHECK_DEADLOCK FALSE
INVARIANTS
  TypeOK
  GrantedOnly
  NoUnwantedReplay
  TwiceOnlyAsRouted
  StaysWhereAsked
  FailsOnlyAfterAll
  IssuedTokensHold
  AdminsExplained
