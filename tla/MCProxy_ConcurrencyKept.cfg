SPECIFICATION ProxySpec
CONSTANTS
  post = post
  get = get
  exec = exec
  a1 = a1
  a2 = a2
  b1 = b1
  ka = ka
  kb = kb
  NoSlot = NoSlot
  Nothing = Nothing
  NoLimit = NoLimit
  Never = Never
  Requests <- MCRequests
  Slots = {a1, a2}
  InitialQueue <- TwoSlots
  ConfiguredCapacity = 1
  Keys = {ka, kb}
  KeyOf <- MCKeyOf
  CooldownOnLimit <- MCCooldownOnLimit
  Executes = {exec}
  Idempotent = {get}
  Bodies <- MCBodies
  Answers <- MCAnswers
  Unreported = Unreported
  MaxRequestTokens = 1
  Watched = ka
  SecondLen = 1
  TenSeconds = 2
  MinuteLen = 3
  HourLen = 4
  RpsLimit = NoLimit
  RpdLimit = 2
  TpmLimit = 1
  TpdLimit = NoLimit
  ExpiresAt = Never
  U32Max = 3
  MaxTokens = 2
  MaxTime = 0
  Midnights <- MCMidnights
CHECK_DEADLOCK FALSE
INVARIANTS
  ConcurrencyKept
