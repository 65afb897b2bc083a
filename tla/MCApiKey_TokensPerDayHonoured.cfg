SPECIFICATION AuditSpec
CONSTANTS
  Slots = {s1, s2}
  NoLimit = NoLimit
  Never = Never
  SecondLen = 2
  TenSeconds = 3
  MinuteLen = 4
  HourLen = 5
  RpsLimit = 2
  RpdLimit = 5
  TpmLimit = 2
  TpdLimit = 4
  ExpiresAt = 11
  U32Max = 6
  MaxTokens = 2
  MaxTime = 12
  Midnights <- MCMidnights
CHECK_DEADLOCK FALSE
PROPERTIES
  TokensPerDayHonoured
