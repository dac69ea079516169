SPECIFICATION FairSpec
CONSTANTS
  Sessions = {s1, s2}
  Chunks = {1}
  Workers = {w1, w2}
  NoSession = NoSession
  Large = s2
  Other = s2
  Size <- MCSize
  Content <- MCContent
  Quota = 3
  Reserve = 1
  MaxTroubles = 1
INVARIANTS
  WithinQuota
  QuotaExplained
  OneFile
  WholeFile
PROPERTIES
  Swept
CHECK_DEADLOCK FALSE
