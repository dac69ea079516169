SPECIFICATION FairSpec
CONSTANTS
  Messages = {m1, m2}
  Codes = {c1}
  Workers = {w1, w2}
  NoWorker = NoWorker
  Nothing = Nothing
  First = m1
  Quota = 2
  Permanent = 2
  FirstEstimate = 4
  SecondEstimate = 1
  Charges <- MCCharges
  Estimate <- MCEstimate
  Opening <- MCOpening
  CodeGrant = 1
  PackageGrant = 1
  Price = 1
  Threshold = 1
  Money = 1
  MaxClicks = 1
  MaxCrashes = 1
  ClosesPlan = TRUE
INVARIANTS
  LedgerExplained
  ChargeBooked
PROPERTIES
  CodesFinal
  Served
CHECK_DEADLOCK FALSE
