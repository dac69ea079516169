SPECIFICATION Spec
CONSTANTS
  Messages = {m2}
  Codes = {c1}
  Workers = {w1, w2}
  NoWorker = NoWorker
  Nothing = Nothing
  First = m9
  Quota = 5
  Permanent = 5
  FirstEstimate = 4
  SecondEstimate = 1
  Charges <- MCCharges
  Estimate <- MCEstimate
  Opening <- MCOpening
  CodeGrant = 1
  PackageGrant = 3
  Price = 1
  Threshold = 1
  Money = 3
  MaxClicks = 0
  MaxCrashes = 0
  ClosesPlan = FALSE
INVARIANT
  CostIsActual
CHECK_DEADLOCK FALSE
