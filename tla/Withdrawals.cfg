SPECIFICATION FairSpec
CONSTANTS
  alice = alice
  r1 = r1
  r2 = r2
  r3 = r3
  w1 = w1
  w2 = w2
  w3 = w3
  Accounts = {alice}
  Requests = {r1, r2}
  Workers = {w1, w2, w3}
  Owner <- MCOwner
  Amount <- MCAmount
  Opening <- MCOpening
  NoWorker = NoWorker
  NoRequest = NoRequest
INVARIANTS
  ClosedIsRefunded
  Conservation
PROPERTIES
  ImplementsLedger
  HandlersEnd
CHECK_DEADLOCK FALSE
