SPECIFICATION QueuedSpec
CONSTANTS
  r1 = r1
  r2 = r2
  r3 = r3
  r4 = r4
  Requests = {r1, r2, r3}
  Users = {"ann"}
  Scripts = {"short", "long"}
  AccountOf <- MCAccountOf
  ScriptOf <- MCScriptOf
  MaxWaiting = 2
  MaxRetries = 1
  Capacity = 1
  MaxFaults = 1
INVARIANTS
  Backed
  SameScriptOnce
  ToldOnce
PROPERTIES
  Settles
CHECK_DEADLOCK FALSE
