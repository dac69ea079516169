SPECIFICATION Scenes
CONSTANTS
  NoAccount = NoAccount
  NoOrder = NoOrder
  NoWorker = NoWorker
  Accounts = {"ann", "bob", "cat", "dan", "eve"}
  OrderIds = {"card1", "card2", "pack1", "topup1", "packAnn", "packBob", "packCat", "packDan", "packEve"}
  w1 = w1
  w2 = w2
  w3 = w3
  Workers = {w1, w2, w3}
  Plans = {"card", "pack", "topup"}
  Type <- MCType
  Price <- MCPrice
  Grant <- MCGrant
  Days <- MCDays
  Commission <- MCCommission
  Limit <- MCLimit
  CyclePlans = {"card"}
  AutoRenewPlans = {"card"}
  Buyer <- MCBuyer
  PlanOf <- MCPlanOf
  Method <- MCMethod
  Inviter <- Invited
  Opening <- OneOpening
  MaxConsume = 1
INVARIANTS
  ChargedIffGranted
  CreditsExplained
  PaidIsGranted
  RefundSettles
PROPERTIES
  HandlersEnd
  ImplementsLedger
CHECK_DEADLOCK FALSE
