SPECIFICATION Spec
CONSTANTS
  Key <- MCKey
  Body <- MCBody
  None = None
  Base <- MCBase
  Order <- MCOrder
  MaxResources = 1
  Price <- MCPrice
  Effect <- MCEffect
INVARIANT LegalChangeIsReported
CHECK_DEADLOCK FALSE
