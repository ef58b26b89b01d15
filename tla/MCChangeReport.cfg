SPECIFICATION Spec
CONSTANTS
  Key <- MCKey
  Body <- MCBody
  None = None
  Base <- MCBase
  Order <- MCOrder
  MaxResources = 2
  Price <- MCPrice
  Effect <- MCEffect
INVARIANTS
  TypeOK
  OneToOne
  GivenUpForBetter
  EveryResourceOnce
  NoChangeMeansSame
  CostConserved
  UnknownIsReported
  OnlyReusedNamesFail
CHECK_DEADLOCK FALSE
