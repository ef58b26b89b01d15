SPECIFICATION Spec
CHECK_DEADLOCK FALSE
CONSTANTS
  None = None
  Miss = Miss
  Broken = Broken
  Running = Running
  Unresolved = Unresolved
  PriceKey <- MCPriceKey
  Catalog <- MCCatalog
  Mapped <- MCMapped
  Listings <- MCListings
  MaxPages = 2
  MaxAttempts = 2
  MaxReprices = 0
  MaxExpiries = 0
  Condition <- MCCondition
  Snapshots <- VolumeSnapshots
  Settings <- MCSettings
  Fallback <- MCFallback
  Region = "us-east-1"
  Replacing <- MCReplacing
  Questions = {}
  PropertyValues <- MCPropertyValues
  ParameterTexts <- MCParameterTexts
  Expression <- MCExpression
  Conditions <- MCConditions
  Mappings <- MCMappings
  Parameters <- MCParameters
  Resources <- MCResources
  Pseudo <- MCPseudo
  MonthDays = 10
INVARIANT
  MissingSideIsZero
