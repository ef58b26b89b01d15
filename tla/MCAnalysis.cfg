SPECIFICATION FairSpec
CHECK_DEADLOCK FALSE
CONSTANTS
  None = None
  Miss = Miss
  Broken = Broken
  Running = Running
  Unresolved = Unresolved
  PriceKey <- MCPriceKey
  Catalog <- MCCatalog
  Mapped <- MCMapped
  Listings <- MCListings
  MaxPages = 2
  MaxAttempts = 2
  MaxReprices = 1
  MaxExpiries = 1
  Condition <- MCCondition
  Snapshots <- MCSnapshots
  Settings <- MCSettings
  Fallback <- MCFallback
  Region = "us-east-1"
  Replacing <- MCReplacing
  Questions <- MCQuestions
  PropertyValues <- MCPropertyValues
  ParameterTexts <- MCParameterTexts
  Expression <- MCExpression
  Conditions <- MCConditions
  Mappings <- MCMappings
  Parameters <- MCParameters
  Resources <- MCResources
  Pseudo <- MCPseudo
  MonthDays = 10
INVARIANTS
  TypeOK
  UnchangedCostsNothing
  PassingStaysWithin
  DearerNeverPassesEasier
  EstimateIsForced
  ScheduleOnlyStopsInstances
  WarnedOverridesAreUnused
  ScheduleMeasuresWeek
  CatalogMeansOneThing
  LockPinsPrices
  ResolutionIsFinal
  ScenariosCoverOutcome
  AddressableIsReal
  PredictionsAccountedFor
  SpreadOccurred
PROPERTIES
  KeepsPriceBook
  AmbiguityRefused
  BrokenNeverPasses
  EveryRunEnds
