SPECIFICATION Spec
CONSTANTS
  Commit = {"base", "huge", "broken"}
  PriceList <- MCPriceList
  Environment = {"prod"}
  Rule <- MCRule
  Group = {"platform", "finops", "security"}
  Approver = {"ann", "bob"}
  None = None
  MaxRuns = 2
  RuleAction <- MCRuleAction
  RuleGroup <- MCRuleGroup
  Analysable <- MCAnalysable
  Matched <- MCMatched
  Estimate <- MCEstimate
  Member <- MCMember
  Claim <- MCMember
INVARIANTS
  TypeOK
  BlockedNeverReleased
  ReleasedWasAgreed
  SurvivesRerun
  ReleasedByMember
PROPERTY
  ImplementsAuthority
