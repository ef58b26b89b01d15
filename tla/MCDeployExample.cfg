SPECIFICATION Spec
CONSTANTS
  Commit = {"base"}
  PriceList = {"old"}
  Environment = {"dev"}
  Rule <- MCRule
  Group = {"platform", "finops", "security"}
  Approver = {"ann", "bob"}
  None = None
  MaxRuns = 2
  RuleAction <- MCRuleAction
  RuleGroup <- MCRuleGroup
  Analysable <- MCAnalysable
  Matched <- MCMatched
  Estimate <- MCEstimate
  Member <- MCMember
  Claim <- ExampleClaim
INVARIANT ReleasedByMember
