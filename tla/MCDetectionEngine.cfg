SPECIFICATION Spec
CONSTANTS
  Selections <- MCSelections
  Patterns <- MCPatterns
  Conditions <- MCConditions
  Labels <- MCLabels
  Names <- MCNames
  Threads = {t1, t2}
  MaxEdits = 3
  RuleRows <- MCRuleRows
  Feeds <- MCFeeds
  Listings <- MCListings
  Events <- MCEvents
INVARIANTS SigmaRulesMean ImportedIndicatorsSurface BlockedHostsSurface
CHECK_DEADLOCK FALSE
