SPECIFICATION Spec
CONSTANT Texts <- MCTexts
INVARIANTS
  TypeOK
  ScopesHoldTheUnit
  AcceptedFollowsTheRules
  
