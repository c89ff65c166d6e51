CONSTANTS
  None = None
  MaxU64 = 3
  Flows <- MCFlows
  ParamChoices <- MCParams
  MaxTime = 3
  MaxAllowance = 4
SPECIFICATION Spec
INVARIANTS
  TypeOK
  OutboundWithinAllowance
  InboundWithinAllowance
PROPERTIES
  OutboundIsTokenBucket
  InboundIsTokenBucket
