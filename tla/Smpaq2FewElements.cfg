SPECIFICATION Spec
CONSTANTS
  N = 3
  SNELES = 2
  QueryItem = 2
  Word = 8
  Masks = {5}
  Payload <- MCPayload
PROPERTY ImplementsAggregateQuery
CHECK_DEADLOCK FALSE
