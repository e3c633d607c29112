SPECIFICATION Spec
CONSTANTS
  N = 2
  SNELES = 2
  QueryItem = 2
  Word = 4
  Masks = {0, 1, 3}
  Payload <- MCPayload
PROPERTY ImplementsAggregateQuery
CHECK_DEADLOCK FALSE
