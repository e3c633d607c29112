SPECIFICATION FairSpec
CONSTANTS
  N = 2
  SNELES = 2
  QueryItem = 2
  Word = 8
  Masks = {5}
  Payload <- MCPayload
CHECK_DEADLOCK FALSE
PROPERTY Termination
