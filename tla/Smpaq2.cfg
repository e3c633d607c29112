SPECIFICATION Spec
CONSTANTS
  N = 3
  SNELES = 3
  QueryItem = 3
  Word = 8
  Masks = {5}
  Payload <- MCPayload
INVARIANTS TypeOK ReadersSeeAllRows SocketsInStep EndsAfterAllBegan NeverWarned StopsOnlyByReuse
PROPERTIES SitesAreRendezvous ImplementsAggregateQuery
CHECK_DEADLOCK FALSE
