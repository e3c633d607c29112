SPECIFICATION FairSpec
CONSTANTS
  N = 4
  SNELES = 4
  QueryItem = 3
  PaillierN = 7
  Key = Key
  NoKey = NoKey
  Payload <- MCPayload
INVARIANTS TypeOK KeyInvariant KeyBeforeEncryption ReadersSeeAllRows SocketsInStep EndsAfterAllBegan
PROPERTIES SitesAreRendezvous ImplementsAggregateQuery Termination
