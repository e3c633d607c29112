SPECIFICATION Spec
CONSTANTS
  KeyPairs <- MCKeyPairs
  Plaintexts = {0, 1, 14, 20}
  MaxMatches = 2
INVARIANTS DecryptsToSum SpoiltProductShows
