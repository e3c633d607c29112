SPECIFICATION FairSpec
CONSTANTS
  Plans <- MCPlans
INVARIANTS MessagesInStep EqualIffSameItem
PROPERTIES ImplementsPrfPair EndsTogether
