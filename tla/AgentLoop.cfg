SPECIFICATION FairSpec
CONSTANTS
  MaxRounds = 5
  Budget = 3
  Registered <- BothTools
INVARIANTS
  NoRoundLimit
  ProviderBounded
  CardsAgree
PROPERTIES
  ImplementsTurn
  Terminates
