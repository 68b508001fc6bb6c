SPECIFICATION FairSpec
CONSTANTS
  Length = 3
  Programs <- AllSound
INVARIANTS
  WellFormed
  KindsAreTheTypes
  SignaturesAgree
PROPERTIES
  ConcreteKindsStay
  SignaturesEnd
