SPECIFICATION FairSpec
CONSTANTS
  Length = 1
  Programs <- Unending
PROPERTIES
  SignaturesEnd
