SPECIFICATION FairSpec
CONSTANTS
  Levels <- MCLevels
  NoLevel <- MCNoLevel
INVARIANTS TypeOK StartedOnce ChargerUserDecides PoweroffMatches 
PROPERTY Started
