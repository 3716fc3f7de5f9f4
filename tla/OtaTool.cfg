SPECIFICATION Spec
CONSTANTS
  Lights = {a, b}
  MaxNode = 2
  MaxNumber = 4
INVARIANTS TypeOK ToldMayFetch
PROPERTIES DoneMeansUpdated BumpedIsNewer
