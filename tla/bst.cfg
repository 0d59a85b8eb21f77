SPECIFICATION Spec
CONSTANTS
  MaxKey = 5
  Key <- MCKey
  Address <- MCAddress
  INumber = {1, 2}
INVARIANTS TypeOK SearchFindsMap NodesAreOwned PrintsInOrder FreesEverything
