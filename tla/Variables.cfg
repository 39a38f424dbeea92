CONSTANTS
  None = None
  a = a
  b = b
  r = r
  x = x
  y = y
  Keys = {a, b}
  Values = {x, y}
  MountKeys = {b}
  Refs = {r}
  Specs <- ChangedSpecs
  MaxEdits = 2
  MaxOutOfBand = 1
  MaxAborts = 1
SPECIFICATION FairSpec
INVARIANTS TypeOK SecretsHaveValues
PROPERTIES StartsWithVariables DifferencesOnly VariablesConverge ChangesExecuted OperatorSettles
