CONSTANTS
  None = None
  a = a
  b = b
  r = r
  x = x
  y = y
  Keys = {a, b}
  Values = {x, y}
  MountKeys = {a}
  Refs = {r}
  Specs <- SecretSpecs
  MaxEdits = 1
  MaxOutOfBand = 0
  MaxAborts = 0
SPECIFICATION Spec
INVARIANTS NoEmptySecret
