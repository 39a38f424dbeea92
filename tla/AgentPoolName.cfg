CONSTANTS
  None = None
  key1 = key1
  pool1 = pool1
  pool2 = pool2
  source1 = source1
  source2 = source2
  source3 = source3
  Specs <- PoolSpecs
  Resources <- MCResources
  Late = {key1, pool2, source2}
  MaxEdits = 1
  MaxOutOfBand = 0
  MaxAborts = 0
  Versions = {1, 2}
  Latest = 1
  SSHKeys = {key1}
  AgentPools = {pool1, pool2}
  AgentPoolNamed <- PoolNames
  Unlisted = {"hidden"}
  Contents = {"a", "b", "hidden"}
  Sources = {source1, source2, source3}
  Refused = {source3}
  OutputKeys <- MCOutputKeys
  States <- MCStates
  OutputValues <- MCOutputValues
SPECIFICATION FairSpec
PROPERTIES AgentPoolApplied
