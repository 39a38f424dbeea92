CONSTANTS
  None = None
  Destroyed = Destroyed
  org1 = org1
  org2 = org2
  t1 = t1
  t2 = t2
  v1 = v1
  v2 = v2
  source1 = source1
  Organizations = {org1}
  WorkspaceIDs = {1, 2}
  RunIDs = {1, 2, 3}
  ConfigVersionIDs = {1, 2}
  Templates = {t1}
  Values = {v1, v2}
  Triggers = {source1}
  Outcomes = {"applied"}
  UploadOutcomes = {"uploaded"}
  OutOfBand = {"run", "variable"}
  MaxOutOfBand = 2
  Specs <- VariableSpecs
  Timely = {"workspace", "configMap", "upload"}
  KindEdits = FALSE
  MaxEdits = 0
  EditAt = {"idle"}
  AbortAt = {}
  MaxAborts = 0
  Ignored = {}
SPECIFICATION FairSpec
PROPERTIES VariableRestored OutputsFollowState
