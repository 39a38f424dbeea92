CONSTANTS
  None = None
  Destroyed = Destroyed
  org1 = org1
  org2 = org2
  t1 = t1
  t2 = t2
  v1 = v1
  v2 = v2
  source1 = source1
  Organizations = {org1}
  WorkspaceIDs = {1, 2}
  RunIDs = {1, 2, 3}
  ConfigVersionIDs = {1, 2}
  Templates = {t1, t2}
  Values = {v1}
  Triggers = {source1}
  Outcomes = {"applied"}
  UploadOutcomes = {"uploaded"}
  OutOfBand = {}
  MaxOutOfBand = 0
  Specs <- ModuleSpecs
  Timely = {"workspace", "configMap", "upload"}
  KindEdits = FALSE
  MaxEdits = 2
  EditAt <- NotWhilePending
  AbortAt = {}
  MaxAborts = 0
  Ignored = {}
SPECIFICATION FairSpec
PROPERTIES SpecChangeExecutesRun
