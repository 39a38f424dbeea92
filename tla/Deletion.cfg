CONSTANTS
  None = None
  Destroyed = Destroyed
  org1 = org1
  org2 = org2
  t1 = t1
  t2 = t2
  v1 = v1
  v2 = v2
  source1 = source1
  Organizations = {org1}
  WorkspaceIDs = {1, 2, 3}
  RunIDs = {1, 2, 3}
  ConfigVersionIDs = {1, 2}
  Templates = {t1}
  Values = {v1}
  Triggers = {source1}
  Outcomes = {"applied", "canceled"}
  UploadOutcomes = {"uploaded"}
  OutOfBand = {"delete"}
  MaxOutOfBand = 1
  Specs <- OneModuleSpec
  Timely = {}
  KindEdits = FALSE
  MaxEdits = 0
  EditAt <- Steps
  AbortAt <- AnyStep
  MaxAborts = 2
  Ignored = {"finalizeWorkspace", "DeleteWorkspace"}
SPECIFICATION FairSpec
INVARIANTS TypeOK OutputsBelong
PROPERTIES DeletionCompletes
