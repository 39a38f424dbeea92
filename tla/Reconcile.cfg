CONSTANTS
  None = None
  Destroyed = Destroyed
  org1 = org1
  org2 = org2
  t1 = t1
  t2 = t2
  v1 = v1
  v2 = v2
  source1 = source1
  Organizations = {org1}
  WorkspaceIDs = {1, 2}
  RunIDs = {1, 2, 3}
  ConfigVersionIDs = {1, 2}
  Templates = {t1, t2}
  Values = {v1, v2}
  Triggers = {source1}
  Outcomes = {"applied", "errored"}
  UploadOutcomes = {"uploaded"}
  OutOfBand = {}
  MaxOutOfBand = 0
  Specs <- ModuleAndVCSSpecs
  Timely = {}
  KindEdits = FALSE
  MaxEdits = 1
  EditAt <- Steps
  AbortAt <- AnyStep
  MaxAborts = 1
  Ignored = {}
SPECIFICATION Spec
INVARIANTS FinalizerHasWorkspace RunOnlyUnderFinalizer NoLeakedResources
PROPERTIES DestroyBeforeDelete StartFenced ImplementsLifecycle
