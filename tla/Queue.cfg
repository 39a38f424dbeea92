CONSTANTS
  None = None
  a = a
  b = b
  Instances = {a, b}
  OrganizationOf <- MCOrganizationOf
  NameOf <- MCNameOf
  Organizations = {"o1", "o2"}
  Missing = {"o2"}
  MaxWrites = 2
  MaxFaults = 1
SPECIFICATION FairSpec
INVARIANTS TypeOK OwnWorkspaces NeverForgotten ChangesQueued
PROPERTIES ServedAgain DeletionsComplete
CHECK_DEADLOCK FALSE
