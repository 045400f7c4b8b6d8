CONSTANTS
  g1 = g1  g2 = g2  o1 = o1  i1 = i1  i2 = i2
  NoId = NoId  NoOrg = NoOrg  None = None
  G <- MCG
  Orgs <- MCOrgs
  Ids <- MCIds
  MaxRequests = 4
  MaxExpiries = 1
  MaxReinstalls = 1
SPECIFICATION Spec
INVARIANT TokenFetchedOncePerEpoch NotInstalledOnlyWhenAbsent
PROPERTY RequestsComplete AuthRefined
CHECK_DEADLOCK FALSE
