\* Two packages of one repository; the database may be an old one.
SPECIFICATION Spec
CONSTANTS
  NodeIDs <- PkgIDs
  PkgPaths = {"p", "q"}
  RepoIDs = {"r"}
  EdgeTypes = {"CALLS"}
  Sites = {1, 2}
  MaxNodeID = 3
  NoNode = NoNode
  NoPkg = NoPkg
  PkgPathOf <- PkgPathOf1
  OwnerOf <- OwnerOf1
  KindOf <- KindOf1
  RepoOf <- RepoOf1
  ParseResults <- Results1
  StructureResults = {}
  SingleNodes <- SingleNodes1
  SingleEdges <- SingleEdges1
  KeyVersions = {"v3", "v2"}
  OldDatabases <- Databases1
INVARIANTS
  TypeOK
  IndexConsistent
  EdgeEndpointsResolve
  EdgesAreWhole
  StoresAgree
PROPERTIES
  EdgeLeavesWithSource
  ImplementsView
