CONSTANTS
  kb = kb
  short = short
  long = long
  lib = lib
  Docs = {kb,long}
  Kb = {kb}
  Papers = {long}
  Long = {long}
  Suspicious = {kb,long}
  Collections = {lib}
  CollectionOf <- AllInLib
  Clusters = {c1,c2}
  Requests = {r1}
  Automated = {r1}
  Attachers = {a1}
SPECIFICATION Spec
SYMMETRY ClusterSymmetry
CONSTRAINT OneDocument
INVARIANTS
  SteadyWarningBlocks
  SentWasChecked
  OfferedIsScanned
