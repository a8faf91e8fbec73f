CONSTANTS
  oracleCore = oracleCore
  vrfCore = vrfCore
  None = None
  Services = {s1, s2, s3}
  Places = {oracleCore, vrfCore}
  Workers <- MCWorkers
  Versions = {v1, v2}
  MaxContracts = 4
SPECIFICATION DeploySpec
SYMMETRY Symmetry
INVARIANTS DeployTypeOK CoresAgree
PROPERTIES RecordedStays
CHECK_DEADLOCK FALSE
