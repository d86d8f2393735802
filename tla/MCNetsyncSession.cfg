SPECIFICATION Spec
CONSTANTS
  Client = {"ca", "cb"}
  Branch = {"b"}
  Epoch = {"e0", "e1"}
  EpochZero = "e0"
  Key = {"k1", "k2", "sk"}
  ServerKey = "sk"
  Rev = {1, 2}
  Parents <- MCParents
  Cert = {"c1", "c2", "a1"}
  CertRev <- MCCertRev
  CertKey <- MCCertKey
  CertBranch <- MCCertBranch
  NoBranch = NoBranch
  Included = {"b"}
  Scenario <- MCScenario
  MaxFaults = 1
INVARIANTS
  SuccessIsDurable EpochsFirst NothingDropped FaultsHaveCauses
PROPERTIES SessionsEnd
