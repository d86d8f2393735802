SPECIFICATION Spec
CONSTANTS
  Rev = {1, 2, 3, 4}
  Parents <- MCParents
  Branch = {"b"}
  Cert <- MCCert
  MaxPending = 1
  MaxChanged = 3
INVARIANTS HeadsExact CachesCurrent
