SPECIFICATION MCSpec
CONSTANTS
  FileSystems <- MCFileSystems
  Inputs <- MCInputs
  Broken = {"nul", "bytes"}
  Decoded <- MCDecoded
  Lower <- MCLower
  Split <- MCSplit
  Hops = 8
INVARIANTS
  PathMeans
  CanonIdempotent
  UrlsAgree
CHECK_DEADLOCK FALSE
