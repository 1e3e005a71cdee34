SPECIFICATION FairSpec
CONSTANTS
  p = p
  q = q
  a = a
  b = b
  shared = shared
  own = own
  NoHash = NoHash
  Torn = Torn
  Input = {p, q}
  Output = {a, b}
  Destination = {shared}
  Version = {1, 2}
  PackageOf <- TwoPackages
  FilesOf <- OneFile
  LengthOf <- MCLengthOf
  MaxConcurrentDownloads = 1
  Edits <- SetAnyVersion
  InitialConfigs <- MCInitialConfigs
INVARIANTS
  TypeOK
  SkippedIsInstalled
  SuccessInstalls
PROPERTIES
  OnlyVerifiedIsCopied
  EveryRunEnds
CHECK_DEADLOCK FALSE
