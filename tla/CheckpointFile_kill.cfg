SPECIFICATION FSpec
CONSTANTS
  MaxVersion = 3
  Size = 2
  DiskMayFill = FALSE
INVARIANT
  OkMeansStored
PROPERTY
  ImplementsAtomicFile
