SPECIFICATION Spec
CONSTANTS
  Volume = {"pgsql", "www"}
  DBVolume = {"pgsql"}
  Secret = {"admin"}
  Admin = {"admin"}
  MaxFlags = 2
INVARIANT TypeOK
PROPERTY RestoredWhole
PROPERTY RestoredConfig
PROPERTY ExistingKept
PROPERTY DryRunHarmless
PROPERTY KeepsCopies
CHECK_DEADLOCK TRUE
