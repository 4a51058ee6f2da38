SPECIFICATION Spec
CONSTANTS
  Client = {k1}
  Handler = {h1, h2}
  CacheControl <- MCCacheControl
  NoStore = NoStore
  None = None
  MinTTL = 1
  MaxTTL = 2
  DefaultTTL = 2
  StaleMax = 3
  FetchTimeout = 1
  MaxTime = 7
  MaxRestarts = 1
SYMMETRY Symmetry
INVARIANT TypeOK ServedAge StaleOnlyAfterFailure
