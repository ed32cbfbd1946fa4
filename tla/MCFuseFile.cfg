SPECIFICATION MCSpec
CONSTANTS
  BlockSize = 2
  Byte = {a, b}
  Zero = Zero
  MaxSize = 4
  MaxWrite = 3
  MaxFaults = 2
  MaxCrashes = 1
  Chunk = {"c1", "c2", "c3"}
  Length = {1, 2}
  Quotas = {0, 3}
  MaxPuts = 3
  MaxKills = 1
SYMMETRY Symmetry
CONSTRAINT Followed
INVARIANTS TypesOK   QuotaOvershoot StoredWhole
PROPERTIES FlushedIsSynced
CHECK_DEADLOCK FALSE
