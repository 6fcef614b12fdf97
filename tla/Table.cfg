\* Three tables, two of them nested, two ids, a row that cannot be read.
CONSTANTS
  MaxByte = 2
  Version = 0
  Tables <- MCTables
  Ids <- MCIds
  Bufs = {good, bad}
  Unreadable = {bad}
  Readers = {r1}
  None = None
  Failed = Failed
SPECIFICATION Spec
INVARIANT
  ForeignRowsOnlyIfNested
PROPERTY
  RefinesTables
