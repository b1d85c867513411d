\* A reordered frame makes room although it came last.
SPECIFICATION FecSpec
CONSTANTS W = 2
          MaxSeq = 3
          K = 2
          M = 1
          Capacity = 2
          Remember = 2
PROPERTY EvictsOldest
