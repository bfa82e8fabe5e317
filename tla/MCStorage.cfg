SPECIFICATION Spec
CONSTANTS
  Total = 7
  LfsSize = 2
  EraseSize = 2
  SectorUnits = 5
  Depth = 2
  MaxWrites = 2
  MaxLosses = 2
  MaxErrors = 2
CHECK_DEADLOCK FALSE
INVARIANTS TypeOK HostReadsWhatItWrote
PROPERTIES PartitionsApart
