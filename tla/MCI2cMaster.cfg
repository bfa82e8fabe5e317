SPECIFICATION FairSpec
CONSTANTS
  Depth = 4
  Registers = 8
  WriteLens <- AllWriteLens
  ReadLens <- AllReadLens
  MaxTx = 2
INVARIANTS TypeOK TransactionOnWire LoadsFit
PROPERTIES TxReturns
CHECK_DEADLOCK FALSE
