SPECIFICATION TxFairSpec
CONSTANTS
  N = 4
  Frame = {f1, f2}
  Nothing = Nothing
  MaxFrames = 6
CHECK_DEADLOCK FALSE
INVARIANTS TxTypeOK TxRingAgrees
PROPERTIES WireCarriesWhatWasSent SentIsTransmitted
