SPECIFICATION RxFairSpec
CONSTANTS
  N = 3
  Frame = {f1, f2}
  Bad = {bad}
  Nothing = Nothing
  MaxFrames = 6
INVARIANTS RxTypeOK RxRingAgrees SliceValidWithinARound
PROPERTIES RecvReturnsWhatArrived StoredIsDelivered
