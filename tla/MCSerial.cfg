SPECIFICATION FairSpec
CONSTANTS
  Clients = {c1, c2}
  Net = Net
  Listen = Listen
  Nobody = Nobody
  MaxBytes = 2
PROPERTIES RelayedUntilDisconnect
