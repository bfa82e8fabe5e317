SPECIFICATION Spec
CONSTANTS
  c1 = c1
  c2 = c2
  c3 = c3
  Clients <- AllClients
  Strays <- StrayClients
  NoClient = NoClient
  MaxSeq <- Numbers
CHECK_DEADLOCK FALSE
INVARIANTS TypeOK AckHonest EstablishedMeansHandshake
