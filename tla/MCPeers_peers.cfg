SPECIFICATION FairSpec
CONSTANTS
  Self = "me"
  Peer = {"s", "p"}
  Seed = {"s"}
  Known = {"s"}
  Discard = 1
  PingInterval = 1
  Expired = 2
  GetInterval = 1
  MaxDelay = 2
  MaxFlight = 2
  MaxFaults = 1
INVARIANTS SeedKept FreshlyAlive
PROPERTY SilentLeave
CHECK_DEADLOCK FALSE
