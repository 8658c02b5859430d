SPECIFICATION Spec
CONSTANTS
  Channels <- Names
  Kind <- Objects
  Feed <- TwoBlocks
  Nonces = {"easy", "block"}
  MaxJobs = 5
  Deployments <- Servers
  Leader = "ext"
  Followers = {"std"}
INVARIANTS TypeOK JobsBelongToTip HonestWorkCounts StaleIsStale
PROPERTIES ImplementsLedger
CHECK_DEADLOCK FALSE
