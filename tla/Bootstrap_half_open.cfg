SPECIFICATION Spec
CONSTANTS
  grouped = grouped
  alone = alone
  custom = custom
  Connections = {grouped}
  Flags <- MCFlags
  Rollable = 8
  MinSizes = {8, 9}
  Capacity <- MCCapacity
  SingleThreaded = TRUE
  MaxTemplate = 2
  MaxRequests = 1
INVARIANT
  RegisteredIsAnnounced
