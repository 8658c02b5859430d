SPECIFICATION Spec
CONSTANTS
  grouped = grouped
  alone = alone
  custom = custom
  Connections = {grouped, alone}
  Flags <- MCFlags
  Rollable = 8
  MinSizes = {8, 9}
  Capacity <- MCCapacity
  SingleThreaded = TRUE
  MaxTemplate = 3
  MaxRequests = 2
INVARIANT
  ToldIsActive
