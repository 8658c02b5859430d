SPECIFICATION Spec
CONSTANTS
  grouped = grouped
  alone = alone
  custom = custom
  Connections = {grouped, custom}
  Flags <- MCFlags
  Rollable = 8
  MinSizes = {8, 9}
  Capacity <- MCCapacity
  SingleThreaded = FALSE
  MaxTemplate = 2
  MaxRequests = 3
INVARIANTS
  TypeOK
  GroupListsChannels
  UntoldOnlyByException
PROPERTY
  ImplementsBook
