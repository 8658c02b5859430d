SPECIFICATION Spec
CONSTANTS
  MaxHops = 3
INVARIANTS TypeOK EveryHostSeesTheSame DecodedCanBeSent OnlyLengthsSlipThrough
