SPECIFICATION Spec
CONSTANTS
  Threads = {t1, t2}
  Encoders = {e1}
  Decoders = {d1}
  Nil = Nil
  Role = "initiator"
  Operations = {"handshake", "encode", "ffi_try_decode", "buffer_size"}
  Exclusive = TRUE
  BadPayloads = {3}
  MaxChunk = 3
  MaxCalls = 8
INVARIANTS TypeOK ReceiveAccountsForFrames MissingIsPositive
PROPERTIES ImplementsEndpoint
SYMMETRY ThreadSymmetry
