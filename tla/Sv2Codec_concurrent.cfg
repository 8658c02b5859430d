SPECIFICATION FairSpec
CONSTANTS
  Threads = {t1, t2}
  Encoders = {e1}
  Decoders = {d1}
  Nil = Nil
  Role = "responder"
  Operations = {"handshake", "encode", "try_decode", "buffer_size"}
  Exclusive = FALSE
  BadPayloads = {1}
  MaxChunk = 1
  MaxCalls = 5
INVARIANTS BufferSizeIsCurrent
PROPERTIES PhaseNeverReverts CallsReturn
