SPECIFICATION Spec
CONSTANTS
  Threads = {t1, t2}
  Encoders = {e1}
  Decoders = {d1}
  Nil = Nil
  Role = "responder"
  Operations = {"handshake", "encode", "try_decode"}
  Exclusive = FALSE
  BadPayloads = {}
  MaxChunk = 1
  MaxCalls = 5
PROPERTIES UpdatesAreKept
