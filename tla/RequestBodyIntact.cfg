\* One chunk, cut anywhere.
SPECIFICATION Spec
CONSTANTS
  Bytes <- SomeBytes
  Messages <- OneChunkMessage
  ClientMaxBodySize = 3
  ReadSize = 16
INVARIANTS BodyIntact
CHECK_DEADLOCK FALSE
