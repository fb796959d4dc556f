\* Every way to cut every message of up to three chunks.
SPECIFICATION FairSpec
CONSTANTS
  Bytes <- SomeBytes
  Messages <- AllMessages
  ClientMaxBodySize = 2
  ReadSize = 24
INVARIANTS TypeOK BodyIsPrefix DoneIsWhole
PROPERTIES LimitAfterOneRead CleanAnswered
\* The message ends.
CHECK_DEADLOCK FALSE
