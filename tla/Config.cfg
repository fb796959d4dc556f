CONSTANTS
  Files <- SomeFiles
  Numbers <- SomeNumbers
  Sizes <- Powers
SPECIFICATION FairSpec
INVARIANTS TypeOK ParsedAsWritten WordsWhole AddressesServed
PROPERTY ParsingEnds
CHECK_DEADLOCK FALSE
