CONSTANTS
  Heads <- MCHeads
  MaxUriLength = 4
  MaxHeaderCount = 3
SPECIFICATION Spec
INVARIANTS TypeOK UriResolved FramedOnce Progress
