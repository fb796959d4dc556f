SPECIFICATION FairSpec
CONSTANTS
  Conversations <- SomeConversations
INVARIANTS TypeOK OneAtATime DiesOnlyOfBadScript
PROPERTIES KeepsPromise EndsForReason Answered
