SPECIFICATION FairSpec
CONSTANTS
  Requests <- SomeRequests
  Servers <- SomeServers
  Tree <- SomeTree
  Stamps <- Seconds
  ScriptFiles <- SomeScriptFiles
  Outputs <- SomeOutputs
  MaxRequests = 2
  MaxMeddling = 2
CHECK_DEADLOCK FALSE
INVARIANTS TypeOK RoutedRight AnswerTellsEffects AnswerFitsFiles ScriptsNotServed
PROPERTIES UploadsKept Answered
