SPECIFICATION Spec
CONSTANTS
  ServerRpcs <- MCServerRpcs
  Commands <- MCCommands
  InitialFacts <- MCInitialFacts
  ViewTree <- MCViewTree
INVARIANTS
  TypeOK
  HandlesLive
  EditYieldsRequest
  OpsBalanced
  NothingForgotten
  
  
  GetReturnsTree
PROPERTIES
  FileChangesByRequest
  
  CallsReturn
CHECK_DEADLOCK FALSE
