SPECIFICATION DispatcherSpec
CONSTANTS
  Types <- MCTypes
  Inherits <- MCInherits
  AssemblyOf <- OneAssembly
  Handlers <- MCHandlers
  Parameter <- MCParameter
  HandlerIn <- MCHandlerIn
  SeenBy <- SeenInHeir
  SortsAll = TRUE
  Messages <- MCMessages
  MaxRegistrations = 3
  MaxFailures = 1
INVARIANTS
  BaseFirst
  RemovedMeansHandled
CHECK_DEADLOCK FALSE
