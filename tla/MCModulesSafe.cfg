CONSTANTS
  Files = {"main", "lib", "leaf"}
  Natives = {"fs"}
  Imports <- Graph
  Keys = {"open", "exists"}
  Needs <- Names
  Script = "script"
  MaxModules = 2
  MaxExports = 2
SPECIFICATION Spec
INVARIANTS ExportsArrive OwnedOnce MetaBeforeRun FailureReported
PROPERTY ImplementsModuleGraph
CHECK_DEADLOCK FALSE
