SPECIFICATION Spec
CONSTANTS
  VarNames <- MCVars
  Prototypes <- MCPrototypes
  Presets <- MCPresets
  MaxDecls = 5
  MaxStatements = 3
  MaxNesting = 3
INVARIANTS
  TablesFollowBlocks
  LoopIsInnermost
  LookupsFollowScopes
  UnitIsRegulated
  AbortExplained
CHECK_DEADLOCK FALSE
