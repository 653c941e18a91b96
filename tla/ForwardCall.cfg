SPECIFICATION Spec
CONSTANTS
  VarNames <- MCVars
  Prototypes <- MCPrototypes
  Presets <- MCPresets
  MaxDecls = 4
  MaxStatements = 3
  MaxNesting = 3
INVARIANTS
  CalleesAreKnown
CHECK_DEADLOCK FALSE
