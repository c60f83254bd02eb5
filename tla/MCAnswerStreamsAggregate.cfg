SPECIFICATION Spec
CONSTANTS
  Rules <- MCRules
  Identifiers <- MCIdentifiers
  Chunks <- MCChunks
  Declared <- MCDeclared
  MaxLength = 6
INVARIANT AggregateIsWhole
CHECK_DEADLOCK FALSE
