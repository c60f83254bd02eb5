SPECIFICATION Spec
CONSTANTS
  Rules <- MCRules
  Identifiers <- MCIdentifiers
  Chunks <- MCChunks
  Declared <- MCDeclared
  MaxLength = 6
INVARIANTS CompleteIsWhole NothingInvented
PROPERTY KeepsProtocol
CHECK_DEADLOCK FALSE
