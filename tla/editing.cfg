SPECIFICATION PartsSpec
CONSTANTS Tabs = {"a1", "a2", "b"} Users = {"u", "v"} Owner <- MCOwner
    MaxStamp = 2 MaxPieces = 3 MaxTurns = 1
INVARIANTS FieldsConverge TextsMerge
PROPERTIES EditorsMeet
CHECK_DEADLOCK FALSE
