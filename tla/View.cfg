SPECIFICATION Spec
CONSTANTS
    table = table
    temp = temp
    None = None
    Empty = Empty
    File <- TwoFiles
    MaxWrites = 2
CONSTRAINT Consistent
SYMMETRY Names
 
 
 
INVARIANT RenameKeeps
CHECK_DEADLOCK FALSE
