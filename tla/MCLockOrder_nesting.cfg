SPECIFICATION Spec
CONSTANTS
    Role <- AllRoles
    Tasks <- AllTasks
INVARIANTS
    LockInv
CHECK_DEADLOCK FALSE
