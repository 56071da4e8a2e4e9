SPECIFICATION Spec
CONSTANTS
    Options = {"allow", "reject"}
    Ops = {"input", "cancel", "respond", "mode"}
    AgentMayDie = FALSE
    MaxOps = 3
    MaxPermissions = 1
PROPERTY MutexReleased
CHECK_DEADLOCK FALSE
