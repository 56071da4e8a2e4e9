SPECIFICATION Spec
CONSTANTS
    Options = {"allow", "reject"}
    Ops = {"input", "cancel", "respond"}
    AgentMayDie = FALSE
    MaxOps = 3
    MaxPermissions = 2
INVARIANT NoStalePending
