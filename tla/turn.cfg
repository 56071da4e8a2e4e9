SPECIFICATION Spec
CONSTANTS
    Options = {"allow", "reject"}
    Ops = {"input", "cancel", "respond", "mode"}
    AgentMayDie = TRUE
    MaxOps = 5
    MaxPermissions = 2
INVARIANT TypeOK
INVARIANT CancelScoped
INVARIANT DeadOnlyWhenGone
INVARIANT WaitingHasPending
INVARIANT NoStaleUnlessCancelled
INVARIANT AnswerFaithful
PROPERTY PermissionSurfaces
PROPERTY PermissionReleased
PROPERTY ExitReported
PROPERTY StatusSettles
PROPERTY MutexReleasedUnlessBlocked
CHECK_DEADLOCK FALSE
