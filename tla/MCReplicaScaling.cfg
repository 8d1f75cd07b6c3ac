CONSTANT MaxReplicas = 3
SPECIFICATION Spec
INVARIANT TypeOK
INVARIANT HolesOnlyFromCutLoops
INVARIANT RunningAreEnabled
PROPERTY ScaleReachesTarget
PROPERTY ScaleKeepsRequestedReplicas
PROPERTY CommandsEnd
