CONSTANT MaxReplicas = 1
SPECIFICATION Spec
INVARIANT TypeOK
INVARIANT ColdExport
PROPERTY DisabledStackStaysDown
PROPERTY StopReachesAll
PROPERTY DBOutlivesServer
PROPERTY StartedMeansRunning
PROPERTY BackupRestarts
