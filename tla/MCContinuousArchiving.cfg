CONSTANT MaxWrites = 2
SPECIFICATION Spec
INVARIANT TypeOK
INVARIANT Continuous
PROPERTY EndsWithBackup
PROPERTY RestoreBringsBack
PROPERTY LastCopyKept
PROPERTY DatabaseRunsAgain
PROPERTY RestoreEnds
