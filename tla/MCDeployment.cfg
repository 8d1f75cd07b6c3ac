SPECIFICATION Spec
CONSTANTS
 DBCredential <- MCDBCredential
 Satellite <- MCSatellite
 Service <- MCService
 Unit <- MCUnit
 Secret <- MCSecret
 Packaged <- MCPackaged
 MaxGeneration = 3
 MaxFaults = 1
INVARIANT TypeOK
INVARIANT UnitsUsable
INVARIANT CredentialsKept
CHECK_DEADLOCK FALSE
