CONSTANT MaxRelease = 3
CONSTANT Pg <- Pg123
CONSTANT Write = {w1, w2}
SYMMETRY Writes
SPECIFICATION Spec
INVARIANT TypeOK
INVARIANT NoWriteLost
INVARIANT DatabaseComplete
INVARIANT ServerNotAheadOfDB
INVARIANT TFTPKept
