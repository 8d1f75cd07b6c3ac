CONSTANT MaxRelease = 3
CONSTANT Pg <- Pg123
CONSTANT Write = {w1}
SPECIFICATION Spec
INVARIANT UpgradesAnnouncedVersion
