CONSTANT MaxWrites = 1
SPECIFICATION Spec
PROPERTY DisableRestartsDatabase
