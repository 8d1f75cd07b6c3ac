CONSTANT MaxReplicas = 1
SPECIFICATION Spec
PROPERTY WarnedStackStaysDown
