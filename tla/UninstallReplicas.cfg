CONSTANT MaxReplicas = 2
SPECIFICATION Spec
PROPERTY UninstallStopsReplicas
