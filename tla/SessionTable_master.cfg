CONSTANT MaxSessions = 4
SPECIFICATION Spec
PROPERTY MasterValidAtDestroy
