CONSTANT MaxSessions = 4
SPECIFICATION Spec
INVARIANT SessionsReleased
