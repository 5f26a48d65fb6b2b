CONSTANT MaxSessions = 4
SPECIFICATION Spec
INVARIANTS TypeOK AllocMatchesReference
