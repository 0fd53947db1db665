SPECIFICATION MCSpec
CONSTANTS
    Callers = {h1, h2, h3}
    Threshold = 5
    Attempts = 3
    Cooldown = 2
PROPERTIES
    AloneImplementsBreaker
    Recovers
    CutsOff
