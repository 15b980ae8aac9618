SPECIFICATION MCSpec
CONSTANTS
    Replicas = {r1}
    MaxBoots = 1
PROPERTIES SignalEndsProcess
CHECK_DEADLOCK FALSE
