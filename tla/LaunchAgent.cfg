SPECIFICATION Spec
CONSTANTS
    Commands = {a, b}
    Schedules = {v1, v2}
    None = None
PROPERTIES
    CommandsTakeEffect
    OrphansRepairedByRetry
    OrphansNeedDisturbance
CHECK_DEADLOCK FALSE
