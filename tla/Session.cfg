CONSTANTS
    Tabs = {t1, t2}
    Workers = {w1}
    MaxLogins = 2
SPECIFICATION Spec
PROPERTIES RequestsRecover SessionEnds
CHECK_DEADLOCK FALSE
