\* Two timers of the model, one of which the user may edit; three commands and
\* calls; nothing goes wrong but that a command and a call of the model cross.
SPECIFICATION Spec
CONSTANTS
    UserTimers = {}
    ModelTimers = {m1, m2}
    Unusable = {}
    Repeats = {}
    Handlers = {h}
    MaxEvents = 3
    MaxAccidents = 1
INVARIANT PromisesAreKept
CHECK_DEADLOCK FALSE
