SPECIFICATION Spec
CONSTANTS
    Systems = {"posix", "user", "kernel"}
    Latencies = {1, 3}
    Periods <- PeriodChoices
    StartTimes = {0, 4, 11}
    Micro = 2
    Second = 4
    Boot = 4
    Horizon = 21
    MaxSignals = 2
    MaxGain = 1
CHECK_DEADLOCK FALSE
PROPERTIES
    NeverEarly
    PeriodsInOrder
    ToldTrue
