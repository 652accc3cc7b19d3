SPECIFICATION Spec
CHECK_DEADLOCK FALSE
CONSTANTS
    Addresses = {7, 94, 140, 224}
    Numbers = {1, 2, 23}
    Texts <- TextSet
    Events <- EventSet
    Pins <- PinSet
    MaxRead = 100
    MaxFlight = 2
    Years = {2000, 2023}
    Clocks <- ClockSet
    MaxSteps = 2
INVARIANT OwnCrcIsCcitt
