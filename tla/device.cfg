SPECIFICATION Spec
CONSTANTS
    Input = {i1}
    Output = {o1}
    Analog = {a1}
    Level = {0, 1}
    Faults = {"lost", "deaf", "late", "slow", "ctzu", "cme", "missed"}
    MaxFaults = 2
    MaxChanges = 2
    MaxFlight = 2
INVARIANTS
    TypeOK
    MirrorFollows
    ResetsForTimeOnce
PROPERTIES
    StaysUp
    MirrorRepaired
