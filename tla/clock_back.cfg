CONSTANTS
    d1 = d1
    d2 = d2
    reader1 = reader1
    Missing = Missing
    Torn = Torn
    Documents <- MCDocuments
    Readers <- MCReaders
    Keep = 1
    MaxTime = 4
    ClockSteps = TRUE
SPECIFICATION Spec
INVARIANTS SavedIsStored
