CONSTANTS
    d1 = d1
    d2 = d2
    reader1 = reader1
    Missing = Missing
    Torn = Torn
    Documents <- MCDocuments
    Readers <- MCReaders
    Keep = 2
    MaxTime = 4
    ClockSteps = FALSE
SPECIFICATION Spec
SYMMETRY Symmetry
INVARIANTS TypeOK LoadsWhatWasListed SavedIsStored Retention
PROPERTIES OnlyStaleDisappear ImplementsArchive
