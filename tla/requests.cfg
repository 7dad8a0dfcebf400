CONSTANTS
    Messages <- MCMessages
    Notes <- MCNotes
    CallIds = {c1, c2}
    MaxRetries = 1
    MaxSaved = 2
    MaxAnswers = 2
    MaxFaults = 2
SPECIFICATION Spec
SYMMETRY CallIdSymmetry
CHECK_DEADLOCK FALSE
INVARIANTS EveryRequestSendable OwnNoteStripped SnapshotFaithful NoMessageTwice RestartKnowsHistory ClearForgets
PROPERTIES HistoryStable
