CONSTANTS
    N = 2
    MaxLogs = 2
    MaxPending = 2
SPECIFICATION Spec
INVARIANT PersistMessageInBlob
