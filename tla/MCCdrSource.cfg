CONSTANTS
    K = 2
    MaxGen = 3
SPECIFICATION Spec
INVARIANTS
    TypeOK
    UploadIsReal
    SnapshotIsFresh
PROPERTY StoreIsAtomic
