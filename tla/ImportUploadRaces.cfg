\* Requests of every kind on one session, three at a time; other creates sweep it.
SPECIFICATION Spec
CONSTANTS
    None = None
    Uploads = {u1}
    Slots = {q1, q2, q3}
    ChunkSize = 2
    MaxFileSize = 3
    MaxBytes = 3
SYMMETRY Symmetry
INVARIANTS TypeOK ImportsWholeFile TempsOwned
PROPERTY RemovedForGood
