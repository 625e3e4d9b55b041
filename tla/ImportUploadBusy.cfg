\* Abandoned sessions while people go on uploading.
SPECIFICATION BusySpec
CONSTANTS
    None = None
    Uploads = {u1}
    Slots = {q1, q2}
    ChunkSize = 2
    MaxFileSize = 3
    MaxBytes = 2
PROPERTY StaleRemoved
