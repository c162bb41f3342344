\* Three tasks, two handles and two file systems: a third open() finds no
\* handle, and a file system is deleted beside one in use.
SPECIFICATION Spec
CONSTANTS
    NULL = NULL
    a = a
    b = b
    c = c
    f1 = f1
    f2 = f2
    f3 = f3
    Tasks = {a, b, c}
    Files = {f1, f2, f3}
    MAX_FILES = 2
    MAX_FILE_SYSTEMS = 2
SYMMETRY Symmetry
INVARIANTS UseCounts FilesHeld
PROPERTIES DeletedIdle
