\* One task reads a file, another closes it, a third deletes the file system.
SPECIFICATION Spec
CONSTANTS
    NULL = NULL
    a = a
    b = b
    c = c
    f1 = f1
    f2 = f2
    f3 = f3
    Tasks = {a, b, c}
    Files = {f1, f2, f3}
    MAX_FILES = 2
    MAX_FILE_SYSTEMS = 2
PROPERTY NoneInProgress
