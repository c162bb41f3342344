\* The bytes and keys are bounded: when they are used up the tasks may all sleep.
SPECIFICATION Spec
CONSTANTS
    NULL = NULL
    a = a
    b = b
    m = m
    Tasks = {a, b, m}
    MaxDevs = 2
    Ports = {0}
    RingSize = 2
    SharedPorts = FALSE
    MaxBytes = 6
    FewBytes = 2
    MouseTask = m
    MousePort = 0
    MouseType = "MICROSOFT"
    MouseModes = {"ABSOLUTE"}
    Movements <- Walk
    Pages = {0, 1}
    KeyBufSize = 2
    ScreenWidth = 1
    ScreenHeight = 1
    TabSize = 1
    SharedConsoles = FALSE
    Flags = {"BLK"}
    Keys = {"x", "BS", "CR"}
    MaxKeys = 2
    Drives = {0, 128}
    Recreates = FALSE
    Sectors = {2}
    MaxChanges = 1
    Windows = {1, 2, 3}
    FewWindows = 2
    Root = Root
    QueueSize = 2
    Areas <- Corners
    Planes = 3
    BiosColors <- Greys
    Rgbs = {0, 1500000}
    MaxPixels = 2
    Misuses = {}
    LineBytes = 3
    Height = 16
    Xs <- ByteEnds
    Ys = {0, 2, 15}
    Glyphs <- TwoGlyphs
    MaxText = 4
    Bitmaps <- TwoBitmaps
    SectorSize = 4
    MemorySize = 32
    CoffHeader = 3
    BootDisks <- SomeDisks
    Origins <- TwoOrigins
    PointSeqs <- ManyPoints
    Sizes = {2, 9}
    Narrow = 2
    Wide = 4
    Lines = 2
    Texts <- SomeTexts
    MaxWritten = 3
    TextModes = {0, 3, 7, 12, 18}
    Formats <- SomeFormats
    RingSizes = {3, 5}
    MaxPrinted = 2
    PoolSizes = {0, 1, 3}
    IdleTask = IdleTask
    MaxIdleHooks = 2
    Hooks = {hook1, hook2}
    HooksEdit = FALSE
    Byte = 2
    Paths = {path1}
    DosHandles = {5}
    DiskFull = 1
    Lens = {0, 1}
    Offsets <- SomeOffsets
    Programs <- ManyPrograms
SYMMETRY Symmetry
CHECK_DEADLOCK FALSE
INVARIANTS   EachByteOnce    CellsSound   HooksRun DosAnswers ScreenShows  OneBiosCall
PROPERTIES TransferWhole
