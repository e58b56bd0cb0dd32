CONSTANTS
    Keys = {"a", "b"}
    Builds = {"app", "app2", "driver", "big"}
    Apps = {"app", "app2", "big"}
    Large = {"big"}
    Chunks = 2
    Slots = {1, 2}
    MaxPackages = 2
    Catalogs <- TestCatalogs
    Answers <- TestAnswers
    RawCapacity = 24
    BodyCapacity = 12
    Chars = {"a", " "}
    Space = " "
    MaxInput = 2
    HistorySize = 2
    TabWidth = 3
    NewLine = "n"
    MaxText = 3
    TabSpaces = 4
    Rows = 2
    Columns = 2
    Files <- TestFiles
    Clipboards <- TestClipboards
    PageSize = 4
    Pages = 16
    LowEnd = 4
    BootEnd = 20
    TableEntries = 4
    PoolSize = 3
    Machines <- TestMachines
    Registers = {14}
    RegisterPages = 1
    RegisterBase = 15
    Requests = {1, 2, 3}
    LocalsMax = 5
    CodeMax = 300
    DataMax = 20
    FloatScale = 10
    StackMax = 8
    CallDepthMax = 4
    MaxSteps = 300
    ArraySlots = 3
    ArrayCells = 6
    StringSlots = 2
    StringBytes = 4
    Numbers = {5}
    Texts <- TestTexts
    MaxAnswers = 3
    Programs <- TestPrograms
SPECIFICATION Spec
INVARIANTS  RecordsBacked    PagesKept 
CHECK_DEADLOCK FALSE
