SPECIFICATION ProgramFairSpec
CONSTANTS
    Main = Main
    Watcher = Watcher
    NoThread = NoThread
    Worker = {w1, w2}
    MaxSignals = 2
    Empty = ""
    Unread = Unread
    Missing = Missing
    Bad = Bad
    DefaultConfig = "config.yaml"
    DefaultLogs = "./logs"
    Defaults <- MCDefaults
    Values <- MCValues
    Contents <- MCContents
    MaxArgs = 2
INVARIANTS
    TypeOK
    ServerOutlivesUse
    OnlySignalStops
    RunsAsTold
    ZeroIsSuccess
PROPERTIES
    StopsOnSignal
