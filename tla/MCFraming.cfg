SPECIFICATION FairSpec
CONSTANTS
    Byte <- MCByte
    Lines <- MCLines
    NL = "nl"
    NUL = "nul"
    FileByte = "f"
    Download <- MCDownload
    FileSize = 3
    maxMessageSize = 3
    BufferSize = 2
    MaxCommands = 3
INVARIANTS
    TypeOK
    AnswersInOrder
    InSync
    NoSpuriousEnd
PROPERTIES
    EveryCommandAnswered
CHECK_DEADLOCK FALSE
