SPECIFICATION Spec
CONSTANTS
    Byte <- MCByte
    Lines <- MCLines
    NL = "nl"
    NUL = "nul"
    FileByte = "f"
    Download <- MCDownload
    FileSize = 3
    maxMessageSize = 3
    BufferSize = 2
    MaxCommands = 2
INVARIANTS
    NoCommandIsLost
CHECK_DEADLOCK FALSE
