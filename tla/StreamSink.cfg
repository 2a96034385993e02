\* Two commands of up to 4 bytes, in chunks of any size, and a queue of one line;
\* the console may stall for good.
CONSTANTS
    QueueCap = 1
    NCmds = 2
    MaxBytes = 4
SPECIFICATION StalledSpec
INVARIANTS
    FlushSeparates
    NoteHasRoom
    ChunkingInvisible
    NothingUnaccounted
PROPERTIES
    WriteNeverStalls
    SinkCloses
