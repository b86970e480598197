CONSTANTS
    r1 = r1
    w1 = w1
    c1 = c1
    Readers = {r1}
    Writers = {w1}
    Controllers = {c1}
    Showers = {r1}
    Cancellable = {r1, w1}
    NBlocks = 5
    MaxChain = 3
    PaceLimits <- MCPaceLimits
    Offset <- MCOffset
SPECIFICATION FairSpec
INVARIANTS TypeOK ListSound RoomWaitersAboveLimit ForcedWakeSeen NoStrandedReader
PROPERTIES RefinesBlockQueue PacedWriterProceeds BlocksLeave
