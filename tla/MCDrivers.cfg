SPECIFICATION DriversSpec
CONSTANTS
    Console = 1
    NoId = NoId
    RingSize = 3
    ReadSize = 2
    MaxSent = 2
    BufSize = 4
    MaxChars = 7
    Rows = 2
    Cols = 2
    Page = 3
    Alphabet = {48, 65, 255}
    MaxText = 2
    FifoSize = 14
    PacketLen = 4
    Burst = 2
    MaxFaults = 3
INVARIANTS
    DriversTypeOK
    DriverMatches
    Announced
    
    ScreenShows
    WholePacket
PROPERTY YprReturns
