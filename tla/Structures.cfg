SPECIFICATION StructuresSpec
CONSTANTS
    Size = 3
    Byte = {"a", "b"}
    MaxCall = 4
    Words = 16
    Limit = 256
    Nmemb = {1, 17}
    Sizes = {0, 8, 15}
    Fill = {a, b}
    Null = Null
    ProcNum = 2
    PtAmount = 2
    PageSize = 2
    VirtualPages = 3
    PageTables <- MCPageTables
    Places = 5
    Key = {1, 2, 3}
    Phone = {1, 2, 3, 4}
    Name = {"x", "y"}
    NoNode = NoNode
    Isbn = {1, 2, 3}
    MaxBooks = 4
    NoElement = NoElement
    Number = {2, 3, 7}
    MaxTokens = 5
    Plus = Plus
    Minus = Minus
    Times = Times
    NaN = NaN
    Word = Word
    NotEmpty = NotEmpty
    Failed = Failed
    MaxLength = 5
    MaxValue = 2
    CounterLimit = 16
    MaxRuns = 10
    ByteBase = 2
    Packets <- MCPackets
    NoPacket = NoPacket
INVARIANTS
    Capacity
    HeapSound
    ListSound
    ProgramsDeliver
    DecodesWhatWasSent
PROPERTIES
    ImplementsFifo
    ImplementsAllocator
    KeepsToOwnTable
    ImplementsQueue
    ImplementsTable
    AnswersValue
CHECK_DEADLOCK FALSE
