CONSTANTS
    Values = {1, 2}
    Pad = Pad
    FileTypes = {1, 2}
    Totals <- MCTotals
    Addrs <- MCAddrs
    Chunks <- MCChunks
    MaxFileBytes = 7
    MaxReceivedSpans = 3
SPECIFICATION SpanSpec
INVARIANTS
    CompletedIsGenuine
    SpansAreExact
PROPERTIES
    DiscardIsReported
    ImplementsDelivery
