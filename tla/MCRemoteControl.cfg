\* Two clients, two requests in all, of every kind, and a fair event loop; two
\* parameters as text.
CONSTANTS
    Clients = {c1, c2}
    Kinds = {"get", "set", "oversized", "malformed", "badprefix"}
    NoClient = NoClient
    MaxRequests = 2
    Parameters <- MCParameters
    Width <- MCWidth
    Signed = {"int8_t", "int32_t", "int64_t"}
    Int32 = "int32_t"
    UInt32 = "uint32_t"
    Int64 = "int64_t"
    UInt64 = "uint64_t"
    Mantissa = 4
    TextItems = {"on", " on "}
    MaxList = 2
    Trim <- MCTrim
SPECIFICATION MCSpec
INVARIANTS WholeRequestsInOrder LatestIsServed
    EditsArrive
PROPERTIES GetIsAnswered FileRestores
CHECK_DEADLOCK FALSE
