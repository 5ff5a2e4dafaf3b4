\* Every chain of messages ends with who reads the object.
CONSTANTS
    Blocks <- MCBlocks
    Terms <- MCTerms
    Cases <- MCCases
    Client = "client"
    Server = "server"
    Proxy = "proxy"
    Requests <- MCRequests
    Responses <- MCResponses
    Older <- MCOlder
    Bulk = {"BatchReq", "BatchRsp", "API"}
SPECIFICATION Spec
CHECK_DEADLOCK FALSE
INVARIANTS
    SizeExact
    Delivered
