CONSTANTS
    Calls <- MCCalls
    MaxPolls = 2
    MaxStreamParts = 4
    Batches <- MCBatches
    ResultRetries = 1
    FileJobs <- MCFileJobs
    MaxFetches = 2
    Prompts <- MCPrompts
    MaxHops = 2
    Authorities = {"A", "B"}
    Self = "B"
    None = "none"
    MaxAsked = 2
    Modal <- MCModal
    MaxGiven = 3
    LiveCalls <- MCLive
    MaxFrames = 3
    RealtimeCalls <- MCRealtime
    MaxExchanged = 4
    OutputCalls <- MCOutputs
    MaxDepth = 3
    SchemaJobs <- MCSchemas
    Values <- MCValues
    Exchanges <- MCExchanges
    MaxChunk = 3
    McpServers <- MCMcpServers
    MaxListings = 2
    Talkers = {"anthropic", "chat", "compatible", "completion", "gemma", "google2", "google3", "interactions", "interactions_linked",
               "responses", "responses_conversation", "responses_own", "responses_previous"}
    MaxMessages = 5
    MaxBreakpoints = 1
SPECIFICATION Spec
INVARIANTS ResultsInOrder CredentialsStayHome RequestsWellFormed OnlyListedIsSilent
PROPERTY StopsWhenTold
CHECK_DEADLOCK FALSE
