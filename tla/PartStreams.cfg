CONSTANTS
    Providers = {"anthropic", "google", "responses", "chat", "compatible", "interactions", "extract_reasoning", "extract_json", "smooth", "simulate"}
    AnthropicBlocks <- MCAnthropicBlocks
    MaxBlocks = 2
    GoogleUnits <- MCGoogleUnits
    MaxUnits = 2
    ResponseItems <- MCResponseItems
    MaxItems = 2
    ChatUnits <- MCChatUnits
    MaxChatUnits = 2
    InteractionSteps <- MCInteractionSteps
    MaxSteps = 2
    LayerUnits <- MCLayerUnits
    MaxLayerUnits = 2
    DeltaSizes = {1, 2, 3, 7}
    SuffixBuffer = 6
SPECIFICATION Spec
INVARIANTS
    PartsInPlace
    SaysTheSame
    InputsAreSpelled
    EarlyErrorsFail
CHECK_DEADLOCK FALSE
