CONSTANTS
    Unregistered <- MCUnregistered
    Widths = {8, 16, 32, 64}
    EmbedLists <- MCEmbedLists
    None = None
    RetryAfters = {1}
    MaxTrips = 2
SPECIFICATION Spec
INVARIANT EmbedFieldsSeparated
