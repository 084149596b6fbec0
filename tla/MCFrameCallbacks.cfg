SPECIFICATION FairSpec
CONSTANTS
    Callback = {c1, c2, c3}
    NULL = NULL
INVARIANTS
    ListsAreQueues
    EnvKeepsApart
PROPERTY CallbacksAnswered
