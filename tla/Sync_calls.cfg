CONSTANTS
    None = None
    Null = Null
    BufSize = 2
    UnitSends <- MCUnitSends
    MaxLateStarts = 1
    Callers = {chipThread, s21WorkQueue}
    Shells = {serial}
SPECIFICATION MCSpec
INVARIANTS
    LinkTypeOK
    CompletionFindsResult
    OneResultPerTransaction
    TurnaroundOnlyForRequests
    CallbackFindsCaller
    PermitHasAnswer
PROPERTIES
    EveryOperationCompletes
    ImplementsDataLink
    EveryCallReturns
    BusyOnlyBesideShell
