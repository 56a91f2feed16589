SPECIFICATION Spec
CONSTANTS
    SeedLines = 1
    LogMax = 2
    LogPage = 1
    MaxClients = 1
    ScriptMax = 2
    BerryBudget = 3
    Generators <- TwoGenerators
    Parameters <- SomeParameters
    MaxParams = 8
    Handlers = {h1, h2}
    Requests <- AllRequests
    MaxRequests = 3
    Free = Free
INVARIANTS
    TokensSuffice
    AnswersDistinct
    RevisionNames
    SavedFollows
    LinesKept
PROPERTY
    RefusalsStayOut
SYMMETRY Interchangeable
