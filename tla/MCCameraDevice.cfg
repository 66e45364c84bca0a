SPECIFICATION FairSpec
CONSTANT MaxRetries = 5
INVARIANTS
    TypeOK
    RestingFlags
    HandleGivenBack
    CallOrder
PROPERTIES
    Returns
    Implements
