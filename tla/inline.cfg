SPECIFICATION FairSpec
CONSTANTS
    main = main
    a = a
    Dbs = {main, a}
    MainDb = main
    MaxFlushDelay = 0
    InMemory = FALSE
    MaxVersion = 3
INVARIANTS
    NoLostUpdate
PROPERTIES
    ImplementsStore
    EventuallyDurable
