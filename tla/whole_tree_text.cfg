SPECIFICATION Spec
CONSTANTS
    main = main
    a = a
    Dbs = {main, a}
    MainDb = main
    MaxFlushDelay = 1
    InMemory = FALSE
    MaxVersion = 1
INVARIANTS
    SerialisedTextParses
