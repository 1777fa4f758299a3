SPECIFICATION FairSpec
CONSTANTS
    main = main
    a = a
    Dbs = {main, a}
    MainDb = main
    MaxFlushDelay = 1
    InMemory = FALSE
    MaxVersion = 2
INVARIANTS
    TypeOK
    NoLostUpdate
    RemovedDbIsQuiet
    CleanExit
    OneHolder
    IInv
PROPERTIES
    FilesNeverGoBack
    ImplementsStore
    RequestsReturn
    EventuallyDurable
