SPECIFICATION SSpec
CONSTANTS
    t1 = t1
    t2 = t2
    backend = backend
    publisher = publisher
    None = None
    Threads = {t1, t2}
    Processes = {publisher}
    Home <- OneProcess
    Ring = 2
    MaxOps = 4
    MaxCrashes = 1
INVARIANTS
    ReadersSeeWhole
PROPERTY
    CallsAreAtomic
