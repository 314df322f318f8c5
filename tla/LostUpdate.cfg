SPECIFICATION SSpec
CONSTANTS
    t1 = t1
    t2 = t2
    backend = backend
    publisher = publisher
    None = None
    Threads = {t1, t2}
    Processes = {backend, publisher}
    Home <- TwoProcesses
    Ring = 2
    MaxOps = 2
    MaxCrashes = 0
INVARIANT
    ReadModifyWriteIsAtomic
